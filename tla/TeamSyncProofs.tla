--------------------------- MODULE TeamSyncProofs ---------------------------
(***************************************************************************)
(* Proofs about TeamSync, for any sets of records, names, ports, addresses *)
(* and pollers.                                                            *)
(*                                                                         *)
(* The types need that each operator makes settings of settings            *)
(* (DeskStateProofs).  What makes NoRollback inductive is OrderInv: the    *)
(* holder of syncRun is the only one in a poll, and what it fetched is not *)
(* older than what was applied.  ConflictInv keeps a conflict true until   *)
(* it is noted.                                                            *)
(***************************************************************************)
EXTENDS TeamSync, DeskStateProofs

----------------------------------------------------------------------------
(* Types.                                                                  *)

\* Where a poll can be.
PollPlace == {"idle", "read", "fetch", "failed", "apply", "conflict", "unsaved"}

\* The settings in a database have passed validation.
Valid == \A d \in Desk : Validate(saved[d])

DeskInv == TypeOK /\ Valid

\* The desks start with valid settings.
LEMMA DeskInit == Init => DeskInv
<1> SUFFICES ASSUME Init PROVE DeskInv
  OBVIOUS
<1> USE DeskAssumption
<1>1. InitMaster \in Settings /\ InitMember \in Settings /\ Empty \in Settings
  BY EmptySettings
<1>2. saved \in [Desk -> Settings] /\ Valid
  BY <1>1 DEF Init, Valid, Desk
<1>3. used \subseteq Item
  BY DEF Init, Present
<1>4. 0 \in 0..MaxRevision /\ 0 \in 0..MaxRestarts
  OBVIOUS
<1>5. bundle \in [data : Settings, url : Url \cup {None}, scope : SUBSET KeyId,
                  rev : 0..MaxRevision]
  BY <1>1, <1>4 DEF Init, NoBundle
<1>6. paused \in BOOLEAN /\ stalled \in BOOLEAN
  BY DEF Init
<1> QED
  BY <1>1, <1>2, <1>3, <1>4, <1>5, <1>6 DEF Init, DeskInv, TypeOK

\* A commit of settings keeps the types.
LEMMA CommitTyped ==
    ASSUME DeskInv, NEW d \in Desk, NEW new \in Settings, Commit(d, new),
           used' \subseteq Item
    PROVE  DeskInv'
<1> USE DeskAssumption DEF DeskInv
<1>1. /\ saved' = [saved EXCEPT ![d] = new] /\ Validate(new)
      /\ UNCHANGED <<subVars, shareVars, pollVars, lifeVars>>
  BY DEF Commit
<1>2. revision' \in 0..MaxRevision
  <2>1. revision \in 0..MaxRevision
    BY DEF TypeOK
  <2>2. CASE d = "master"
    BY <2>1, <2>2 DEF Commit
  <2>3. CASE d # "master"
    BY <2>1, <2>3 DEF Commit
  <2> QED
    BY <2>2, <2>3
<1>3. saved' \in [Desk -> Settings] /\ Valid'
  BY <1>1 DEF TypeOK, Valid
<1> QED
  BY <1>1, <1>2, <1>3 DEF TypeOK, subVars, shareVars, pollVars, lifeVars

\* The edits of a desk keep the types.
LEMMA EditTyped ==
    ASSUME DeskInv, NEW d \in Desk, Edit(d)
    PROVE  DeskInv'
<1>1. saved[d] \in Settings /\ used \subseteq Item
  BY DEF DeskInv, TypeOK
<1>2. CASE SaveKey(d)
  <2>1. PICK k \in KeyId : /\ Commit(d, Put(saved[d], k, [path |-> "file"]))
                           /\ used' = used \cup {k}
    BY <1>2 DEF SaveKey
  <2>2. [path |-> "file"] \in KeyRec
    BY DEF KeyRec, Path
  <2>3. Put(saved[d], k, [path |-> "file"]) \in Settings
    BY <1>1, <2>2, PutSettings
  <2> QED
    BY <1>1, <2>1, <2>3, CommitTyped DEF Item
<1>3. CASE SaveHost(d)
  <2>1. PICK h \in HostId, v \in HostRec :
            Commit(d, Put(saved[d], h, v)) /\ used' = used \cup {h}
    BY <1>3 DEF SaveHost
  <2>2. Put(saved[d], h, v) \in Settings
    BY <1>1, PutSettings
  <2> QED
    BY <1>1, <2>1, <2>2, CommitTyped DEF Item
<1>4. CASE SaveTunnel(d)
  <2>1. PICK u \in TunnelId, v \in TunnelRec :
            Commit(d, Put(saved[d], u, v)) /\ used' = used \cup {u}
    BY <1>4 DEF SaveTunnel
  <2>2. Put(saved[d], u, v) \in Settings
    BY <1>1, PutSettings
  <2> QED
    BY <1>1, <2>1, <2>2, CommitTyped DEF Item
<1>5. CASE SaveTunnelLinks(d)
  <2>1. PICK u \in TunnelId, v \in TunnelRec, links \in SUBSET ServiceId :
            /\ Commit(d, PutTunnel(saved[d], u, v, links))
            /\ used' = used \cup {u} \cup links
    BY <1>5 DEF SaveTunnelLinks
  <2>2. PutTunnel(saved[d], u, v, links) \in Settings
    BY <1>1, PutTunnelSettings
  <2> QED
    BY <1>1, <2>1, <2>2, CommitTyped DEF Item
<1>6. CASE SaveService(d)
  <2>1. PICK i \in ServiceId, v \in ServiceRec :
            \/ Commit(d, Put(saved[d], i, v)) /\ used' = used \cup {i}
            \/ \E h \in HostId :
                  /\ Commit(d, Put(Put(saved[d], i, v), v.tunnel,
                                   [host |-> h, port |-> v.port]))
                  /\ used' = used \cup {i, v.tunnel}
    BY <1>6 DEF SaveService
  <2>2. Put(saved[d], i, v) \in Settings
    BY <1>1, PutSettings
  <2>3. v.tunnel \in TunnelId /\ v.port \in Port
    BY DEF ServiceRec
  <2>4. CASE Commit(d, Put(saved[d], i, v)) /\ used' = used \cup {i}
    BY <1>1, <2>2, <2>4, CommitTyped DEF Item
  <2>5. CASE \E h \in HostId :
                  /\ Commit(d, Put(Put(saved[d], i, v), v.tunnel,
                                   [host |-> h, port |-> v.port]))
                  /\ used' = used \cup {i, v.tunnel}
    <3>1. PICK h \in HostId :
                  /\ Commit(d, Put(Put(saved[d], i, v), v.tunnel,
                                   [host |-> h, port |-> v.port]))
                  /\ used' = used \cup {i, v.tunnel}
      BY <2>5
    <3>2. [host |-> h, port |-> v.port] \in TunnelRec
      BY <2>3 DEF TunnelRec
    <3>3. Put(Put(saved[d], i, v), v.tunnel, [host |-> h, port |-> v.port]) \in Settings
      BY <2>2, <2>3, <3>2, PutSettings
    <3> QED
      BY <1>1, <2>3, <3>1, <3>3, CommitTyped DEF Item
  <2> QED
    BY <2>1, <2>4, <2>5
<1>7. CASE Delete(d)
  <2>1. PICK i \in Present(saved[d]) : Commit(d, Remove(saved[d], i)) /\ used' = used
    BY <1>7 DEF Delete
  <2>2. Remove(saved[d], i) \in Settings
    BY <1>1, RemoveSettings
  <2> QED
    BY <1>1, <2>1, <2>2, CommitTyped
<1> QED
  BY <1>2, <1>3, <1>4, <1>5, <1>6, <1>7 DEF Edit

\* The types of what a poll reads and keeps.
PollTyped ==
    /\ syncRun \in Poller \cup {None}
    /\ pollPc \in [Poller -> PollPlace]
    /\ pollUrl \in [Poller -> Url \cup {None}]
    /\ feed \in [Poller -> Settings]
    /\ feedRev \in [Poller -> 0..MaxRevision]

\* A poll that ends keeps the types of the polls.
LEMMA FinishedTyped ==
    ASSUME TypeOK, NEW p \in Poller, Finished(p)
    PROVE  PollTyped'
<1>1. 0 \in 0..MaxRevision
  BY DeskAssumption
<1> QED
  BY <1>1, EmptySettings DEF Finished, TypeOK, PollTyped, PollPlace

\* A restart keeps the types of the polls.
LEMMA RestartedTyped ==
    ASSUME TypeOK, Restarted
    PROVE  PollTyped' /\ stalled' \in BOOLEAN /\ restarts' \in 0..MaxRestarts
<1>1. 0 \in 0..MaxRevision /\ MaxRestarts \in Nat
  BY DeskAssumption
<1>2. restarts' \in 0..MaxRestarts
  <2>1. restarts \in 0..MaxRestarts /\ restarts < MaxRestarts /\ restarts' = restarts + 1
    BY DEF Restarted, TypeOK
  <2> QED
    BY <1>1, <2>1
<1>3. stalled' \in BOOLEAN
  BY DEF Restarted
<1> QED
  BY <1>1, <1>2, <1>3, EmptySettings DEF Restarted, PollTyped, PollPlace

\* What an installer brings are settings.
LEMMA UnpackedSettings ==
    ASSUME TypeOK, NEW fresh
    PROVE  Unpacked(fresh) \in Settings
<1> DEFINE new == Unpacked(fresh)
<1>1. bundle.data \in Settings /\ saved["member"] \in Settings
  BY DEF TypeOK, Desk
<1>2. \A i \in Item : new[i] = IF i \in KeyId /\ bundle.data[i] # None
                              THEN IF i \in fresh THEN [path |-> "bundle"]
                                                 ELSE saved["member"][i]
                              ELSE bundle.data[i]
  BY DEF Unpacked
<1>3. new = [i \in Item |-> new[i]]
  BY DEF Unpacked
<1>4. [path |-> "bundle"] \in KeyRec
  BY DEF KeyRec, Path
<1> HIDE DEF new
<1>5. /\ \A i \in KeyId : new[i] \in KeyRec \cup {None}
      /\ \A i \in HostId : new[i] \in HostRec \cup {None}
      /\ \A i \in TunnelId : new[i] \in TunnelRec \cup {None}
      /\ \A i \in ServiceId : new[i] \in ServiceRec \cup {None}
  BY <1>1, <1>2, <1>4, SettingsElim, Kinds DEF Item
<1>6. new \in Settings
  BY <1>3, <1>5, SettingsIntro
<1> QED
  BY <1>6 DEF new

\* The first installation leaves valid settings and keeps all that was there.
LEMMA FirstKeeps ==
    ASSUME TypeOK, NEW fresh, InstallFirst(fresh)
    PROVE  /\ saved' = [saved EXCEPT !["member"] = saved'["member"]]
           /\ saved'["member"] \in Settings /\ Validate(saved'["member"])
           /\ current' \subseteq Item /\ missing' = {}
           /\ \A i \in Item : saved["member"][i] # None =>
                 saved'["member"][i] = saved["member"][i]
<1> DEFINE new == Unpacked(fresh)
           l == saved["member"]
<1>1. l \in Settings /\ new \in Settings /\ "member" \in Desk
  BY UnpackedSettings DEF TypeOK, Desk
<1>2. /\ CanMerge(l, new)
      /\ saved' = [saved EXCEPT !["member"] = Overlay(l, new)]
      /\ current' = Present(new) /\ missing' = {}
  BY DEF InstallFirst
<1>3. saved \in [Desk -> Settings]
  BY DEF TypeOK
<1> HIDE DEF new
<1>4. saved'["member"] = Overlay(l, new)
  BY <1>1, <1>2, <1>3
<1>5. Overlay(l, new) \in Settings /\ Validate(Overlay(l, new))
  BY <1>1, <1>2, OverlaySettings DEF CanMerge
<1>6. \A i \in Item : l[i] # None => Overlay(l, new)[i] = l[i]
  BY <1>2 DEF CanMerge, Overlay
<1> QED
  BY <1>2, <1>4, <1>5, <1>6 DEF Present

\* A later one leaves valid settings and keeps what is not managed.
LEMMA AgainKeeps ==
    ASSUME DeskInv, NEW fresh, InstallAgain(fresh)
    PROVE  /\ saved' = [saved EXCEPT !["member"] = saved'["member"]]
           /\ saved'["member"] \in Settings /\ Validate(saved'["member"])
           /\ current' \subseteq Item /\ missing' \subseteq Item
           /\ current' \cap missing' = {}
           /\ \A i \in Item : saved["member"][i] # None =>
                 /\ saved'["member"][i] # None
                 /\ i \notin Managed => saved'["member"][i] = saved["member"][i]
<1> DEFINE new == Unpacked(fresh)
           l == saved["member"]
           keys == KeyId \cap Present(new)
           managed == Managed \cup keys
           local == [i \in Item |-> IF i \in keys THEN new[i] ELSE l[i]]
<1>1. l \in Settings /\ new \in Settings /\ "member" \in Desk /\ LinksBound(l)
  BY UnpackedSettings, ValidLinks DEF DeskInv, TypeOK, Valid, Desk
<1>2. /\ \A k \in keys : l[k] # None => k \in Managed
      /\ CanApply(local, managed, new)
      /\ saved' = [saved EXCEPT !["member"] = Applied(local, managed, new)]
      /\ current' = Present(new) /\ missing' = Gone(managed, new)
  BY DEF InstallAgain
<1>3. saved \in [Desk -> Settings] /\ Managed \subseteq Item
  BY DEF DeskInv, TypeOK, Managed
<1>4. \A i \in Item : local[i] = IF i \in keys THEN new[i] ELSE l[i]
  OBVIOUS
<1>5. local = [i \in Item |-> local[i]]
  OBVIOUS
<1>6. keys \subseteq KeyId /\ \A i \in keys : new[i] # None
  BY DEF Present
<1>7. \A i \in KeyId : i \in keys <=> new[i] # None
  BY DEF Present, Item
<1> HIDE DEF new, l, keys, local
<1>8. local \in Settings
  <2>1. /\ \A i \in KeyId : local[i] \in KeyRec \cup {None}
        /\ \A i \in HostId : local[i] \in HostRec \cup {None}
        /\ \A i \in TunnelId : local[i] \in TunnelRec \cup {None}
        /\ \A i \in ServiceId : local[i] \in ServiceRec \cup {None}
    BY <1>1, <1>4, <1>6, SettingsElim, Kinds DEF Item
  <2> QED
    BY <1>5, <2>1, SettingsIntro
<1>9. LinksBound(local)
  <2> SUFFICES ASSUME NEW v \in ServiceId, local[v] # None
               PROVE  local[local[v].tunnel] # None
    BY DEF LinksBound
  <2>1. local[v] = l[v]
    BY <1>4, <1>6, Kinds DEF Item
  <2>2. l[v].tunnel \in TunnelId /\ l[l[v].tunnel] # None
    BY <1>1, <2>1, SettingsElim DEF ServiceRec, LinksBound
  <2> QED
    BY <1>4, <1>6, <2>1, <2>2 DEF Item
<1>10. /\ saved'["member"] = Applied(local, managed, new)
       /\ Validate(Applied(local, managed, new))
       /\ Applied(local, managed, new) \in Settings
  BY <1>1, <1>2, <1>3, <1>8, AppliedSettings DEF CanApply
<1>11. ASSUME NEW i \in Item, l[i] # None
       PROVE  /\ Applied(local, managed, new)[i] # None
              /\ i \notin Managed => Applied(local, managed, new)[i] = l[i]
  <2>1. local[i] # None
    BY <1>4, <1>6, <1>11
  <2>2. /\ Applied(local, managed, new)[i] # None
        /\ i \in KeyId \/ (new[i] = None /\ i \notin managed) =>
              Applied(local, managed, new)[i] = local[i]
    BY <1>1, <1>8, <1>9, <2>1, AppliedKeeps
  <2>3. ASSUME i \notin Managed PROVE i \notin keys
    BY <1>2, <1>11, <2>3
  <2>4. ASSUME i \notin Managed PROVE new[i] = None
    BY <1>2, <2>1, <2>3, <2>4 DEF CanApply, NoClash
  <2> QED
    BY <1>4, <2>2, <2>3, <2>4
<1>12. /\ current' \subseteq Item /\ missing' \subseteq Item
       /\ current' \cap missing' = {}
  BY <1>2, <1>3, <1>6 DEF Present, Gone, Item
<1> QED
  BY <1>2, <1>10, <1>11, <1>12 DEF l

\* A poll leaves valid settings, keeps what is not managed and moves no key.
LEMMA PollKeeps ==
    ASSUME DeskInv, NEW p \in Poller, PollApplies(p)
    PROVE  /\ saved' = [saved EXCEPT !["member"] = saved'["member"]]
           /\ saved'["member"] \in Settings /\ Validate(saved'["member"])
           /\ current' \subseteq Item /\ missing' \subseteq Item
           /\ current' \cap missing' = {}
           /\ \A i \in Item : saved["member"][i] # None =>
                 /\ saved'["member"][i] # None
                 /\ i \notin Managed \/ i \in KeyId =>
                       saved'["member"][i] = saved["member"][i]
<1> DEFINE l == saved["member"]
           f == feed[p]
<1>1. /\ l \in Settings /\ f \in Settings /\ "member" \in Desk /\ LinksBound(l)
      /\ saved \in [Desk -> Settings] /\ Managed \subseteq Item
  BY ValidLinks DEF DeskInv, TypeOK, Valid, Desk, Managed
<1>2. /\ CanApply(l, Managed, f)
      /\ saved' = [saved EXCEPT !["member"] = Applied(l, Managed, f)]
      /\ current' = Present(f) /\ missing' = Gone(Managed, f)
  BY DEF PollApplies
<1> HIDE DEF l, f
<1>3. /\ saved'["member"] = Applied(l, Managed, f)
      /\ Validate(Applied(l, Managed, f))
      /\ Applied(l, Managed, f) \in Settings
  BY <1>1, <1>2, AppliedSettings DEF CanApply
<1>4. ASSUME NEW i \in Item, l[i] # None
      PROVE  /\ Applied(l, Managed, f)[i] # None
             /\ i \notin Managed \/ i \in KeyId => Applied(l, Managed, f)[i] = l[i]
  <2>1. /\ Applied(l, Managed, f)[i] # None
        /\ i \in KeyId \/ (f[i] = None /\ i \notin Managed) =>
              Applied(l, Managed, f)[i] = l[i]
    BY <1>1, <1>4, AppliedKeeps
  <2>2. i \notin Managed => f[i] = None
    BY <1>2, <1>4 DEF CanApply, NoClash
  <2> QED
    BY <2>1, <2>2
<1>5. /\ current' \subseteq Item /\ missing' \subseteq Item
      /\ current' \cap missing' = {}
  BY <1>1, <1>2 DEF Present, Gone
<1> QED
  BY <1>2, <1>3, <1>4, <1>5 DEF l

\* Every step keeps the types and the validity of both databases.
LEMMA DeskInductive ==
    ASSUME DeskInv, [Next]_vars
    PROVE  DeskInv'
<1> USE DEF deskVars, subVars, shareVars, pollVars, lifeVars, PollPlace
<1>1. ASSUME NEW d \in Desk, Edit(d) PROVE DeskInv'
  BY <1>1, EditTyped
<1>2. CASE ImportBackup
  <2>1. saved["member"] \in Settings /\ saved["master"] \in Settings /\ used \subseteq Item
    BY DEF DeskInv, TypeOK, Desk
  <2>2. Overlay(saved["member"], saved["master"]) \in Settings
    BY <2>1, OverlaySettings
  <2>3. "member" \in Desk /\ used' = used
        /\ Commit("member", Overlay(saved["member"], saved["master"]))
    BY <1>2 DEF ImportBackup, Desk
  <2> QED
    BY <2>1, <2>2, <2>3, CommitTyped
<1>3. CASE Publish
  BY <1>3 DEF Publish, DeskInv, TypeOK, Valid
<1>4. CASE Download
  <2>1. Refreshed(saved["master"], shared) \in Settings
    BY SelectionSettings DEF DeskInv, TypeOK, Desk, Refreshed
  <2>2. bundle' \in [data : Settings, url : Url \cup {None}, scope : SUBSET KeyId,
                     rev : 0..MaxRevision]
    BY <1>4, <2>1, DeskAssumption DEF Download, DeskInv, TypeOK
  <2> QED
    BY <1>4, <2>2 DEF Download, DeskInv, TypeOK, Valid
<1>5. CASE Restart
  <2>1. PollTyped' /\ stalled' \in BOOLEAN /\ restarts' \in 0..MaxRestarts
    BY <1>5, RestartedTyped DEF Restart, DeskInv
  <2> QED
    BY <1>5, <2>1 DEF Restart, DeskInv, TypeOK, PollTyped, Valid
<1>6. CASE Install
  <2>1. PollTyped' /\ stalled' \in BOOLEAN /\ restarts' \in 0..MaxRestarts
    BY <1>6, RestartedTyped DEF Install, DeskInv
  <2>2. PICK fresh : InstallFirst(fresh) \/ InstallAgain(fresh)
    BY <1>6 DEF Install
  <2>3. /\ saved' = [saved EXCEPT !["member"] = saved'["member"]]
        /\ saved'["member"] \in Settings /\ Validate(saved'["member"])
        /\ current' \subseteq Item /\ missing' \subseteq Item
        /\ current' \cap missing' = {}
    BY <2>2, FirstKeeps, AgainKeeps DEF DeskInv
  <2>4. saved' \in [Desk -> Settings] /\ Valid'
    BY <2>3 DEF DeskInv, TypeOK, Valid, Desk
  <2>5. paused' \in BOOLEAN /\ syncError' \in {"", "fetch", "conflict"}
    BY <2>2 DEF InstallFirst, InstallAgain, DeskInv, TypeOK
  <2>6. /\ url' = bundle.url /\ scope' = bundle.scope /\ applied' = bundle.rev
        /\ bundle' = NoBundle /\ UNCHANGED <<used, revision, shared>>
    BY <1>6 DEF Install
  <2>7. 0 \in 0..MaxRevision
    BY DeskAssumption
  <2>8. NoBundle \in [data : Settings, url : Url \cup {None}, scope : SUBSET KeyId,
                      rev : 0..MaxRevision]
    BY <2>7, EmptySettings DEF NoBundle
  <2> QED
    BY <2>1, <2>3, <2>4, <2>5, <2>6, <2>8 DEF DeskInv, TypeOK, PollTyped
<1>7. CASE Pause \/ Resume \/ Address
  BY <1>7 DEF Pause, Resume, Address, DeskInv, TypeOK, Valid
<1>7a. CASE BodyStalls \/ BodyComes
  BY <1>7a DEF BodyStalls, BodyComes, DeskInv, TypeOK, Valid
<1>8. ASSUME NEW p \in Poller,
             \/ PollStarts(p) \/ PollReads(p) \/ FetchFails(p) \/ PollConflicts(p)
             \/ PollUnsaved(p)
      PROVE  DeskInv'
  <2>1. PollTyped'
    BY <1>8 DEF PollStarts, PollReads, FetchFails, PollConflicts, PollUnsaved, DeskInv,
       TypeOK, PollTyped
  <2>2. UNCHANGED <<deskVars, subVars, shareVars, lifeVars>>
    BY <1>8 DEF PollStarts, PollReads, FetchFails, PollConflicts, PollUnsaved
  <2> QED
    BY <2>1, <2>2 DEF DeskInv, TypeOK, PollTyped, Valid
<1>9. ASSUME NEW p \in Poller, FetchOK(p) PROVE DeskInv'
  <2>1. Feed(saved["master"], scope) \in Settings
    BY FeedSettings DEF DeskInv, TypeOK, Desk
  <2> QED
    BY <1>9, <2>1 DEF FetchOK, DeskInv, TypeOK, Valid
<1>10. ASSUME NEW p \in Poller,
              \/ PollCancelled(p) \/ PollStale(p) \/ PollFailed(p) \/ PollNotes(p)
              \/ PollSkips(p) \/ PollUnread(p) \/ PollUnnoted(p)
       PROVE  DeskInv'
  <2> USE DEF PollCancelled, PollStale, PollFailed, PollNotes, PollSkips, PollUnread, PollUnnoted
  <2>1. PollTyped'
    BY <1>10, FinishedTyped DEF DeskInv
  <2>2. syncError' \in {"", "fetch", "conflict"}
    BY <1>10 DEF Noted, DeskInv, TypeOK
  <2>3. UNCHANGED <<deskVars, shareVars, lifeVars, url, scope, current, missing, paused,
                    applied>>
    BY <1>10
  <2> QED
    BY <2>1, <2>2, <2>3 DEF DeskInv, TypeOK, PollTyped, Valid
<1>11. ASSUME NEW p \in Poller, PollApplies(p) PROVE DeskInv'
  <2>1. PollTyped'
    BY <1>11, FinishedTyped DEF PollApplies, DeskInv
  <2>2. /\ saved' = [saved EXCEPT !["member"] = saved'["member"]]
        /\ saved'["member"] \in Settings /\ Validate(saved'["member"])
        /\ current' \subseteq Item /\ missing' \subseteq Item
        /\ current' \cap missing' = {}
    BY <1>11, PollKeeps
  <2>3. saved' \in [Desk -> Settings] /\ Valid'
    BY <2>2 DEF DeskInv, TypeOK, Valid, Desk
  <2>4. /\ applied' = feedRev[p] /\ syncError' = ""
        /\ UNCHANGED <<used, revision, url, scope, paused, shareVars, lifeVars>>
    BY <1>11 DEF PollApplies
  <2> QED
    BY <2>1, <2>2, <2>3, <2>4 DEF DeskInv, TypeOK, PollTyped
<1>12. CASE UNCHANGED vars
  BY <1>12 DEF vars, DeskInv, TypeOK, Valid
<1> HIDE DEF DeskInv
<1> QED
  BY <1>1, <1>2, <1>3, <1>4, <1>5, <1>6, <1>7, <1>7a, <1>8, <1>9, <1>10,
     <1>11, <1>12 DEF Next, Poll, PollUpdates

(***************************************************************************)
(* Every variable of the two desks keeps its type; no item is both current *)
(* and missing (TeamSync, pollTeam, Install).                              *)
(***************************************************************************)
THEOREM TypeCorrect == Spec => []TypeOK
<1>1. DeskInv => TypeOK
  BY DEF DeskInv
<1> QED
  BY <1>1, DeskInit, DeskInductive, PTL DEF Spec

----------------------------------------------------------------------------
(* The order of feeds.                                                     *)

OrderInv ==
    /\ \A p \in Poller : pollPc[p] # "idle" => syncRun = p
    /\ applied <= revision
    /\ bundle.rev <= revision
    /\ \A p \in Poller : pollPc[p] = "apply" => applied <= feedRev[p]
    /\ \A p \in Poller : feedRev[p] <= revision

\* No poll is under way at first.
LEMMA OrderInit == Init => OrderInv
<1> SUFFICES ASSUME Init PROVE OrderInv
  OBVIOUS
<1>1. revision = 0 /\ applied = 0 /\ bundle.rev = 0
  BY DEF Init, NoBundle
<1>2. \A p \in Poller : pollPc[p] = "idle" /\ feedRev[p] = 0
  BY DEF Init
<1> QED
  BY <1>1, <1>2 DEF OrderInv

\* Edits only raise the master's revision.
LEMMA CommitRevision ==
    ASSUME TypeOK, NEW d, NEW new, Commit(d, new)
    PROVE  /\ revision <= revision'
           /\ UNCHANGED <<subVars, shareVars, pollVars, lifeVars>>
<1>1. revision \in 0..MaxRevision
  BY DEF TypeOK
<1> QED
  BY <1>1 DEF Commit

\* Any edit is one commit.
LEMMA EditCommits ==
    ASSUME NEW d \in Desk, Edit(d) \/ (d = "member" /\ ImportBackup)
    PROVE  \E new : Commit(d, new)
<1>1. CASE SaveKey(d)
  BY <1>1 DEF SaveKey
<1>2. CASE SaveHost(d)
  BY <1>2 DEF SaveHost
<1>3. CASE SaveTunnel(d)
  BY <1>3 DEF SaveTunnel
<1>4. CASE SaveTunnelLinks(d)
  BY <1>4 DEF SaveTunnelLinks
<1>5. CASE SaveService(d)
  BY <1>5 DEF SaveService
<1>6. CASE Delete(d)
  BY <1>6 DEF Delete
<1>7. CASE d = "member" /\ ImportBackup
  BY <1>7 DEF ImportBackup
<1> QED
  BY <1>1, <1>2, <1>3, <1>4, <1>5, <1>6, <1>7 DEF Edit

\* Every step keeps the order.
LEMMA OrderInductive ==
    ASSUME TypeOK, OrderInv, [Next]_vars
    PROVE  OrderInv'
<1> USE DEF deskVars, subVars, shareVars, pollVars, lifeVars, PollPlace
<1>0. /\ revision \in Int /\ applied \in Int /\ bundle.rev \in Int
      /\ \A p \in Poller : feedRev[p] \in Int
      /\ pollPc \in [Poller -> PollPlace]
      /\ feedRev \in [Poller -> 0..MaxRevision]
      /\ 0 <= revision
  <2>1. \A n \in 0..MaxRevision : n \in Int /\ 0 <= n
    BY DeskAssumption
  <2>2. revision \in 0..MaxRevision /\ applied \in 0..MaxRevision
        /\ bundle.rev \in 0..MaxRevision
    BY DEF TypeOK
  <2>3. /\ pollPc \in [Poller -> PollPlace]
        /\ feedRev \in [Poller -> 0..MaxRevision]
    BY DEF TypeOK
  <2> QED
    BY <2>1, <2>2, <2>3
<1>1. ASSUME NEW d \in Desk, Edit(d) \/ (d = "member" /\ ImportBackup)
      PROVE  OrderInv'
  <2>1. /\ revision <= revision' /\ revision' \in Int
        /\ UNCHANGED <<subVars, shareVars, pollVars, lifeVars>>
    <3>1. PICK new : Commit(d, new)
      BY <1>1, EditCommits
    <3> QED
      BY <1>0, <3>1, CommitRevision DEF Commit
  <2> QED
    BY <1>0, <2>1 DEF OrderInv
<1>2. CASE Publish \/ Pause \/ Resume \/ Address \/ BodyStalls \/ BodyComes
  BY <1>2 DEF Publish, Pause, Resume, Address, BodyStalls, BodyComes, OrderInv
<1>3. CASE Download
  <2>1. bundle'.rev = revision /\ UNCHANGED <<deskVars, subVars, pollVars>>
    BY <1>3 DEF Download
  <2> QED
    BY <1>0, <2>1 DEF OrderInv
<1>4. CASE Restart
  BY <1>0, <1>4 DEF Restart, Restarted, OrderInv
<1>5. CASE Install
  <2>1. /\ applied' = bundle.rev /\ bundle'.rev = 0 /\ revision' = revision
        /\ pollPc' = [p \in Poller |-> "idle"] /\ feedRev' = [p \in Poller |-> 0]
    BY <1>5 DEF Install, Restarted, NoBundle
  <2> QED
    BY <1>0, <2>1 DEF OrderInv
<1>6. ASSUME NEW p \in Poller, PollStarts(p)
      PROVE  OrderInv'
  <2>1. /\ syncRun = None /\ syncRun' = p /\ pollPc' = [pollPc EXCEPT ![p] = "read"]
        /\ UNCHANGED <<revision, applied, bundle, feedRev>>
    BY <1>6 DEF PollStarts, MayPoll
  <2>2. \A q \in Poller : pollPc[q] = "idle"
    BY <1>0, <2>1, DeskAssumption DEF OrderInv
  <2> QED
    BY <1>0, <2>1, <2>2 DEF OrderInv
<1>7. ASSUME NEW p \in Poller, FetchOK(p)
      PROVE  OrderInv'
  <2>1. /\ pollPc[p] = "fetch" /\ pollPc' = [pollPc EXCEPT ![p] = "apply"]
        /\ feedRev' = [feedRev EXCEPT ![p] = revision]
        /\ UNCHANGED <<revision, applied, bundle, syncRun>>
    BY <1>7 DEF FetchOK
  <2> QED
    BY <1>0, <2>1 DEF OrderInv
<1>8. ASSUME NEW p \in Poller,
             PollReads(p) \/ FetchFails(p) \/ PollConflicts(p) \/ PollUnsaved(p)
      PROVE  OrderInv'
  <2>1. /\ pollPc[p] # "idle"
        /\ \E at \in {"fetch", "failed", "conflict", "unsaved"} :
              pollPc' = [pollPc EXCEPT ![p] = at]
        /\ UNCHANGED <<revision, applied, bundle, syncRun, feedRev>>
    BY <1>8 DEF PollReads, FetchFails, PollConflicts, PollUnsaved
  <2> QED
    BY <1>0, <2>1 DEF OrderInv
<1>9. ASSUME NEW p \in Poller, Finished(p), pollPc[p] # "idle",
             UNCHANGED <<revision, bundle>>, applied' = applied \/ applied' = feedRev[p]
      PROVE  OrderInv'
  <2>1. syncRun = p /\ \A q \in Poller : q # p => pollPc[q] = "idle"
    BY <1>0, <1>9 DEF OrderInv
  <2>2. /\ \A q \in Poller : pollPc'[q] = "idle"
        /\ \A q \in Poller : feedRev'[q] = IF q = p THEN 0 ELSE feedRev[q]
    BY <1>0, <1>9, <2>1 DEF Finished
  <2>3. applied' <= revision'
    BY <1>0, <1>9 DEF OrderInv
  <2> QED
    BY <1>0, <1>9, <2>2, <2>3 DEF OrderInv
<1>10. ASSUME NEW p \in Poller,
              \/ PollCancelled(p) \/ PollStale(p) \/ PollFailed(p) \/ PollNotes(p)
              \/ PollSkips(p) \/ PollUnread(p) \/ PollUnnoted(p) \/ PollApplies(p)
       PROVE  OrderInv'
  <2>1. /\ Finished(p) /\ pollPc[p] # "idle" /\ UNCHANGED <<revision, bundle>>
        /\ applied' = applied \/ applied' = feedRev[p]
    BY <1>10 DEF PollCancelled, PollStale, PollFailed, PollNotes, PollSkips, PollUnread,
       PollUnnoted, PollApplies
  <2> QED
    BY <1>9, <2>1
<1>11. CASE UNCHANGED vars
  BY <1>11 DEF vars, OrderInv
<1>12. "member" \in Desk
  BY DEF Desk
<1> HIDE DEF OrderInv
<1> QED
  BY <1>1, <1>2, <1>3, <1>4, <1>5, <1>6, <1>7, <1>8, <1>10, <1>11, <1>12
  DEF Next, Poll, PollUpdates

\* What holds in every state.
LEMMA Invariance == Spec => [](DeskInv /\ OrderInv)
<1>1. DeskInv => TypeOK
  BY DEF DeskInv
<1> QED
  BY <1>1, DeskInit, DeskInductive, OrderInit, OrderInductive, PTL DEF Spec

(***************************************************************************)
(* A poll never takes the member back to older settings of the master,     *)
(* however many requests poll beside the ticker (pollTeam's syncRun).      *)
(***************************************************************************)
THEOREM NeverBack == Spec => NoRollback
<1>1. ASSUME OrderInv, [Next]_vars
      PROVE  [\A p \in Poller : PollApplies(p) => applied' >= applied]_vars
  <2>1. ASSUME NEW p \in Poller, PollApplies(p)
        PROVE  applied' >= applied
    <3>1. pollPc[p] = "apply" /\ applied' = feedRev[p]
      BY <2>1 DEF PollApplies
    <3> QED
      BY <1>1, <3>1 DEF OrderInv
  <2> QED
    BY <2>1
<1> QED
  BY <1>1, Invariance, PTL DEF Spec, NoRollback

----------------------------------------------------------------------------
(* Personal settings.                                                      *)

(***************************************************************************)
(* Neither a poll nor an installation changes a record that the            *)
(* subscription does not manage, or removes one, and a poll moves no key   *)
(* file (ApplyFeed, syncRecords, merge).                                   *)
(***************************************************************************)
THEOREM PersonalKept == Spec => OwnKept
<1> DEFINE Keeps(p) ==
        (PollApplies(p) \/ Install) =>
            \A i \in Item : saved["member"][i] # None =>
                /\ saved'["member"][i] # None
                /\ i \notin Managed \/ (i \in KeyId /\ PollApplies(p)) =>
                      saved'["member"][i] = saved["member"][i]
<1>1. ASSUME DeskInv, NEW p \in Poller
      PROVE  Keeps(p)
  <2>1. CASE PollApplies(p)
    BY <1>1, <2>1, PollKeeps
  <2>2. CASE Install /\ ~PollApplies(p)
    <3>1. PICK fresh : InstallFirst(fresh) \/ InstallAgain(fresh)
      BY <2>2 DEF Install
    <3>2. \A i \in Item : saved["member"][i] # None =>
              /\ saved'["member"][i] # None
              /\ i \notin Managed => saved'["member"][i] = saved["member"][i]
      BY <1>1, <3>1, FirstKeeps, AgainKeeps DEF DeskInv
    <3> QED
      BY <2>2, <3>2
  <2> QED
    BY <2>1, <2>2
<1>2. ASSUME DeskInv, [Next]_vars
      PROVE  [\A p \in Poller : Keeps(p)]_vars
  BY <1>1, <1>2
<1> QED
  BY <1>2, Invariance, PTL DEF Spec, OwnKept

(***************************************************************************)
(* While a subscription is paused, only the member's edits and             *)
(* installations change its settings or its items: a poll under way is     *)
(* dropped (pollTeam checks again inside its update).                      *)
(***************************************************************************)
THEOREM PauseHolds == Spec => PausedIsFrozen
<1> DEFINE Frozen == paused => \/ /\ saved'["member"] = saved["member"]
                                   /\ UNCHANGED <<current, missing>>
                                \/ Edit("member") \/ ImportBackup \/ Install
<1>1. ASSUME TypeOK, Next, paused
      PROVE  \/ /\ saved'["member"] = saved["member"]
                /\ UNCHANGED <<current, missing>>
             \/ Edit("member") \/ ImportBackup \/ Install
  <2> USE DEF deskVars, subVars, shareVars, pollVars, lifeVars, PollPlace
  <2>1. ASSUME NEW d \in Desk, Edit(d), d # "member"
        PROVE  saved'["member"] = saved["member"] /\ UNCHANGED <<current, missing>>
    <3>1. PICK new : Commit(d, new)
      BY <2>1, EditCommits
    <3>2. "member" \in Desk /\ saved \in [Desk -> Settings]
      BY <1>1 DEF TypeOK, Desk
    <3> QED
      BY <2>1, <3>1, <3>2 DEF Commit
  <2>2. CASE \/ Publish \/ Download \/ Restart \/ Pause \/ Resume \/ Address
             \/ BodyStalls \/ BodyComes
    BY <2>2 DEF Publish, Download, Restart, Pause, Resume, Address, BodyStalls, BodyComes
  <2>3. ASSUME NEW p \in Poller, Poll(p)
        PROVE  saved'["member"] = saved["member"] /\ UNCHANGED <<current, missing>>
    BY <1>1, <2>3 DEF Poll, PollUpdates, PollStarts, PollReads, PollSkips, PollUnread,
       FetchOK, FetchFails, PollCancelled, PollStale, PollFailed, PollApplies, PollConflicts,
       PollUnsaved, PollNotes, PollUnnoted, StillWanted
  <2> QED
    BY <1>1, <2>1, <2>2, <2>3 DEF Next
<1>2. ASSUME DeskInv, [Next]_vars
      PROVE  [Frozen]_vars
  BY <1>1, <1>2 DEF DeskInv
<1> QED
  BY <1>2, Invariance, PTL DEF Spec, PausedIsFrozen

----------------------------------------------------------------------------
(* Conflicts.                                                              *)

(***************************************************************************)
(* Every feed is valid, and as long as a conflict is not noted the member's*)
(* settings are those that met it: ops keeps edits out, a restart forgets  *)
(* the poll.                                                               *)
(***************************************************************************)
ConflictInv ==
    /\ \A p \in Poller : Validate(feed[p])
    /\ \A p \in Poller : pollPc[p] = "conflict" => ~CanApply(saved["member"], Managed, feed[p])

\* No poll is under way at first.
LEMMA ConflictInit == Init => ConflictInv
<1> SUFFICES ASSUME Init PROVE ConflictInv
  OBVIOUS
<1>1. \A p \in Poller : pollPc[p] = "idle" /\ feed[p] = Empty
  BY DEF Init
<1> QED
  BY <1>1, EmptyValid DEF ConflictInv

\* Edits leave the member's settings alone while a conflict is not noted.
LEMMA CommitConflict ==
    ASSUME TypeOK, ConflictInv, NEW d \in Desk, NEW new, Commit(d, new)
    PROVE  ConflictInv'
<1>1. /\ OpsFree(d) /\ saved' = [saved EXCEPT ![d] = new]
      /\ UNCHANGED <<current, missing, pollPc, feed>>
  BY DEF Commit, subVars, pollVars
<1>2. Managed' = Managed
  BY <1>1 DEF Managed
<1>3. CASE d = "member"
  BY <1>1, <1>3 DEF ConflictInv, OpsFree
<1>4. CASE d # "member"
  <2>1. saved'["member"] = saved["member"]
    BY <1>1, <1>4 DEF TypeOK, Desk
  <2> QED
    BY <1>1, <1>2, <2>1 DEF ConflictInv
<1> QED
  BY <1>3, <1>4

\* A poll that ends leaves the others to their conflicts, if it changed nothing.
LEMMA FinishedConflict ==
    ASSUME TypeOK, ConflictInv, NEW p \in Poller, Finished(p),
           \/ UNCHANGED <<saved, current, missing>>
           \/ \A q \in Poller : pollPc[q] # "conflict"
    PROVE  ConflictInv'
<1>1. /\ \A q \in Poller : feed'[q] = IF q = p THEN Empty ELSE feed[q]
      /\ \A q \in Poller : pollPc'[q] = IF q = p THEN "idle" ELSE pollPc[q]
  BY DEF Finished, TypeOK
<1>2. \A q \in Poller : Validate(feed'[q])
  BY <1>1, EmptyValid DEF ConflictInv
<1>3. CASE \A q \in Poller : pollPc[q] # "conflict"
  BY <1>1, <1>2, <1>3 DEF ConflictInv
<1>4. CASE UNCHANGED <<saved, current, missing>>
  <2>1. Managed' = Managed
    BY <1>4 DEF Managed
  <2> QED
    BY <1>1, <1>2, <1>4, <2>1 DEF ConflictInv
<1> QED
  BY <1>3, <1>4

\* Every step keeps it.
LEMMA ConflictInductive ==
    ASSUME TypeOK, ConflictInv, [Next]_vars
    PROVE  ConflictInv'
<1> USE DEF deskVars, subVars, shareVars, pollVars, lifeVars, PollPlace
<1>0. /\ pollPc \in [Poller -> PollPlace]
      /\ feed \in [Poller -> Settings]
      /\ saved["master"] \in Settings /\ scope \in SUBSET KeyId
  BY DEF TypeOK, Desk
<1>1. ASSUME NEW d \in Desk, Edit(d) \/ (d = "member" /\ ImportBackup)
      PROVE  ConflictInv'
  BY <1>1, EditCommits, CommitConflict
<1>2. ASSUME UNCHANGED <<saved, current, missing, pollPc, feed>>
      PROVE  ConflictInv'
  <2>1. Managed' = Managed
    BY <1>2 DEF Managed
  <2> QED
    BY <1>2, <2>1 DEF ConflictInv
<1>3. CASE Publish \/ Pause \/ Resume \/ Address \/ Download \/ BodyStalls \/ BodyComes
  BY <1>2, <1>3 DEF Publish, Pause, Resume, Address, Download, BodyStalls, BodyComes
<1>4. CASE Restart \/ Install
  <2>1. \A p \in Poller : pollPc'[p] = "idle" /\ feed'[p] = Empty
    BY <1>4 DEF Restart, Install, Restarted
  <2> QED
    BY <2>1, EmptyValid DEF ConflictInv
<1>5. ASSUME NEW p \in Poller,
             \/ PollStarts(p) \/ PollReads(p) \/ FetchFails(p) \/ PollConflicts(p)
             \/ PollUnsaved(p)
      PROVE  ConflictInv'
  <2>1. UNCHANGED <<saved, current, missing, feed>>
    BY <1>5 DEF PollStarts, PollReads, FetchFails, PollConflicts, PollUnsaved
  <2>2. Managed' = Managed
    BY <2>1 DEF Managed
  <2>3. \A q \in Poller : pollPc'[q] = "conflict" => ~CanApply(saved["member"], Managed, feed[q])
    <3>1. CASE PollConflicts(p)
      BY <1>0, <3>1 DEF PollConflicts, ConflictInv
    <3>2. CASE PollStarts(p) \/ PollReads(p) \/ FetchFails(p) \/ PollUnsaved(p)
      BY <1>0, <3>2 DEF PollStarts, PollReads, FetchFails, PollUnsaved, ConflictInv
    <3> QED
      BY <1>5, <3>1, <3>2
  <2> QED
    BY <2>1, <2>2, <2>3 DEF ConflictInv
<1>6. ASSUME NEW p \in Poller, FetchOK(p)
      PROVE  ConflictInv'
  <2>1. /\ UNCHANGED <<saved, current, missing>>
        /\ pollPc' = [pollPc EXCEPT ![p] = "apply"]
        /\ feed' = [feed EXCEPT ![p] = Feed(saved["master"], scope)]
        /\ FeedOK(saved["master"], scope)
    BY <1>6 DEF FetchOK
  <2>2. Managed' = Managed
    BY <2>1 DEF Managed
  <2>3. Validate(Feed(saved["master"], scope))
    BY <1>0, <2>1, FeedValid
  <2>4. \A q \in Poller : IF q = p THEN feed'[q] = Feed(saved["master"], scope) /\ pollPc'[q] = "apply"
                                   ELSE feed'[q] = feed[q] /\ pollPc'[q] = pollPc[q]
    BY <1>0, <2>1
  <2> QED
    BY <2>1, <2>2, <2>3, <2>4 DEF ConflictInv
<1>7. ASSUME NEW p \in Poller,
             \/ PollCancelled(p) \/ PollStale(p) \/ PollFailed(p) \/ PollNotes(p)
             \/ PollSkips(p) \/ PollUnread(p) \/ PollUnnoted(p) \/ PollApplies(p)
      PROVE  ConflictInv'
  <2>1. Finished(p)
    BY <1>7 DEF PollCancelled, PollStale, PollFailed, PollNotes, PollSkips, PollUnread,
       PollUnnoted, PollApplies
  <2>2. \/ UNCHANGED <<saved, current, missing>>
        \/ \A q \in Poller : pollPc[q] # "conflict"
    BY <1>7 DEF PollCancelled, PollStale, PollFailed, PollNotes, PollSkips, PollUnread,
       PollUnnoted, PollApplies, OpsFree
  <2> QED
    BY <2>1, <2>2, FinishedConflict
<1>8. CASE UNCHANGED vars
  BY <1>2, <1>8 DEF vars
<1>9. "member" \in Desk
  BY DEF Desk
<1> HIDE DEF ConflictInv
<1> QED
  BY <1>1, <1>3, <1>4, <1>5, <1>6, <1>7, <1>8, <1>9
  DEF Next, Poll, PollUpdates

(***************************************************************************)
(* A poll meets a conflict only for the reasons that ConflictCause lists:  *)
(* what the master removed, or what only the master has, is none           *)
(* (ApplyFeed, syncRecords, model.Validate).                               *)
(***************************************************************************)
THEOREM ConflictsExplained == Spec => []ConflictsHaveCause
<1>1. DeskInv /\ ConflictInv => ConflictsHaveCause
  <2> SUFFICES ASSUME DeskInv, ConflictInv, NEW p \in Poller, pollPc[p] = "conflict"
               PROVE  ConflictCause(saved["member"], feed[p])
    BY DEF ConflictsHaveCause
  <2> DEFINE l == saved["member"]
             f == feed[p]
  <2>1. l \in Settings /\ f \in Settings /\ Validate(l) /\ Validate(f)
    BY DEF DeskInv, TypeOK, Valid, Desk, ConflictInv
  <2>2. ~CanApply(l, Managed, f)
    BY DEF ConflictInv
  <2> HIDE DEF l, f
  <2> SUFFICES ASSUME ~ConflictCause(l, f)
               PROVE  FALSE
    BY DEF l, f
  <2>3. KeysKnown(l, Managed, f)
    BY DEF ConflictCause, KeysKnown
  <2>4. NoClash(l, Managed, f)
    BY DEF ConflictCause, NoClash
  <2>5. \A g, h \in HostId :
           f[g] # None /\ f[h] = None /\ l[h] # None => f[g].name # l[h].name
    BY DEF ConflictCause
  <2>6. \A v \in ServiceId \ Managed : \A t \in TunnelId :
           l[v] # None /\ l[v].tunnel = t /\ f[t] # None => f[t].port = l[t].port
    BY DEF ConflictCause
  <2>7. \A h \in HostId : l[h] # None => ChainOK(Overlay(l, WithLocalKeys(l, f)), h)
    BY DEF ConflictCause
  <2> QED
    BY <2>1, <2>2, <2>3, <2>4, <2>5, <2>6, <2>7, AppliesUnless
<1>2. DeskInv => TypeOK
  BY DEF DeskInv
<1> QED
  BY <1>1, <1>2, Invariance, ConflictInit, ConflictInductive, PTL DEF Spec
=============================================================================
