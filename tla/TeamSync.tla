------------------------------ MODULE TeamSync ------------------------------
(***************************************************************************)
(* Team sharing between two desks: the master shares the settings of some  *)
(* keys, the member installs a download and then polls the master's feed   *)
(* (src/internal/web/team_sync.go, src/internal/provision).  Both users go *)
(* on editing.                                                             *)
(*                                                                         *)
(* Store.Update is one transaction under Store.mu, so each of its calls is *)
(* one action.  A poll is several: it takes syncRun, then a snapshot, asks *)
(* the master, and only then takes ops and updates; a failed update is     *)
(* noted by a second one, still under ops.  Each of these calls of the     *)
(* store can fail.  The handlers of the subscription (pause, resume,       *)
(* address) do not take ops.  A handler that does reads the body of its    *)
(* request under it, for as long as the browser takes to send it.          *)
(***************************************************************************)
EXTENDS DeskState

CONSTANTS
    InitMaster, InitMember,  \* the settings of the desks at first
    Editors,      \* desks whose users edit settings
    Home,         \* the master's address
    Url,          \* the addresses the member may enter
    Poller,       \* goroutines that poll: the ticker's, and refresh requests
    Ticker,       \* the poller that comes back every 30 seconds
    MayStall,     \* whether browsers may stall in the middle of a request
    MaxRevision,  \* bound on the master's edits
    MaxRestarts   \* bound on the restarts of the member's program

Desk == {"master", "member"}

ASSUME DeskAssumption ==
    /\ InitMaster \in Settings /\ InitMember \in Settings
    /\ Validate(InitMaster) /\ Validate(InitMember)
    /\ Present(InitMaster) \cap Present(InitMember) = {}
    /\ Editors \subseteq Desk
    /\ Home \in Url /\ None \notin Url
    /\ Ticker \in Poller /\ None \notin Poller
    /\ MayStall \in BOOLEAN /\ MaxRevision \in Nat /\ MaxRestarts \in Nat

VARIABLES
    saved,      \* the settings in each desk's database
    used,       \* record ids that database.ID() has given out
    revision,   \* how often the master's settings changed
    shared,     \* the keys the master has published last
    url,        \* Source.URL of the member's subscription; None: there is none
    scope,      \* the keys its Source.Feed stands for
    current,    \* the items its Items call current
    missing,    \* the items its Items call missing
    paused,     \* its Paused
    syncError,  \* its Error: "", "fetch" or "conflict"
    applied,    \* the master's revision that was applied last
    bundle,     \* an installer the member has downloaded and not yet run
    syncRun,    \* who holds Server.syncRun
    pollPc,     \* where a poll is
    pollUrl,    \* the address in its snapshot
    feed,       \* the feed it got
    feedRev,    \* the master's revision of that feed
    stalled,    \* a request to the member holds ops and its body is awaited
    restarts

deskVars == <<saved, used, revision>>
subVars == <<url, scope, current, missing, paused, syncError, applied>>
pollVars == <<syncRun, pollPc, pollUrl, feed, feedRev>>
shareVars == <<shared, bundle>>
lifeVars == <<stalled, restarts>>
vars == <<deskVars, subVars, shareVars, pollVars, lifeVars>>

NoBundle == [data |-> Empty, url |-> None, scope |-> {}, rev |-> 0]

TypeOK ==
    /\ saved \in [Desk -> Settings]
    /\ used \subseteq Item
    /\ revision \in 0..MaxRevision
    /\ url \in Url \cup {None}
    /\ shared \subseteq KeyId
    /\ scope \subseteq KeyId
    /\ current \subseteq Item
    /\ missing \subseteq Item
    /\ current \cap missing = {}
    /\ paused \in BOOLEAN
    /\ syncError \in {"", "fetch", "conflict"}
    /\ applied \in 0..MaxRevision
    /\ bundle \in [data : Settings, url : Url \cup {None}, scope : SUBSET KeyId,
                  rev : 0..MaxRevision]
    /\ syncRun \in Poller \cup {None}
    /\ pollPc \in [Poller -> {"idle", "read", "fetch", "failed", "apply", "conflict", "unsaved"}]
    /\ pollUrl \in [Poller -> Url \cup {None}]
    /\ feed \in [Poller -> Settings]
    /\ feedRev \in [Poller -> 0..MaxRevision]
    /\ stalled \in BOOLEAN
    /\ restarts \in 0..MaxRestarts

Init ==
    /\ saved = [d \in Desk |-> IF d = "master" THEN InitMaster ELSE InitMember]
    /\ used = Present(InitMaster) \cup Present(InitMember)
    /\ revision = 0
    /\ shared = {}
    /\ url = None
    /\ scope = {}
    /\ current = {}
    /\ missing = {}
    /\ paused = FALSE
    /\ syncError = ""
    /\ applied = 0
    /\ bundle = NoBundle
    /\ syncRun = None
    /\ pollPc = [p \in Poller |-> "idle"]
    /\ pollUrl = [p \in Poller |-> None]
    /\ feed = [p \in Poller |-> Empty]
    /\ feedRev = [p \in Poller |-> 0]
    /\ stalled = FALSE
    /\ restarts = 0

Subscribed == url # None
Managed == current \cup missing

----------------------------------------------------------------------------
(* The users edit their settings (handlers save, delete, importBackup).    *)

\* The member's ops lock is held while a body is awaited, and between the two
\* updates of a poll.
OpsFree(d) ==
    d = "member" => ~stalled /\ \A p \in Poller : pollPc[p] \notin {"conflict", "unsaved"}

\* A handler has taken ops and its browser does not go on sending.
BodyStalls ==
    /\ MayStall
    /\ OpsFree("member")
    /\ stalled' = TRUE
    /\ UNCHANGED <<deskVars, subVars, shareVars, pollVars, restarts>>

\* The body is there after all, or the connection is lost; edits follow.
BodyComes ==
    /\ stalled
    /\ stalled' = FALSE
    /\ UNCHANGED <<deskVars, subVars, shareVars, pollVars, restarts>>

\* Store.Update commits the new settings of a desk if they are valid.
Commit(d, new) ==
    /\ d \in Editors
    /\ OpsFree(d)
    /\ Validate(new)
    /\ new # saved[d]
    /\ saved' = [saved EXCEPT ![d] = new]
    /\ IF d = "master"
         THEN revision < MaxRevision /\ revision' = revision + 1
         ELSE UNCHANGED revision
    /\ UNCHANGED <<subVars, shareVars, pollVars, lifeVars>>

\* A record of the desk, or the id of a new one.
Known(d, i) == saved[d][i] # None \/ i \notin used

SaveKey(d) ==
    \E k \in KeyId :
        /\ Known(d, k)
        /\ Commit(d, Put(saved[d], k, [path |-> "file"]))
        /\ used' = used \cup {k}

SaveHost(d) ==
    \E h \in HostId, v \in HostRec :
        /\ Known(d, h)
        /\ Commit(d, Put(saved[d], h, v))
        /\ used' = used \cup {h}

\* A tunnel, without the web links that the form sends.  A tunnel that runs is
\* refused; here every tunnel may be one that does not.
SaveTunnel(d) ==
    \E t \in TunnelId, v \in TunnelRec :
        /\ Known(d, t)
        /\ Commit(d, Put(saved[d], t, v))
        /\ used' = used \cup {t}

\* A tunnel with its web links: its old ones and new ones.
SaveTunnelLinks(d) ==
    \E t \in TunnelId, v \in TunnelRec, links \in SUBSET ServiceId :
        /\ Known(d, t)
        /\ \A i \in links : \/ i \notin used
                            \/ saved[d][i] # None /\ saved[d][i].tunnel = t
        /\ Commit(d, PutTunnel(saved[d], t, v, links))
        /\ used' = used \cup {t} \cup links

\* A service of a tunnel that exists, or of one made with it.
SaveService(d) ==
    \E i \in ServiceId, v \in ServiceRec :
        /\ Known(d, i)
        /\ \/ /\ Commit(d, Put(saved[d], i, v))
              /\ used' = used \cup {i}
           \/ \E h \in HostId :
                 /\ v.tunnel \notin used
                 /\ Commit(d, Put(Put(saved[d], i, v), v.tunnel,
                                  [host |-> h, port |-> v.port]))
                 /\ used' = used \cup {i, v.tunnel}

Delete(d) ==
    \E i \in Present(saved[d]) :
        /\ Commit(d, Remove(saved[d], i))
        /\ UNCHANGED used

\* The member imports a backup file that the master has exported just now.
ImportBackup ==
    /\ CanMerge(saved["member"], saved["master"])
    /\ Commit("member", Overlay(saved["member"], saved["master"]))
    /\ UNCHANGED used

Edit(d) == \/ SaveKey(d) \/ SaveHost(d) \/ SaveTunnel(d) \/ SaveTunnelLinks(d)
           \/ SaveService(d) \/ Delete(d)

----------------------------------------------------------------------------
(* Download and installation.                                              *)

\* sharingAction publishes a choice of keys, which gets a feed of its own.
Publish ==
    \E ids \in SUBSET KeyId :
        /\ CanSelect(saved["master"], ids)
        /\ shared' = ids
        /\ UNCHANGED <<bundle, deskVars, subVars, pollVars, lifeVars>>

\* downloadPayload: the published keys that still exist, with what they share
\* now, and the address of the download as the source.
Download ==
    /\ CanRefresh(saved["master"], shared)
    /\ bundle.url = None
    /\ bundle' = [data |-> Refreshed(saved["master"], shared), url |-> Home,
                  scope |-> shared, rev |-> revision]
    /\ UNCHANGED <<shared, deskVars, subVars, pollVars, lifeVars>>

\* The program exits, or crashes, and starts again: polls are forgotten.
Restarted ==
    /\ restarts < MaxRestarts
    /\ restarts' = restarts + 1
    /\ stalled' = FALSE
    /\ syncRun' = None
    /\ pollPc' = [p \in Poller |-> "idle"]
    /\ pollUrl' = [p \in Poller |-> None]
    /\ feed' = [p \in Poller |-> Empty]
    /\ feedRev' = [p \in Poller |-> 0]

Restart ==
    /\ Restarted
    /\ UNCHANGED <<deskVars, subVars, shareVars>>

\* The records of the installer, its keys at their local paths: a key whose
\* file here has the same content keeps it, any other gets a new file.
Unpacked(fresh) ==
    [i \in Item |-> IF i \in KeyId /\ bundle.data[i] # None
                      THEN IF i \in fresh THEN [path |-> "bundle"] ELSE saved["member"][i]
                      ELSE bundle.data[i]]

\* The first installation merges the records and registers the source.
InstallFirst(fresh) ==
    LET incoming == Unpacked(fresh) IN
    /\ ~Subscribed
    /\ CanMerge(saved["member"], incoming)
    /\ saved' = [saved EXCEPT !["member"] = Overlay(@, incoming)]
    /\ current' = Present(incoming)
    /\ missing' = {}
    /\ UNCHANGED <<paused, syncError>>

\* A later one of the same master brings its new keys, then applies its state.
InstallAgain(fresh) ==
    LET incoming == Unpacked(fresh)
        keys == KeyId \cap Present(incoming)
        managed == Managed \cup keys
        local == [i \in Item |-> IF i \in keys THEN incoming[i] ELSE saved["member"][i]]
    IN
    /\ Subscribed
    /\ \A k \in keys : saved["member"][k] # None => k \in Managed
    /\ CanApply(local, managed, incoming)
    /\ saved' = [saved EXCEPT !["member"] = Applied(local, managed, incoming)]
    /\ current' = Present(incoming)
    /\ missing' = Gone(managed, incoming)
    /\ syncError' = ""
    /\ UNCHANGED paused

\* The member runs the installer, once: a marker file keeps it from a second
\* installation.  An installer that meets a conflict changes nothing.
Install ==
    /\ Restarted
    /\ bundle.url # None
    /\ \E fresh \in SUBSET {k \in KeyId : bundle.data[k] # None} :
          /\ \A k \in KeyId : bundle.data[k] # None /\ saved["member"][k] = None => k \in fresh
          /\ InstallFirst(fresh) \/ InstallAgain(fresh)
    /\ url' = bundle.url
    /\ scope' = bundle.scope
    /\ applied' = bundle.rev
    /\ bundle' = NoBundle
    /\ UNCHANGED <<used, revision, shared>>

----------------------------------------------------------------------------
(* pollTeam.                                                               *)

\* Mutant: polls do not exclude each other.
MayPollAnytime == TRUE

\* syncRun can be locked.
MayPoll == syncRun = None

\* The poll locks syncRun.
PollStarts(p) ==
    /\ pollPc[p] = "idle"
    /\ MayPoll
    /\ syncRun' = p
    /\ pollPc' = [pollPc EXCEPT ![p] = "read"]
    /\ UNCHANGED <<pollUrl, feed, feedRev, deskVars, subVars, shareVars, lifeVars>>

\* The poll is over and forgets what it read.
Finished(p) ==
    /\ syncRun' = IF syncRun = p THEN None ELSE syncRun
    /\ pollPc' = [pollPc EXCEPT ![p] = "idle"]
    /\ pollUrl' = [pollUrl EXCEPT ![p] = None]
    /\ feed' = [feed EXCEPT ![p] = Empty]
    /\ feedRev' = [feedRev EXCEPT ![p] = 0]

\* It reads the subscription.
PollReads(p) ==
    /\ pollPc[p] = "read"
    /\ Subscribed /\ ~paused
    /\ pollUrl' = [pollUrl EXCEPT ![p] = url]
    /\ pollPc' = [pollPc EXCEPT ![p] = "fetch"]
    /\ UNCHANGED <<syncRun, feed, feedRev, deskVars, subVars, shareVars, lifeVars>>

\* There is none, or it is paused.
PollSkips(p) ==
    /\ pollPc[p] = "read"
    /\ ~Subscribed \/ paused
    /\ Finished(p)
    /\ UNCHANGED <<deskVars, subVars, shareVars, lifeVars>>

\* The database cannot be read, and the poll returns without a word.
PollUnread(p) ==
    /\ pollPc[p] = "read"
    /\ Finished(p)
    /\ UNCHANGED <<deskVars, subVars, shareVars, lifeVars>>

\* The master signs a feed and the answer arrives.
FetchOK(p) ==
    /\ pollPc[p] = "fetch"
    /\ pollUrl[p] = Home
    /\ FeedOK(saved["master"], scope)
    /\ feed' = [feed EXCEPT ![p] = Feed(saved["master"], scope)]
    /\ feedRev' = [feedRev EXCEPT ![p] = revision]
    /\ pollPc' = [pollPc EXCEPT ![p] = "apply"]
    /\ UNCHANGED <<syncRun, pollUrl, deskVars, subVars, shareVars, lifeVars>>

\* Nobody answers, or not with a feed of this master.
FetchFails(p) ==
    /\ pollPc[p] = "fetch"
    /\ pollPc' = [pollPc EXCEPT ![p] = "failed"]
    /\ UNCHANGED <<syncRun, pollUrl, feed, feedRev, deskVars, subVars, shareVars, lifeVars>>

\* The refresh request that asked for the poll is gone.  The ticker's polls are
\* only cancelled when the program shuts down.
PollCancelled(p) ==
    /\ p # Ticker
    /\ pollPc[p] \in {"fetch", "failed", "apply"}
    /\ Finished(p)
    /\ UNCHANGED <<deskVars, subVars, shareVars, lifeVars>>

\* Mutant: what was read before the fetch is still taken to hold.
StillWantedUnchecked(p) == TRUE

\* The subscription is not paused and has the address that was asked.
StillWanted(p) == ~paused /\ url = pollUrl[p]

\* The user has paused or readdressed the subscription meanwhile.
PollStale(p) ==
    /\ pollPc[p] \in {"failed", "apply"}
    /\ ~StillWanted(p)
    /\ OpsFree("member")
    /\ Finished(p)
    /\ UNCHANGED <<deskVars, subVars, shareVars, lifeVars>>

\* Mutant: a failed fetch is not noted.
NotedNever(e) == e

\* The error that is noted of a failed fetch.
Noted(e) == "fetch"

\* The update only notes that the fetch failed.
PollFailed(p) ==
    /\ pollPc[p] = "failed"
    /\ StillWanted(p)
    /\ OpsFree("member")
    /\ syncError' = Noted(syncError)
    /\ Finished(p)
    /\ UNCHANGED <<url, scope, current, missing, paused, applied, deskVars, shareVars,
                   lifeVars>>

\* The update applies the feed.
PollApplies(p) ==
    /\ pollPc[p] = "apply"
    /\ StillWanted(p)
    /\ OpsFree("member")
    /\ CanApply(saved["member"], Managed, feed[p])
    /\ saved' = [saved EXCEPT !["member"] = Applied(@, Managed, feed[p])]
    /\ current' = Present(feed[p])
    /\ missing' = Gone(Managed, feed[p])
    /\ syncError' = ""
    /\ applied' = feedRev[p]
    /\ Finished(p)
    /\ UNCHANGED <<used, revision, url, scope, paused, shareVars, lifeVars>>

\* The update meets a conflict and commits nothing.
PollConflicts(p) ==
    /\ pollPc[p] = "apply"
    /\ StillWanted(p)
    /\ OpsFree("member")
    /\ ~CanApply(saved["member"], Managed, feed[p])
    /\ pollPc' = [pollPc EXCEPT ![p] = "conflict"]
    /\ UNCHANGED <<syncRun, pollUrl, feed, feedRev, deskVars, subVars, shareVars, lifeVars>>

\* The database cannot be written, whatever the update was about.
PollUnsaved(p) ==
    /\ pollPc[p] \in {"failed", "apply"}
    /\ OpsFree("member")
    /\ pollPc' = [pollPc EXCEPT ![p] = "unsaved"]
    /\ UNCHANGED <<syncRun, pollUrl, feed, feedRev, deskVars, subVars, shareVars, lifeVars>>

\* The second update notes the failure, as a conflict also if it was none, on a
\* subscription that may have been paused or readdressed in between.
PollNotes(p) ==
    /\ pollPc[p] \in {"conflict", "unsaved"}
    /\ syncError' = "conflict"
    /\ Finished(p)
    /\ UNCHANGED <<url, scope, current, missing, paused, applied, deskVars, shareVars,
                   lifeVars>>

\* The second update fails, and its error is discarded.
PollUnnoted(p) ==
    /\ pollPc[p] \in {"conflict", "unsaved"}
    /\ Finished(p)
    /\ UNCHANGED <<deskVars, subVars, shareVars, lifeVars>>

----------------------------------------------------------------------------
(* teamAction.                                                             *)

Pause ==
    /\ Subscribed
    /\ paused' = TRUE
    /\ UNCHANGED <<url, scope, current, missing, syncError, applied, deskVars, shareVars,
                   pollVars, lifeVars>>

Resume ==
    /\ Subscribed
    /\ paused' = FALSE
    /\ UNCHANGED <<url, scope, current, missing, syncError, applied, deskVars, shareVars,
                   pollVars, lifeVars>>

Address ==
    /\ Subscribed
    /\ url' \in Url
    /\ UNCHANGED <<paused, scope, current, missing, syncError, applied, deskVars, shareVars,
                   pollVars, lifeVars>>

----------------------------------------------------------------------------

\* What the poll does with its answer, once it has ops.
PollUpdates(p) ==
    \/ PollStale(p) \/ PollFailed(p) \/ PollApplies(p) \/ PollConflicts(p) \/ PollUnsaved(p)

Poll(p) == \/ PollStarts(p) \/ PollReads(p) \/ PollSkips(p) \/ PollUnread(p)
           \/ FetchOK(p) \/ FetchFails(p) \/ PollCancelled(p)
           \/ PollUpdates(p) \/ PollNotes(p) \/ PollUnnoted(p)

Next ==
    \/ \E d \in Desk : Edit(d)
    \/ ImportBackup
    \/ BodyStalls \/ BodyComes
    \/ Publish \/ Download \/ Restart \/ Install
    \/ Pause \/ Resume \/ Address
    \/ \E p \in Poller : Poll(p)

Spec == Init /\ [][Next]_vars

(***************************************************************************)
(* A poll goes on once it has started: FetchFeed has a timeout.  The       *)
(* ticker comes back every 30 seconds.  Whoever waits for a lock gets it   *)
(* if it is free again and again, since Go's mutexes do not starve; nobody *)
(* owes it that ops is free.                                               *)
(***************************************************************************)
Fairness ==
    /\ SF_vars(PollStarts(Ticker))
    /\ \A p \in Poller :
          /\ WF_vars(PollReads(p) \/ PollSkips(p) \/ PollUnread(p))
          /\ WF_vars(FetchOK(p) \/ FetchFails(p))
          /\ SF_vars(PollUpdates(p))
          /\ WF_vars(PollNotes(p) \/ PollUnnoted(p))

FairSpec == Spec /\ Fairness

\* The master is on, shares, and answers some of the ticker's requests.
MasterAnswers == SF_vars(FetchOK(Ticker))

AnsweredSpec == FairSpec /\ MasterAnswers

----------------------------------------------------------------------------
(* Properties.                                                             *)

(***************************************************************************)
(* "개인이 만든 설정은 유지합니다" (personal settings are kept): neither a *)
(* poll nor an installation changes a record the subscription does not     *)
(* manage, removes any record, or moves the file of a key that a poll      *)
(* mentions (ApplyFeed, syncRecords, merge).                               *)
(***************************************************************************)
OwnKept ==
    [][\A p \in Poller : (PollApplies(p) \/ Install) =>
        \A i \in Item : saved["member"][i] # None =>
            /\ saved'["member"][i] # None
            /\ i \notin Managed \/ (i \in KeyId /\ PollApplies(p)) =>
                  saved'["member"][i] = saved["member"][i]]_vars

(***************************************************************************)
(* While a subscription is paused, only the member's own edits and         *)
(* installations change its settings: not even a poll that had fetched its *)
(* data before the pause does (pollTeam looks again inside its update).    *)
(***************************************************************************)
PausedIsFrozen ==
    [][paused => \/ /\ saved'["member"] = saved["member"]
                    /\ UNCHANGED <<current, missing>>
                 \/ Edit("member") \/ ImportBackup \/ Install]_vars

(***************************************************************************)
(* The member never goes back to older settings of the master by a poll:   *)
(* syncRun keeps the ticker and a refresh from applying their feeds in the *)
(* wrong order.                                                            *)
(***************************************************************************)
NoRollback ==
    [][\A p \in Poller : PollApplies(p) => applied' >= applied]_vars

(***************************************************************************)
(* A poll meets a conflict only for one of these reasons: a key that the   *)
(* subscription did not bring, a personal record with the id of an         *)
(* incoming one, a host that stays here with the name of an incoming one,  *)
(* a personal web link on a tunnel whose port changes, or a route that     *)
(* grows too long.  Records the master has removed are no reason unless    *)
(* by their names: their web links follow the port (ApplyFeed).            *)
(***************************************************************************)
ConflictCause(l, f) ==
    \/ \E k \in KeyId : f[k] # None /\ (l[k] = None \/ k \notin Managed)
    \/ \E i \in Item : f[i] # None /\ l[i] # None /\ i \notin Managed
    \/ \E g, h \in HostId :
          f[g] # None /\ f[h] = None /\ l[h] # None /\ f[g].name = l[h].name
    \/ \E v \in ServiceId \ Managed : \E t \in TunnelId :
          l[v] # None /\ l[v].tunnel = t /\ f[t] # None /\ f[t].port # l[t].port
    \/ \E h \in HostId : l[h] # None /\ ~ChainOK(Overlay(l, WithLocalKeys(l, f)), h)

ConflictsHaveCause ==
    \A p \in Poller : pollPc[p] = "conflict" => ConflictCause(saved["member"], feed[p])

\* What the master shares now is what the member has and calls current.
InSync ==
    LET f == Feed(saved["master"], scope)
        m == saved["member"] IN
    FeedOK(saved["master"], scope) =>
        /\ current = Present(f)
        /\ \A i \in current : IF i \in KeyId THEN m[i] # None ELSE m[i] = f[i]

\* The database fails in a way that leaves no trace of the poll.
Unseen == \E p \in Poller : PollUnread(p) \/ PollUnnoted(p)

\* The user changes the address for ever, or a browser keeps ops for ever.
Hindered == []<><<Address>>_url \/ <>[]stalled

(***************************************************************************)
(* A subscription that is not paused is in step with the master, or its    *)
(* Error says why it is not: no failure of a poll goes unnoted (pollTeam). *)
(* What it takes to break this: the user changes the address for ever, a   *)
(* request that has ops is never sent to its end (server.go:182-190), or   *)
(* the database fails again and again where the error is discarded         *)
(* (team_sync.go:35 and 61).  One that only fails the first update is      *)
(* noted.                                                                  *)
(***************************************************************************)
SyncOrError ==
    \/ Hindered \/ []<><<Unseen>>_vars
    \/ []<>(~Subscribed \/ paused \/ syncError # "" \/ InSync)

(***************************************************************************)
(* "원본 PC의 추가·수정 사항도 30초마다 반영됩니다" (README.md:161: what   *)
(* the master adds and changes arrives within 30 seconds): while the       *)
(* master answers, the database works and the member does not edit, the    *)
(* member gets in step.                                                    *)
(***************************************************************************)
ChangesArrive ==
    \/ Hindered \/ []<><<Unseen \/ \E p \in Poller : PollUnsaved(p)>>_vars
    \/ []<>(~Subscribed \/ paused \/ url # Home \/ InSync)
=============================================================================
