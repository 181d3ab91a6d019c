# Gatedock (SSHDesk) in TLA+

Gatedock is a desktop program that keeps SSH keys, hosts, local port forwards ("tunnels") and
web links ("services") in a small database, runs the tunnels, and shares a selection of its
settings with the desks of a team over the local network.  This directory models the parts of
it where orders of events decide whether it is right: the goroutines of the tunnel manager, the
requests that edit, start and open tunnels beside each other, the synchronisation of two desks
whose users keep editing, the files that are written beside the database, the sharing server, the
terminals with the SSH connections under them, and the import of an SSH config.

Files in this directory:

| module | models | used by |
|---|---|---|
| `TunnelManager` | `src/internal/tunnel/manager.go`, goroutine by goroutine | `MCTunnel`, `TunnelManagerProofs` |
| `TunnelLifecycle` | what the manager promises about the status of a tunnel id | refined by `TunnelManager` |
| `TunnelManagerProofs` | TLAPS proofs of every safety property of `TunnelManager` and of the refinement | |
| `DeskState` | settings as a value: validation, selection, `ApplyFeed`, the merges (pure operators) | `Desk`, `TeamSync` |
| `DeskStateProofs` | TLAPS lemmas about these operators, routes included | `DeskProofs`, `TeamSyncProofs`, `ImportProofs` |
| `Desk` | the handlers under `Server.ops`, composed with the store and `TunnelLifecycle` | `MCDesk`, `DeskProofs` |
| `DeskProofs` | TLAPS proofs of every safety property of `Desk` | |
| `TeamSync` | two desks: edits, download, installation, polling, pause and address | `MCTeamSync`, `TeamSyncProofs` |
| `TeamSyncProofs` | TLAPS proofs of every safety property of `TeamSync` | |
| `KeyFiles` | `Install` and `uploadKey` on the key files, with failures and crashes | `MCFiles`, `FilesProofs` |
| `HeldKeys` | what a user relies on of the key files | refined by `KeyFiles` |
| `SettingsFiles` | `uploadSettings`, `settingsEditor` and other programs on the SSH config and the known hosts | `MCFiles`, `FilesProofs` |
| `FilesProofs` | TLAPS proofs of every safety property of `KeyFiles` and `SettingsFiles` and of the refinement | |
| `Sharing` | `sharing.go`, the guests' requests, `net/http` as far as it is used, the end of the program | `MCSharing`, `SharingProofs` |
| `SharingProofs` | TLAPS proofs of every safety property of `Sharing` | |
| `SSHConnect` | `Connect` of `sshclient/client.go`, hop by hop | `Terminals` |
| `Terminals` | `terminal.go`, composed with `SSHConnect`, and `Close` | `MCTerminals`, `TerminalsProofs` |
| `TerminalsProofs` | TLAPS proofs of every safety property of `Terminals` and `SSHConnect` | |
| `ConfigParser` | `Parse` of an SSH config, on lines (pure operators over `DeskState`) | `StartupImport` |
| `StartupImport` | `AutoImport` and `ApplySelected` against the store, with kills and restarts | `MCImport`, `ImportProofs` |
| `ImportProofs` | TLAPS proofs of the properties of `StartupImport` that the run `import` checks | |
| `MCTunnel`, `MCDesk`, `MCTeamSync`, `MCFiles`, `MCSharing`, `MCTerminals`, `MCImport` | constants of the instances that TLC checks | the `.cfg` files |

`PROJECT.json` has the run list, the source lines behind each definition, one mutant per checked
property, the hazards and the findings.

    tlc -workers 2 -config MCTunnelRestart.cfg MCTunnel
    tlapm TunnelManagerProofs.tla

## 1. Inventory

| component | state | operations | interacts with |
|---|---|---|---|
| tunnel manager (`tunnel/manager.go`) | `entries` by id, each with status, listener, connection, sockets, context, `done`, `stopped`; `closed` | `Start`, `Stop`, `Close`, `Ready`, `Statuses`, `Active`; goroutines `monitor`, `accept`, `forward` | `sshclient.Connect`; called by the handlers |
| SSH connector (`sshclient/client.go`) | none; one chain of clients per connection | `Connect` over up to 16 hops, `KeepAlive`, `Dial`, `Close` | store (snapshot), network |
| store (`database/store.go`) | SQLite tables, `Store.mu` | `Snapshot`, `Update` (copy, change, validate, one transaction), `LocalValue`, `Record` | everything |
| settings model (`model/model.go`) | records of keys, hosts, tunnels, services, subscriptions | `Chain`, `Validate...` | store, installer |
| settings handlers (`web/server.go`, `tunnel_links.go`) | `ops` lock | `save`, `delete`, `tunnelAction`, `openService`, `importConfig`, `checkHost`, `checkKey` | store, tunnel manager |
| team synchronisation (`web/team_sync.go`, `provision/sync.go`) | `TeamSubscription` (source, items, paused, error), `syncRun` | `pollTeam`, `teamAction`, `serveFeed`, `downloadPayload`, `SignFeed`, `FetchFeed`, `ApplyFeed`, `registerSource` | store under `ops`; the other desk |
| installer (`provision/bundle.go`) | key files, marker file | `Select`, `Create`, `Install` | store, file system |
| sharing server (`web/sharing.go`) | `shareServer`, `sharePayload`, `shareSelection`, `sharePeers` under `shareMu` | `StartSharing`, `stopSharing`, `sharingAction` | store; other desks |
| terminals (`web/terminal.go`) | `terminals` (16 at most), `closed` | open, end, `Close` | SSH connector |
| key upload, settings files (`web/keyupload.go`, `settingsupload.go`, `settingseditor.go`) | files beside the database | write file, then database; editor with a revision check | file system, store |
| configuration backup (`web/backup.go`) | none | export, preview, import (merge) | store |
| SSH config import (`sshconfig`) | none | `Parse`, `ApplySelected`, `AutoImport` | store at start |
| start and end (`cmd/sshdesk/main.go`) | none | set-up, installation, shutdown | all |
| macOS export, platform, key files, assets, test server | none | text generation, OS calls, static files | |

What is hard here:

* **Goroutines of one entry.** `Start` registers an entry, unlocks, connects for up to 45 s and
  looks again; `Stop` can come anywhere, and after it a new `Start` of the same id while the old
  goroutines wind up.  A connection in a local variable must be closed by exactly one of them.
* **Waiting.** `Stop` blocks on `done`, which some other goroutine must close on every path; an
  entry whose bind failed has no such channel.
* **Sockets.** Accepted outside the lock, counted inside it, cleaned up by a deferred function
  after the entry may have reconnected or stopped.
* **Stale snapshots.** A poll reads the subscription, waits for the network, and applies the
  answer when the user may have paused it, changed its address or edited what it manages.
* **Retention.** Records the master removes stay on the member, so old and new ones meet under
  rules (unique names, equal ports, routes of at most 16 hosts) no single desk ever broke.
* **Two transactions.** A conflict is rolled back and then noted by a second update.
* **Files and database** are written one after the other (installer, key upload, editor).

What makes each component right: a tunnel's status is true and its resources have one owner; a
stop is final and complete; every call returns; a sync never touches personal settings, never
goes back, obeys a pause, fails only for a reason the user can see, and shows it; settings are
valid after every commit; an interrupted installation can be finished by running it again;
sharing serves nothing after it was stopped; at most 16 terminals, none after `Close`; no edit of
a settings file is lost unseen.

## 2. The tunnel manager

### Correspondence

Every `Start` takes a fresh member of `Entry`: an entry object, never reused, while `entries`
maps an id to the entry registered under it.  An entry is driven by the goroutine inside `Start`
and then by its `monitor`; they never overlap, so one program counter `pc[e]` and one local
`held[e]` (the code's `conn` or `next`) stand for both.  `acceptor` and `incoming` are the accept
loop, `forwarder`, `owner`, `via` one forward per socket, `callerPc`, `callerOp`, `todo`, `target`
the goroutines inside `Stop` and `Close`, `probe` those inside `Ready`.

A critical section of `Manager.mu` is one action (`StartBinds`, `StartInstalls`, `Drop`,
`Reconnect`, `Admit`, `StopFinishes`...).  What runs outside it and can race is an action of its
own: the outcome of `Connect` (`ConnectOK`, `ConnectFails`), the unlocked read of `life.Err()`
after a failure (`StartFails`, `StartCancelled`), the close of a lost connection (`CloseLost`), the
close of `done` by the deferred function (`CloseDone`).  `connOpen` and `open` are the connections
and sockets this program holds open in the operating system.  The remote end and the network are
the choice between the actions that succeed and those that fail.

Kept out: error texts, retry counters shown to the user, log lines, `ConfigChanged` (a read).
Backoff is counted in seconds and doubles up to `MaxBackoff` as in the code.

### Runs

| run | instance | checks |
|---|---|---|
| `restart` | one tunnel, two entries, two connections, two callers, two misses, backoff up to 3, limit of one socket and two clients, a prober | `TypeOK`, `StatusIsTrue`, `NoConnLeak`, `CallsRelease`, `SocketsFollowConn`, `ConnectionCount`, `LifecycleSpec` |
| `live` | one tunnel that reconnects, two entries, two connections, a socket, a caller, `FairSpec` | `CallsReturn`, `ReconnectEnds`, `ClosedDrains` |
| `ready` | one entry, a socket, a prober; a violation is expected | `ReadyMeansServing` |

Why these bounds show the interesting cases: two entries of one id are a stopped tunnel and its
successor; two connections are the lost one and the redialled one; two callers are a `Stop` that
races a `Stop` or a `Close`; two clients exceed a limit of one; two misses and a backoff of 3 s
reach the middle and the cap of both counters.  The constraint `Bounded` in `MCTunnel` keeps what is large apart: two
callers race while there is no client and no `Ready`; clients and `Ready` come with one caller and one
entry.  The same safety properties are proved without bounds (below).  Deadlock is not checked in any run:
entries are a bounded supply and nobody has to call anything, so the system may come to rest.

Fairness (`Fairness` in `TunnelManager`): goroutines run; `Connect`, a keepalive and a remote dial
end because each has a timeout (45 s, 10 s, 15 s); tickers and timers fire; `Accept` on a closed
listener and copies over a closed connection return.  Clients, users and callers owe nothing.
`ReconnectEnds` assumes in addition strong fairness of `RedialOK` (`NetworkRecovers`): a network that
lets redials through again and again.  Without it a tunnel may reconnect for ever, as it should.  One assumption is about the rest of
the program: `Connect` begins with a snapshot of the store, whose lock `save` keeps while it reads the
body of its request (section 3), so the time of `Connect` counts from when that body is there.

`ready` documents a disagreement.  `accept` returns on every error, also on one that leaves the
listener open; the tunnel is then `running`, nobody accepts, and `Ready`, said to check "the entire
forwarding route, not just the local listener" (`manager.go:320`), finds it good.

### Proofs

`TunnelManagerProofs` proves for all constants that satisfy the three named assumptions
(`ConfigAssumption`, `NoneAssumption`, `LimitAssumption`; types, `nil` distinct from everything,
positive limits) that `Spec` implies each safety property of the run `restart`, that
an active entry is the one registered under its id (`ActiveIsRegistered`), that a stopped entry stays
stopped (`StopIsFinal`), and that `Spec` implements `TunnelLifecycle`.

None of these is inductive.  What is:

* `TypeInv`: `TypeOK`, with the facts that keep counters in range and locals not nil;
* `PhaseInv`: what each program counter value says of the entry's status, listener, connection,
  context and `done` (a goroutine at `dropped` belongs to an entry that is reconnecting or was
  stopped, and so on).  Most safety facts are a reading of this table;
* `RegInv`, `InjInv`: an active entry is the one registered under its id, and one entry is
  registered under one id;
* `OwnInv`: every open connection has exactly one owner, which needs that a fresh one is one
  nobody refers to;
* `SocketInv`, `CountInv`: sockets belong to their forwards and are counted once;
* `StopInv`, `CloseInv`: what a caller at each stage may rely on.  `CallsRelease` needs both:
  `closed` keeps new entries out after the ids were listed.

Each has a lemma that every step preserves it, with one step per action; actions that leave alone
all it mentions go through the frame lemmas.  `StopStays` follows from `stopped` only growing;
`Refinement` maps every action to the lifecycle step it is, or to a stutter.

Only model-checked: the liveness properties, and of course `ReadyMeansServing`.

## 3. Requests against running tunnels

### Correspondence

`Desk` composes the handlers with the tunnel manager.  The manager is its abstract specification:
the steps are those of `TunnelLifecycle` (`Manager!Start`, `Manager!Lost`...), which `TunnelManager`
is proved to implement, plus the settings with which each entry was registered (`config`).  Settings
are those of `DeskState`.

Every handler but the stop of a tunnel holds `Server.ops` from its first step to its last.  `save`,
`importBackup` and others decode the body of their request under it, and the management server has no
`ReadTimeout` (`main.go:108`): `AwaitsBody` takes the lock, and the body comes (`Decodes`), breaks off
(`BodyFails`), or never comes.  An
update (`SaveTunnel`, `SaveService`, `Delete`, `ImportBackup`, and `Sync` for the update of a poll)
looks at the manager and computes the new settings in one action and commits them in another
(`Commits`, or `CommitFails` when the database cannot be written), because that is the gap the lock
has to close.  `tunnelAction` and `openService` read the tunnel, go through `Manager.Start` (which
returns at once for a running tunnel, refuses a busy one, fails to bind, or connects), and
`openService` goes on to `Ready` and to the browser.  `Stop`, the monitors and `Close` run beside
all that without the lock.  Requests without a body that are refused before anything changes are left out.  What
a feed or a backup may hold is a constant, so that a run can choose it.

### Runs

| run | instance | checks |
|---|---|---|
| `desk` | a key, a host, two tunnels, a web link, two ports, two requests, feeds on either port with and without the link, a backup without it | `TypeOK`, `ActiveIsSaved`, `OpensRegisteredPort`, `OnlySyncEditsActive`, `OpsReleased` |

Two requests are a holder of `ops` and one that waits; two tunnels on two ports compete for a port
and swap it; a feed on the other port is the sync that makes `ConfigChanged` true.  Deadlock is not
checked: once the manager is closed and the ids are used up a desk may have nothing left to do.
Fairness is weak fairness of what a request does once its body is there: `Connect` and `Ready` have
timeouts (45 s, 15 s).  Nobody has to make a request, send it to its end, or stop anything, and
`OpsReleased` promises nothing of a request whose body is awaited: a browser that stays connected and
sends no more keeps `ops`, and with `save` the lock of the store, for as long as it likes.

### Proofs

`DeskProofs` proves the four safety properties for any settings, feeds, backups and number of
requests.  They are not inductive, because each speaks of the end of a request and rests on what was
read at its start.  `UpdateInv` says what may be relied on of the settings an update has computed:
they are valid, have every active tunnel, and unless it is a sync have it unchanged.  `StartInv` says
that what a start has read is still saved, and that from the moment the tunnel is known to run it is
what the manager has registered.  `TunnelsUsed` (the id of a saved tunnel is used) is needed since a
service can be saved with a new tunnel, whose id must not be that of an active one.  `OpsReleased` is
model-checked only.

## 4. Team synchronisation

### Correspondence

`DeskState` has the settings of one desk as one function from record ids to records.  Kept of a
record is what validation and merging look at: a key's path, a host's name, key and jump host, a
tunnel's host and local port, a service's tunnel and the port of its URL.  `Route` follows jump
hosts for `MaxHops` steps (`Chain`, 16 in the code), `Validate` is `database.Validate`, `Selection`
and `CanSelect` are `Select`, `Feed` and `FeedOK` are `SignFeed`, `Applied` and `CanApply` are
`ApplyFeed` with the validation of `Update`, `CanMerge` is the merge of installers and backups.
The code works list by list and gives up at the first error before anything is written, so the
operators treat all lists at once.

`TeamSync` has the two databases (`saved`), the member's subscription (`url`, `scope`, `current`,
`missing`, `paused`, `syncError`), an installer on its way (`bundle`) and the pollers.  `Update` is
one transaction under `Store.mu` and so one action.  A poll is several: `PollStarts` takes
`syncRun`, `PollReads` or `PollSkips` the snapshot, `FetchOK` or `FetchFails` is the request, and under
`ops` one of `PollStale`, `PollFailed`, `PollApplies` and `PollConflicts` is the update; `PollNotes` is
the second update after a conflict.  The database may fail at each of them: a snapshot that cannot be
read ends the poll without a word (`PollUnread`), a first update that cannot be written goes the way of
a conflict (`PollUnsaved`), and the error of the second update is discarded (`PollUnnoted`).  `stalled`
says that a handler of the member has `ops` and waits for a body (`BodyStalls`, `BodyComes`).  `ops` is
held from the first update to the second, which keeps edits out (`OpsFree`) but not `Pause`, `Resume` and `Address`, whose handlers do not take it.  `revision` and
`applied` are history: how often the master's settings changed, and which of its states the member
has applied.

Signatures and nonces are taken to be unforgeable, so that an answer is either a feed of this
master made after the request, or a failure.  The request to the master is one step: what it signs
is one snapshot of its store.  `Install` is one step with the restart of the program it belongs to;
its key files and its marker are in `KeyFiles` (section 5).  A save of a tunnel
that runs is refused by the handler; here any tunnel may be one that does not run.  The member has
one subscription.

### Runs

| run | instance | checks |
|---|---|---|
| `team_hosts` | a key, two hosts, two names, routes of two, ticker and refresh, two edits of the master, any number of the member's | `TypeOK`, `ConflictsHaveCause`, `OwnKept`, `PausedIsFrozen`, `NoRollback` |
| `team_links` | a host, tunnels, web links, two ports, two addresses, `FairSpec` | `ConflictsHaveCause`, `SyncOrError` |
| `team_arrive` | `AnsweredSpec`; a violation is expected | `ChangesArrive` |

Two hosts and two names allow a renaming, a replacement by the same name and a route through
another host; two edits of the master allow a removal followed by an addition; two pollers are the
ticker and a request.  The member edits without a bound.  In `team_links` bodies stall and the address
changes only while there is no second web link (`Bounded` in `MCTeamSync`), for the sake of size: the
bound is on what users do and never holds up a poll, so the fairness means the same.  Deadlock is not checked because the
master's edits and the restarts are bounded and a user may do nothing.

Fairness: a poll that has started goes on, since `FetchFeed` has a timeout; the ticker comes back
every 30 s.  `PollStarts` and the updates of a poll have strong fairness: a goroutine that waits for a
Go mutex does not starve if the lock is free again and again.  Nobody owes it that `ops` is free.  `AnsweredSpec` adds that the master answers some of the
ticker's requests.  `SyncOrError` and `ChangesArrive` exempt a user who changes the address for
ever, since a poll whose address changed under it is dropped without a trace, a browser that keeps
`ops` for ever (`Hindered`), and a database that fails again and again in `PollUnread` or `PollUnnoted`
(`Unseen`), where the code leaves no trace of the failure.  A database that only refuses the first
update is not exempt from `SyncOrError`: that failure is noted.  `MayStall` lets bodies stall in
`team_links`, the run of `SyncOrError`, and is off in the other two, whose results it cannot change.

`team_arrive` documents a disagreement with the promise that "what the master adds and changes is
taken over every 30 seconds" (`src/README.md:161`): when the master replaces a host by a new one
of the same name, the member retains the removed one, names must be unique, and every later poll
is a conflict.  `ConflictsHaveCause` lists all the reasons a poll can have to conflict; a personal
web link on a shared tunnel whose port changes is another one that blocks every later change.

### Proofs

`TeamSyncProofs` proves `TypeOK`, `OwnKept`, `PausedIsFrozen`, `NoRollback` and `ConflictsHaveCause`
for any sets of records, names, ports, addresses and pollers.  `TypeOK` rests on the lemmas of `DeskStateProofs`, that
each operator of `DeskState` maps settings to settings.  `NoRollback` needs an invariant: only the holder of
`syncRun` is in a poll, and a fetched feed is not older than the one applied last and not newer
than the master; without the first part, another poller could apply in between.  `OwnKept` and
`PausedIsFrozen` follow from single steps and the types.

`ConflictsHaveCause` rests on `ConflictInv`: every feed is valid, and between a conflict and the
transaction that notes it the member's settings are those that met it, because `ops` keeps edits out
and a restart forgets the poll.  The lemma `AppliesUnless` of `DeskStateProofs` does the rest: a valid
feed can be applied to valid settings unless one of the listed causes is there.  It is a statement about
`ApplyFeed` and `Validate` alone, and shows that the list is complete: a reference of the result always
leads to a record, and the port of a managed web link follows its tunnel's.  That a feed is valid
(`FeedValid`) is another one: what `Select` takes from a valid desk is closed under its references.

Routes are a recursive function (`Route`).  Induction over the hops is done as a least counterexample:
`NatMin` gets a least element of a set of naturals from the library's `NatLessThanWellFounded`, `NatSet` is
induction stated for a set, and with it `RouteExists` shows that the recursive definition has a solution,
`RouteAgree` that two settings have the same routes where they have the same jump hosts, and
`RouteLeads` that the jump host of a host with a route exists.

The liveness properties are only model-checked.


## 5. Files beside the database

### Correspondence

`KeyFiles` has the content of each key file (`files`, with `Torn` for one that is empty or incomplete),
which of them a power failure may still harm (`unsynced`), the path the database has for each key
(`db`), the keys that the subscription lists (`managed`), and one program counter: `Install` ends
before the server starts, and the handlers hold `ops`.  `Start` is the look at the marker, then the
loop of `Install` goes key by key (`KeyReused`, `KeyFound`, `KeyClash`, `KeyCreated`, `Written`), commits
(`InstallCommits`) and writes the marker (`Marked`, `MarkFails`); every step before the commit may be
refused, and then the deferred function removes what this run created, file by file (`Undone`).  A removal
may fail, which the code does not notice (`RemoveFails`): the file stays.
`uploadKey` shares the last parts of it.  A key may also be saved by its path, or deleted.  `Kill`
leaves the files as they are, `PowerFailure` loses or tears any file that was not synced.  Files and
database are separate, so a crash falls between any two of their steps; a commit of SQLite is one step.
`done`, `kept`, `unmarked`, `unremoved` and `blackout` are history.

`HeldKeys` is the view of the user: for each key, the content its path leads to.  It changes by whole
packages, by single keys, or by a power failure.  `KeyFiles` implements it with
`held <- Held, installed <- done`.

`SettingsFiles` has the files of the SSH config and the known hosts in the same way.  An upload writes
one or two copies and then saves both paths in one update, the other path being the one in the form,
which may be an old one (`Form`).  The editor compares path and revision, writes a temporary file, looks
again and renames it.  `HandlerLeaves` is a removal that fails.  Other programs save the same files at any moment (`ExternalEdit`).

### Run

| run | instance | checks |
|---|---|---|
| `files` | two keys, two contents, a plain package with two keys, a master's with one, one of this desk's own; two requests, a kill or power failure; two texts, two uploads, four requests or external edits, a kill or power failure | `SavedKeysComplete`, `NoStrayFiles`, `InstalledOnce`, `HeldKeysSpec`, `SettingsWhole`, `OnlySeenReplaced` |

The two modules share the lock `ops` and no file; `scene` in `MCFiles` lets one of them move while the
other rests, so that their states do not multiply.  Two keys are an installation with a middle; two
requests let the user edit or delete a key between two starts of a package; one crash is enough to tear
a file and to look at every later start; four edits are an opening, an external edit, a save and one
edit in between.  In the scene of the keys a behaviour has a crash or removals that fail, but not both
(`OneFault`), for the sake of size; the theorems have no such bound.

What the run shows, beside the properties: a kill while a key file is written leaves a torn file that
stops every later start of that package (`NoStrayFiles` says that nothing else does but a torn file that
could not be removed); a lost marker
makes a master's package overwrite what was edited since among the keys it manages; a power failure may
spoil keys of a package, which `Install` does not sync, but not uploaded ones; an external edit between
the editor's second look and the rename is lost.  The properties name these exceptions.

### Proofs

`FilesProofs` proves all six, and the types of both modules, for any keys, contents, packages of any
length, texts, and any number of requests, copies and crashes.  The assumptions on the constants:
`FilesAssumption` types them and keeps the values for "no file", "torn" and "mark" apart from contents;
`PackageAssumption` says that a package has a key once, as its records come from a database by their
ids; `PathAssumption` that no package has the name of the directory of uploads or of the user's files
(a package's directory, under `team-bundles`, is named by its digest); `SettingsAssumption` the same for the settings files.

The invariant for the key files has to say where each path comes from.  `InstallInv`: the keys of the
package that are through have a path with the content the package carries, the others have none.
`OwnerInv`: a path of a package is only ever used for the key it was made for, and the number of the next
upload was never used; this is why the clean-up of one operation cannot meet a file of another.
`DiskInv`: what is or was in the database is complete, and is not among the files that the operation
under way would remove, unless a power failure took it first, so that the installation had to create it
again.  `StrayInv` says which files there are while nothing has crashed, `MarkInv` that markers stand for
commits; neither says anything of what a failed removal left.  The proof made explicit what the model had left open: a package with the same key twice
would break `InstallInv`.

The refinement of `HeldKeys` maps a commit to the change of a package or a key, and a step of the
clean-up or a power failure to a loss of files; all other steps leave `Held` as it is, since they only
write files that no key has.

For the settings files, `NamedInv` is the core: every file that the settings name or may get from an old
form, or that a browser shows, is whole, synced, and not among the files that a handler would remove.
`QueueInv` has the copies of an upload under way, `LeftInv` the files nothing names, and `SeenInv` is
`OnlySeenReplaced` at the moment before the rename.

## 6. The sharing server

### Correspondence

`Sharing` has the fields under `shareMu` (`shareServer`, `sharePayload`, `shareFeed`, `shareConfig`,
`sharePeers`), the servers with the stages of their goroutines, and guests with a connection and a
request each.  A publication is a number; `discarded` remembers the last one a stop threw away.
`sharingAction` holds `ops` and so is one at a time (`act`), but its critical sections are steps of
their own, because `Close` and the guests come between: `Prepare` and `PrepareFails`, `StopAction`,
`StartAction`.  `ServeBegins`, `ServeEnds`, `ServeCleared` are the goroutine of `StartSharing`; a `Close`
of the server may come before it calls `Serve`, whose listener has the port until then.  A guest's
request reads in one or two sections (`ReadsConfig`, `CopiesShare`, `NotesPeer`) and is answered later.
`Close` is called on a signal before `Shutdown` and again by `defer` (`CloseAgain`); requests go on between
the two, and after the second if they outlive the five seconds of `Shutdown` (`ShutdownReturns` with
`atWork`) or if the management server failed, when nobody waits for them (`ServeFails`).  `Exit`, the end
of the process, is a step of its own.  `Shutdown` is modelled by its contract.  `Server.Close` also waits
for the poll under way (`syncDone`), which is not repeated here: it only delays the step.
A server object is used again when nothing refers to it (`Collected`), so starts are unbounded.

`net/http` is external: closing a server closes its connections, `Serve` returns after that or since
`Accept` failed, and does not close connections itself.

### Run

| run | instance | checks |
|---|---|---|
| `sharing` | two servers, a guest, two addresses, a list of one peer, two publications, `FairSpec` | `NoHiddenServer`, `AnswersCurrent`, `ClosedForGood`, `PeersBounded`, `ServersSettle` |

Two servers are the one that ends late and its successor; two publications are one that was discarded
and one that is current; two addresses exceed a list of one.  Fairness: goroutines run, and `Serve`
returns once its server was closed.  Users, guests and the failure of `Accept` owe nothing.  Deadlock is
not checked, since publications are bounded and the program ends.

The properties name what the code leaves: after a failed `Accept` the open connections of that server
live on and are answered, until the guests close them; a handler that outlives `Shutdown` may start
sharing after the deferred `Close`, until the process ends (`StartSharing` does not ask whether the program
closes); and a start right after a stop can fail while the
old listener still has the port.

### Proofs

`SharingProofs` proves `TypeOK` and the four safety properties for any number of servers, guests,
addresses and publications, from `SharingAssumption`.  None of them is inductive alone: that the
field names the server that accepts guests needs to be known of servers that have not called `Serve`
yet, too.  The inductive invariant is a conjunction:

- `ServerInv`: at most one server listens; one that was started and not closed is the one in the field,
  and the field never names a closed one; a guest is connected to a server that was not closed;
- `PubInv`: payload and feed in memory are one publication, later than the last one discarded;
- `GuestInv`: what a guest has copied is one publication, and over a connection that a stop closes it is
  later than the last one discarded;
- `EndInv`: `ClosedForGood`, and when no handler is at work any more no `sharingAction` is under way and
  the program is past `Shutdown`;
- `PeerInv`: the list is finite, which the theorem on its cardinality needs, and within its limit.

`ServersSettle` is a liveness property and stays with TLC.

## 7. Terminals and SSH connections

### Correspondence

`SSHConnect` is one call of `Connect` per member of `Call`: for each hop the key (`KeyReady`,
`KeyFails`), the dial, the handshake, and `stop`.  `context.AfterFunc`, which closes the socket when a
time is up, is `alarm`: it begins to run (`AlarmFires`) and closes (`AlarmCloses`) on its own, and
`stop` succeeds exactly if it has not begun.  `open` are the sockets on this side, `silent` the calls
with a host that answers no more.  The raw socket of the first hop has the deadline of the hop itself
(`SetDeadline`, `client.go:112`), which is reset only after `stop` (`HopDone`, line 125); the later hops run
over channels of `x/crypto/ssh`, which have none.  When it passes before the reset (`SocketExpires`), reads
fail and the client closes the socket at some later moment (`MuxCloses`): `Connect` may then return a
connection that is closed or about to be.

`Terminals` adds the handler: slot, authentication within five seconds, `Connect`, the `AfterFunc` that
closes the connection when the context ends (`watch`), the session, the loop, and the deferred calls in
their order (`Leaves`, `Unslots`).  `workers` are its three goroutines, for the output, the end of the
session and the keep-alive; `Cancels` is their call of `cancel`.  `Forgotten` gives the name to another
terminal once nothing of it is left, so that terminals are unbounded.

### Run

| run | instance | checks |
|---|---|---|
| `terminals` | two terminals, one slot, routes of one and two hops, `FairSpec` | `SlotsHoldConnections`, `ConnectAllOrNothing`, `TerminalsEnd` |

Two terminals compete for the slot; two hops have a middle at which the first connection is open and
the second fails.  `ConnectAllOrNothing` exempts calls whose first socket expired, which is the race of
`client.go:112-125`; `TerminalsEnd` covers them: a terminal that got such a connection ends and gives back
its slot.  Fairness: the timers of authentication, of a dial, of a hop and of the keep-alive
fire, goroutines run, and what waits for a closed connection returns.  Remote hosts, browsers and users
owe nothing: that is why a server that stops answering while the session is opened, for which the code
has no timer, holds its slot until its terminal is cancelled, and `TerminalsEnd` promises no more.

### Proofs

`TerminalsProofs` proves `TypeOK`, `SlotsHoldConnections` and `ConnectAllOrNothing` for any number of
terminals and slots and routes of any length, from `HopsAssumption` and `TerminalsAssumption`.  The
inductive invariant is a conjunction:

- `ChainInv`: which sockets of a call are open at each of its stages: those of the hops so far, and that
  of the hop under way unless its alarm has fired, for a call whose first socket has not expired; a call
  that failed has none open, expired or not.  A hop is done only if `stop` succeeds, so the alarm has not
  fired and the next hop begins on a whole chain;
- `StageInv`: where the call of `Connect` is at each stage of the handler, that a terminal has its slot
  at all of them but the first and the last, and that its connection is closed before it gives it back;
- `SlotInv`: the slots taken are finitely many and within the limit.

`TerminalsEnd` is a liveness property and stays with TLC.

## 8. The import of an SSH config

### Correspondence

A file is a sequence of lines with key and value.  `ConfigParser` says which lines apply to an alias,
which one counts, and what makes an alias unusable (`Parse`, `Usable`): no user or key, a port that is none,
tokens to be expanded, a hop that is no plain alias, an unsupported directive, a `Match` in the file.
Splitting lines into words, globs and numbers are left out: a line has the outcome of its check as value.  `StartupImport` has the store as settings of `DeskState`, and `AutoImport` step
by step: what is new and usable (`Start`), the loop that drops aliases with a missing hop (`Prune`), the
groups (`GroupBegins`, `GroupGrows`), and one transaction for each (`GroupSaved`, `GroupRefused`,
`GroupFails`).  `ApplySelected` and `CanImport` are the function of the same name with the validation of
the store; `SelectionImported` is `importConfig` of the page.  The code goes through maps and lists in
an order that does not matter for the result, so that the model takes any.  The program may be killed
between any two steps; `base` remembers the settings that the first of the interrupted starts found.

### Run

| run | instance | checks |
|---|---|---|
| `import` | all files of three aliases with `ProxyJump` lists of up to two hops or malformed ones, and all files of three more lines with sections, `Match`, `Include`, `Include none`, host names with and without tokens; routes of three hosts | `ImportIsComplete`, `GroupsWhole`, `RoutesFollowConfig` |
| `bypass` | the same; a violation is expected | `NothingBypassed` |

`ImportIsComplete` compares the loops with a definition without loops: the largest set of aliases whose
hops are in it or registered, split into the least sets that no `ProxyJump` leaves.  Three aliases are
enough for a chain, a cycle, two groups, and two entries that contradict each other about a third.
Deadlock is checked.

`bypass` compares `Parse` with what `ssh` makes of the same lines, whichever conditions of `Match` hold and
whichever included files set the hops (`SSHJumps`), and documents a disagreement.  `Parse` keeps the first of
several `Include` lines only (`parser.go:143`), so that `Include none` before another `Include` leaves an
alias usable, and a start imports it with hops that may not be those of `ssh`; the code says of conditional
routing: "Never silently bypass it" (`parser.go:186`).  Without files that have `Include none`, TLC finds no
violation: `Match` and a single `Include` are never bypassed.

What the runs show beside the properties: an entry that conflicts takes its whole connected group along;
and a host gets its jump host from another entry's `ProxyJump B,C` also if its own entry says it is reached
directly, since an entry without a list says nothing of its route.

### Proofs

`ImportProofs` proves `TypeOK` and the three properties of `import` for any finite set of aliases, any keys, files
and settings, and any limit on routes.  `ImportAssumption` says that aliases are the names of hosts and
that the config has a key file for each; `ConfigAssumption` that files are finite and the values of `Host`
and `ProxyJump` lines have their types.

`BaseInv` is the invariant that survives kills: the settings are `ApplySelected(base, Imported)`, where
`base` is what the first of the interrupted starts found, and what is imported consists of whole groups
that fit `base`.  `RunInv` says of the loops that nothing that could be imported has been dropped
(`Importable` is the largest such set, so that an induction over the dropped aliases is not needed), and
`GrowInv` that the group at hand lies in every closed set around the alias it grew from; when its queue
is empty it is closed itself, and so is a least one (`WholeGroup`).  `TriedInv` has the groups that are
done with.

The hard step is that groups do not get in each other's way.  `ApplyTwice`: to import one group after
another is to import both at once, since no list of one names a host of the other (`CrossFree`).
`CanImportSame`: whether a group can be imported does not depend on the others, since the routes of its
hosts stay in the group and in `base` (`RouteAgree`, `ValidPart`).  So the groups that fit when their
turn comes are those that fit `base`, whatever the order, and `ImportIsComplete` follows.

## 9. Findings

1. `accept` ends on any error and leaves a running tunnel that nobody serves (run `ready`).
2. A removed and re-added host name stops synchronisation for good (run `team_arrive`).
3. An `Include none` hides a later `Include` from the import (run `bypass`).

Not findings, since nothing in the repository says otherwise, but worth knowing, and named as exceptions in
the properties: a request whose body never comes keeps `ops` (`OpsReleased`); a poll whose second update
fails leaves no note (`SyncOrError`); a handler that outlives `Shutdown` can share after the deferred
`Close` (`ClosedForGood`); `Connect` can return a closed connection when a deadline passes just before
its reset (`ConnectAllOrNothing`); a key file whose removal fails stays (`NoStrayFiles`).

## 10. Plan

Every component that keeps state has a module, and every safety property, action property and
refinement that a passing run checks is a theorem.  Only model-checked are the liveness properties
(`ReconnectEnds`, `CallsReturn`, `ClosedDrains`, `OpsReleased`, `SyncOrError`, `ServersSettle` and
`TerminalsEnd`), since fairness is out of the reach of the prover, and the three runs that expect a
violation.

Next: the statements the liveness properties rest on that are safety (who holds `ops`, `syncRun` or a
slot has a step to take), as invariants beside those of the proofs; and shorter proofs of
`ImportProofs` and `FilesProofs`, whose cases repeat each other.

## 11. Not modelled

The macOS export, templates and static files, the native file picker, the platform layer, the syntax of
keys and of configuration lines, and the test server: text handling, operating system calls or files
without behaviour over time.  Read-only handlers (`checkHost`, `checkKey`, previews) change nothing.
The trailer and the encryption of an installer are read once, before anything changes.  A desk has one
subscription in `TeamSync`; with several masters, an item has one owner (`registerSource`), which is
not shown.
