----------------------------- MODULE KeyFiles ------------------------------
(***************************************************************************)
(* The files of the SSH keys that the database names, and the program's    *)
(* steps on them: the installation of a team package when it starts        *)
(* (provision.Install), uploads of keys while it serves (uploadKey),       *)
(* failures of each step, and a kill or a power failure between any two.   *)
(* The handlers hold the lock ops and the installation ends before the     *)
(* server starts, so the program is at one place, pc.                      *)
(***************************************************************************)
EXTENDS Naturals, Sequences, FiniteSets

CONSTANTS
    KeyId,          \* ids of SSH keys
    Raw,            \* contents of key files
    Package,        \* team packages that are appended to the executable
    PackageKeys,    \* their keys, in order, each with its content
    PackageSource,  \* "none": a plain package; "team": with a master; "self": of this desk
    MaxCrashes,     \* bound on kills and power failures
    MaxRequests,    \* bound on the requests of users
    None,
    Torn            \* a file that is empty or incomplete

ASSUME FilesAssumption ==
    /\ MaxCrashes \in Nat /\ MaxRequests \in Nat
    /\ PackageKeys \in [Package -> Seq([slot : KeyId, raw : Raw])]
    /\ PackageSource \in [Package -> {"none", "team", "self"}]
    /\ None \notin Raw \cup Package /\ Torn \notin Raw \cup {None}
    /\ "mark" \notin Raw \cup {None, Torn}

\* A package has a key once: its records come from a database, by their ids.
ASSUME PackageAssumption ==
    \A p \in Package : \A i, j \in DOMAIN PackageKeys[p] :
        PackageKeys[p][i].slot = PackageKeys[p][j].slot => i = j

\* The paths of the data directory, and the user's own files.
KeyPath(p, i) == <<p, i>>
Marker(p) == <<p, 0>>
UploadPath(n) == <<"upload", n>>
OwnPath == <<"own", 0>>

InstallerPath == UNION {{KeyPath(p, i) : i \in DOMAIN PackageKeys[p]} : p \in Package}
ProgramPath == InstallerPath \cup {UploadPath(n) : n \in 1..MaxRequests}
Path == ProgramPath \cup {Marker(p) : p \in Package} \cup {OwnPath}

\* The directories of packages are none of the others.
ASSUME PathAssumption == None \notin Path /\ {"upload", "own"} \cap Package = {}

VARIABLES
    files,     \* the content of each file on disk
    unsynced,  \* files that a power failure may harm
    db,        \* the path the database has for each key
    managed,   \* keys the subscription to the master lists
    pc,        \* where the program is
    pkg,       \* the package it installs
    todo,      \* what the installation or the upload still has to write
    paths,     \* the paths it has chosen
    created,   \* the files it has created
    requests,  \* requests of users so far
    crashes,   \* kills and power failures so far
    \* observations of the past, which no step of the program reads
    done,      \* packages that were committed
    kept,      \* paths that were in the database
    unmarked,  \* a marker could not be written
    unremoved, \* a file could not be removed
    blackout   \* the power has failed

diskVars == <<files, unsynced>>
dbVars == <<db, managed>>
opVars == <<pkg, todo, paths, created>>
countVars == <<requests, crashes>>
pastVars == <<done, kept, unmarked, unremoved, blackout>>
vars == <<diskVars, dbVars, pc, opVars, countVars, pastVars>>

NoPaths == [k \in KeyId |-> None]

TypeOK ==
    /\ files \in [Path -> Raw \cup {None, Torn, "mark"}]
    /\ unsynced \in SUBSET Path
    /\ db \in [KeyId -> Path \cup {None}]
    /\ managed \in SUBSET KeyId
    /\ pc \in {"off", "keys", "write", "marker", "serve", "upload", "undo"}
    /\ pkg \in Package \cup {None}
    /\ todo \in Seq([slot : KeyId, raw : Raw])
    /\ paths \in [KeyId -> Path \cup {None}]
    /\ created \in SUBSET ProgramPath
    /\ requests \in 0..MaxRequests /\ crashes \in 0..MaxCrashes
    /\ done \in SUBSET Package /\ kept \in SUBSET Path
    /\ unmarked \in BOOLEAN /\ unremoved \in BOOLEAN /\ blackout \in BOOLEAN

\* A new desk, and a key file of the user's own.
Init ==
    /\ \E r \in Raw : files = [q \in Path |-> IF q = OwnPath THEN r ELSE None]
    /\ unsynced = {}
    /\ db = NoPaths /\ managed = {}
    /\ pc = "off" /\ pkg = None /\ todo = <<>> /\ paths = NoPaths /\ created = {}
    /\ requests = 0 /\ crashes = 0
    /\ done = {} /\ kept = {} /\ unmarked = FALSE /\ unremoved = FALSE /\ blackout = FALSE

\* One more request.
Request ==
    /\ requests < MaxRequests
    /\ requests' = requests + 1
    /\ UNCHANGED crashes

\* The next state of the operation under way: none.
Idle(where) ==
    /\ pc' = where
    /\ pkg' = None /\ todo' = <<>> /\ paths' = NoPaths /\ created' = {}

\* The operation fails: the files it created are removed, one by one.
Fail == pc' = "undo" /\ UNCHANGED opVars

----------------------------------------------------------------------------
(* Install.                                                                *)

\* Mutant: the marker is not looked at.
NothingToInstallMarked(p) == p = None \/ PackageSource[p] = "self"

\* No payload, the marker of an earlier installation, or the desk's own package.
NothingToInstall(p) ==
    p = None \/ files[Marker(p)] # None \/ PackageSource[p] = "self"

\* The program is started, as an executable with or without a package.
Start(p) ==
    /\ pc = "off"
    /\ IF NothingToInstall(p)
         THEN Idle("serve")
         ELSE /\ pc' = "keys" /\ pkg' = p /\ todo' = PackageKeys[p]
              /\ UNCHANGED <<paths, created>>
    /\ UNCHANGED <<diskVars, dbVars, countVars, pastVars>>

Installing == pc = "keys" /\ todo # <<>>

\* The path for the next key, or that of the file an upload has just created.
Here == IF pkg = None THEN UploadPath(requests)
        ELSE KeyPath(pkg, Len(PackageKeys[pkg]) - Len(todo) + 1)

\* The next key is at path q.
Chosen(q) ==
    /\ paths' = [paths EXCEPT ![Head(todo).slot] = q]
    /\ todo' = Tail(todo)

\* Mutant: a key of the same id is taken for the same key.
ReusableById == PackageSource[pkg] = "team" /\ db[Head(todo).slot] # None

\* A package with a master: the desk has a file with the content already.
Reusable ==
    /\ PackageSource[pkg] = "team"
    /\ db[Head(todo).slot] # None
    /\ files[db[Head(todo).slot]] = Head(todo).raw

KeyReused ==
    /\ Installing /\ Reusable
    /\ Chosen(db[Head(todo).slot])
    /\ UNCHANGED <<pc, pkg, created, diskVars, dbVars, countVars, pastVars>>

\* Mutant: a file found in place is removed with the created ones.
KeyFoundCounted ==
    /\ Installing /\ ~Reusable
    /\ files[Here] = Head(todo).raw
    /\ Chosen(Here)
    /\ created' = created \cup {Here}
    /\ UNCHANGED <<pc, pkg, diskVars, dbVars, countVars, pastVars>>

\* The file is there, left by an installation that did not get to its marker.
KeyFound ==
    /\ Installing /\ ~Reusable
    /\ files[Here] = Head(todo).raw
    /\ Chosen(Here)
    /\ UNCHANGED <<pc, pkg, created, diskVars, dbVars, countVars, pastVars>>

Clash == Installing /\ ~Reusable /\ files[Here] \notin {None, Head(todo).raw}

\* "기존 키 파일 충돌"
KeyClash ==
    /\ Clash
    /\ Fail
    /\ UNCHANGED <<diskVars, dbVars, countVars, pastVars>>

\* OpenFile with O_EXCL: the file is there and empty.
Create(q) ==
    /\ files' = [files EXCEPT ![q] = Torn]
    /\ unsynced' = unsynced \cup {q}
    /\ created' = created \cup {q}

KeyCreated ==
    /\ Installing /\ ~Reusable
    /\ files[Here] = None
    /\ Create(Here)
    /\ pc' = "write"
    /\ UNCHANGED <<pkg, todo, paths, dbVars, countVars, pastVars>>

\* Uploads are synced before they are closed, keys of packages are not.
StillUnsynced == IF pkg = None THEN unsynced \ {Here} ELSE unsynced

\* The content is written and the file closed.
Written ==
    /\ pc = "write"
    /\ files' = [files EXCEPT ![Here] = Head(todo).raw]
    /\ unsynced' = StillUnsynced
    /\ Chosen(Here)
    /\ pc' = IF pkg = None THEN "upload" ELSE "keys"
    /\ UNCHANGED <<pkg, created, dbVars, countVars, pastVars>>

WriteFails ==
    /\ pc = "write"
    /\ Fail
    /\ UNCHANGED <<diskVars, dbVars, countVars, pastVars>>

ChosenKeys == {s \in KeyId : paths[s] # None}

\* The database has the chosen paths.
Commit ==
    /\ db' = [s \in KeyId |-> IF s \in ChosenKeys THEN paths[s] ELSE db[s]]
    /\ kept' = kept \cup {paths[s] : s \in ChosenKeys}

\* A master's later packages replace what its subscription manages; any other
\* package is merged, and must not differ from what is there.
CanInstall ==
    IF PackageSource[pkg] = "team" /\ managed # {}
      THEN \A k \in ChosenKeys : db[k] # None => k \in managed
      ELSE \A k \in ChosenKeys : db[k] \in {None, paths[k]}

InstallCommits ==
    /\ pc = "keys" /\ todo = <<>>
    /\ CanInstall
    /\ Commit
    /\ managed' = IF PackageSource[pkg] = "team" THEN managed \cup ChosenKeys ELSE managed
    /\ done' = done \cup {pkg}
    /\ created' = {}
    /\ pc' = "marker"
    /\ UNCHANGED <<pkg, todo, paths, diskVars, countVars, unmarked, unremoved, blackout>>

\* A key is missing in the package or malformed, a file cannot be read or
\* created, this key or another record of the package conflicts (see
\* TeamSync), or the database fails.
InstallRefused ==
    /\ pc = "keys"
    /\ Fail
    /\ UNCHANGED <<diskVars, dbVars, countVars, pastVars>>

Marked ==
    /\ pc = "marker"
    /\ files' = [files EXCEPT ![Marker(pkg)] = "mark"]
    /\ unsynced' = unsynced \cup {Marker(pkg)}
    /\ Idle("serve")
    /\ UNCHANGED <<dbVars, countVars, pastVars>>

\* The program ends with the error, the package being installed.
MarkFails ==
    /\ pc = "marker"
    /\ Idle("off")
    /\ unmarked' = TRUE
    /\ UNCHANGED <<diskVars, dbVars, countVars, done, kept, unremoved, blackout>>

\* Mutant: the deferred function forgets the files it created.
UndoneForgets ==
    /\ pc = "undo"
    /\ Idle(IF pkg = None THEN "serve" ELSE "off")
    /\ UNCHANGED <<diskVars, dbVars, countVars, pastVars>>

\* The deferred function removes a created file, or is done.
Undone ==
    /\ pc = "undo"
    /\ IF created = {}
         THEN Idle(IF pkg = None THEN "serve" ELSE "off") /\ UNCHANGED diskVars
         ELSE \E q \in created :
                 /\ files' = [files EXCEPT ![q] = None]
                 /\ unsynced' = unsynced \ {q}
                 /\ created' = created \ {q}
                 /\ UNCHANGED <<pc, pkg, todo, paths>>
    /\ UNCHANGED <<dbVars, countVars, pastVars>>

\* A file cannot be removed: the error of Remove is dropped.
RemoveFails ==
    /\ pc = "undo"
    /\ \E q \in created : created' = created \ {q}
    /\ unremoved' = TRUE
    /\ UNCHANGED <<pc, pkg, todo, paths, diskVars, dbVars, countVars, done, kept, unmarked, blackout>>

----------------------------------------------------------------------------
(* uploadKey.                                                              *)

UploadStarts ==
    /\ pc = "serve" /\ Request
    /\ \E k \in KeyId, r \in Raw : todo' = <<[slot |-> k, raw |-> r]>>
    /\ pc' = "upload"
    /\ UNCHANGED <<pkg, paths, created, diskVars, dbVars, pastVars>>

UploadCreated ==
    /\ pc = "upload" /\ todo # <<>>
    /\ Create(Here)
    /\ pc' = "write"
    /\ UNCHANGED <<pkg, todo, paths, dbVars, countVars, pastVars>>

\* The content is refused, before or after it is written, a file cannot be
\* created, or the update fails.
UploadRefused ==
    /\ pc = "upload"
    /\ Fail
    /\ UNCHANGED <<diskVars, dbVars, countVars, pastVars>>

UploadCommits ==
    /\ pc = "upload" /\ todo = <<>>
    /\ Commit
    /\ Idle("serve")
    /\ UNCHANGED <<managed, diskVars, countVars, done, unmarked, unremoved, blackout>>

----------------------------------------------------------------------------
(* save and delete of a key.                                               *)

SavePath(k) ==
    /\ pc = "serve" /\ Request
    /\ db' = [db EXCEPT ![k] = OwnPath]
    /\ UNCHANGED <<managed, diskVars, pc, opVars, pastVars>>

Delete(k) ==
    /\ pc = "serve" /\ Request
    /\ db[k] # None
    /\ db' = [db EXCEPT ![k] = None]
    /\ UNCHANGED <<managed, diskVars, pc, opVars, pastVars>>

----------------------------------------------------------------------------
(* The end of the program.                                                 *)

Exit ==
    /\ pc = "serve"
    /\ Idle("off")
    /\ UNCHANGED <<diskVars, dbVars, countVars, pastVars>>

\* Killed: the files stay as they are.
Kill ==
    /\ pc # "off" /\ crashes < MaxCrashes
    /\ crashes' = crashes + 1
    /\ Idle("off")
    /\ UNCHANGED <<diskVars, dbVars, requests, pastVars>>

\* The power fails: files that were not synced may be lost or torn.
PowerFailure ==
    /\ crashes < MaxCrashes
    /\ crashes' = crashes + 1
    /\ blackout' = TRUE
    /\ \E harmed \in SUBSET unsynced, rest \in {None, Torn} :
          files' = [q \in Path |-> IF q \in harmed THEN rest ELSE files[q]]
    /\ unsynced' = {}
    /\ Idle("off")
    /\ UNCHANGED <<dbVars, requests, done, kept, unmarked, unremoved>>

----------------------------------------------------------------------------
InstallStep ==
    \/ \E p \in Package \cup {None} : Start(p)
    \/ KeyReused \/ KeyFound \/ KeyClash \/ KeyCreated
    \/ InstallCommits \/ InstallRefused \/ Marked \/ MarkFails

FileStep == Written \/ WriteFails \/ Undone \/ RemoveFails

HandlerStep ==
    \/ UploadStarts \/ UploadCreated \/ UploadRefused \/ UploadCommits
    \/ \E k \in KeyId : SavePath(k) \/ Delete(k)

End == Exit \/ Kill \/ PowerFailure

Next == InstallStep \/ FileStep \/ HandlerStep \/ End

Spec == Init /\ [][Next]_vars

----------------------------------------------------------------------------
(* Properties.                                                             *)

(***************************************************************************)
(* Every path in the database leads to a complete file, through failed     *)
(* and interrupted installations, uploads and their clean-up.  The one     *)
(* exception: the keys of a package, which Install does not sync, can be   *)
(* lost in a power failure.                                                *)
(***************************************************************************)
SavedKeysComplete ==
    \A k \in KeyId : db[k] # None =>
        \/ files[db[k]] \in Raw
        \/ blackout /\ db[k] \in InstallerPath

(***************************************************************************)
(* While nothing crashes and every file that is to be removed can be,      *)
(* every file the program made has been in the database: a refused         *)
(* installation or upload leaves no private key behind                     *)
(* (verification.md:18, "충돌 시 DB/키 파일 롤백": on a conflict the        *)
(* database and the key files roll back).  Nor does it leave a file that   *)
(* a later installation takes for a conflict; a crash that tears a file    *)
(* does (bundle.go:287-293), and so does one that was torn and stays.      *)
(***************************************************************************)
NoStrayFiles ==
    crashes = 0 /\ ~unremoved =>
        /\ ~Clash
        /\ pc \in {"off", "serve"} =>
              \A q \in ProgramPath : files[q] # None => q \in kept

(***************************************************************************)
(* "재실행 시 로컬 수정 보존" (verification.md:18: local changes survive   *)
(* another run of the package): a package is committed once, unless its    *)
(* marker was lost to a crash or could not be written.  And at least once: *)
(* a marker stands for a committed installation, so that one that was      *)
(* interrupted is taken up again at the next start.                        *)
(***************************************************************************)
InstalledOnce ==
    /\ [][pc = "keys" /\ pc' = "marker" /\ pkg \in done => crashes > 0 \/ unmarked]_vars
    /\ [](\A p \in Package : files[Marker(p)] # None => p \in done)

\* The content behind each key, as the user meets it.
Held == [k \in KeyId |-> IF db[k] = None THEN None ELSE files[db[k]]]

(***************************************************************************)
(* The files implement HeldKeys: a package or an upload takes effect as a  *)
(* whole or not at all, with the contents it carries.                      *)
(***************************************************************************)
Abstract == INSTANCE HeldKeys WITH held <- Held, installed <- done
HeldKeysSpec == Abstract!Spec
=============================================================================
