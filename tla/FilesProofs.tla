---------------------------- MODULE FilesProofs ----------------------------
(***************************************************************************)
(* Proofs of the properties of KeyFiles and SettingsFiles, for any keys,   *)
(* packages and texts and any bounds on requests and crashes.              *)
(***************************************************************************)
EXTENDS KeyFiles, SettingsFiles, TLAPS

\* The keys of the package that are through.
Count == Len(PackageKeys[pkg]) - Len(todo)

\* What the operation under way has, place by place.
PhaseInv ==
    /\ pc \in {"keys", "marker"} => pkg \in Package
    /\ pc \in {"off", "serve", "upload"} => pkg = None
    /\ pc \in {"off", "serve"} => todo = <<>> /\ paths = NoPaths
    /\ pc \in {"off", "serve", "marker"} => created = {}
    /\ pc = "write" => todo # <<>> /\ files[Here] = Torn

\* An installation: the keys that are through have a path with their content,
\* and there is no marker.
InstallInv ==
    pc \in {"keys", "write"} /\ pkg \in Package =>
        LET keys == PackageKeys[pkg] IN
        /\ Len(todo) <= Len(keys)
        /\ \A j \in 1..Len(todo) : todo[j] = keys[Count + j]
        /\ \A i \in 1..Count : /\ paths[keys[i].slot] # None
                               /\ files[paths[keys[i].slot]] = keys[i].raw
        /\ \A k \in KeyId : paths[k] # None => \E i \in 1..Count : keys[i].slot = k
        /\ files[Marker(pkg)] = None

\* An upload: a file that was never in the database, for one key.
UploadInv ==
    pc \in {"upload", "write"} /\ pkg = None =>
        /\ requests > 0
        /\ todo # <<>> => Len(todo) = 1 /\ paths = NoPaths
        /\ todo = <<>> => \E k \in KeyId : /\ paths[k] = UploadPath(requests)
                                           /\ \A j \in KeyId \ {k} : paths[j] = None

\* Which paths are in the database, and whose they are.
OwnerInv ==
    /\ kept \subseteq ProgramPath \cup {OwnPath}
    /\ \A k \in KeyId : db[k] # None => db[k] \in kept \cup {OwnPath}
    /\ \A k \in KeyId : paths[k] # None => paths[k] \in ProgramPath \cup {OwnPath}
    /\ \A k \in KeyId, p \in Package : \A i \in DOMAIN PackageKeys[p] :
          KeyPath(p, i) \in {db[k], paths[k]} => PackageKeys[p][i].slot = k
    /\ \A n \in 1..MaxRequests : n > requests =>
          UploadPath(n) \notin kept /\ \A k \in KeyId : paths[k] # UploadPath(n)
    /\ pkg = None /\ pc \in {"upload", "write"} => UploadPath(requests) \notin kept

\* Files that may be lost: of packages, after a power failure.
Lossy(q) == blackout /\ q \in InstallerPath

\* What is or may get into the database is complete; what may be removed or
\* harmed is not in it.
DiskInv ==
    /\ OwnPath \notin unsynced /\ files[OwnPath] \in Raw
    /\ \A q \in kept : files[q] \in Raw \/ Lossy(q)
    /\ \A q \in created \cap kept : Lossy(q)
    /\ unsynced \cap kept \subseteq InstallerPath
    /\ pc \in {"keys", "write", "upload"} =>
          \A k \in KeyId : paths[k] # None =>
              /\ files[paths[k]] \in Raw
              /\ paths[k] \in unsynced => paths[k] \in InstallerPath

\* Files that are half written, and files that are in the way, while nothing
\* has crashed.
StrayInv ==
    /\ blackout => crashes > 0
    /\ pc \in {"keys", "write", "upload"} =>
          \A q \in created : (\E k \in KeyId : paths[k] = q) \/ (pc = "write" /\ q = Here)
    /\ crashes = 0 /\ ~unremoved =>
          /\ \A q \in ProgramPath : files[q] # None => q \in kept \cup created
          /\ \A p \in Package : \A i \in DOMAIN PackageKeys[p] :
                \/ files[KeyPath(p, i)] \in {None, PackageKeys[p][i].raw}
                \/ KeyPath(p, i) \in created /\ (pc = "undo" \/ (pc = "write" /\ KeyPath(p, i) = Here))

\* Markers stand for commits, and commits for markers unless one was lost.
MarkInv ==
    /\ \A p \in Package : files[Marker(p)] # None \/ Marker(p) \in unsynced => p \in done
    /\ pc = "marker" => pkg \in done
    /\ crashes = 0 /\ ~unmarked =>
          \A p \in done : files[Marker(p)] # None \/ (pc = "marker" /\ pkg = p)

Inv ==
    /\ TypeOK /\ PhaseInv /\ InstallInv /\ UploadInv
    /\ OwnerInv /\ DiskInv /\ StrayInv /\ MarkInv
----------------------------------------------------------------------------
(* Facts about paths.                                                      *)

\* The keys of a package are sequences of keys with their contents.
LEMMA Carries ==
    ASSUME NEW p \in Package
    PROVE  /\ PackageKeys[p] \in Seq([slot : KeyId, raw : Raw])
           /\ Len(PackageKeys[p]) \in Nat
           /\ DOMAIN PackageKeys[p] = 1..Len(PackageKeys[p])
           /\ \A i \in 1..Len(PackageKeys[p]) :
                 PackageKeys[p][i] \in [slot : KeyId, raw : Raw]
<1> DEFINE keys == PackageKeys[p]
<1> DEFINE KeyRec == [slot : KeyId, raw : Raw]
<1>1. keys \in Seq(KeyRec)
  BY FilesAssumption
<1> HIDE DEF keys, KeyRec
<1>2. Len(keys) \in Nat /\ DOMAIN keys = 1..Len(keys)
  BY <1>1
<1>3. \A i \in 1..Len(keys) : keys[i] \in KeyRec
  BY <1>1
<1> QED
  BY <1>1, <1>2, <1>3 DEF keys, KeyRec

\* The kinds of paths are apart, and every path is one of them.
LEMMA PathsApart ==
    /\ \A p \in Package : \A i \in DOMAIN PackageKeys[p] :
          KeyPath(p, i) \in InstallerPath /\ KeyPath(p, i) # OwnPath
    /\ \A q \in InstallerPath : \E p \in Package : \E i \in DOMAIN PackageKeys[p] : q = KeyPath(p, i)
    /\ \A p, r \in Package : \A i \in DOMAIN PackageKeys[p], j \in DOMAIN PackageKeys[r] :
          KeyPath(p, i) = KeyPath(r, j) => p = r /\ i = j
    /\ \A p, r \in Package : Marker(p) = Marker(r) => p = r
    /\ \A p \in Package : Marker(p) \in Path /\ Marker(p) \notin ProgramPath \cup {OwnPath}
    /\ \A n \in 1..MaxRequests : UploadPath(n) \in ProgramPath \ InstallerPath
    /\ \A n, m \in Nat : UploadPath(n) = UploadPath(m) => n = m
    /\ OwnPath \in Path /\ OwnPath \notin ProgramPath
    /\ InstallerPath \subseteq ProgramPath /\ ProgramPath \subseteq Path
    /\ None \notin Path
<1> USE PathAssumption, FilesAssumption DEF KeyPath, Marker, UploadPath, OwnPath
<1>1. \A p \in Package : \A i \in DOMAIN PackageKeys[p] :
         /\ KeyPath(p, i) \in InstallerPath /\ KeyPath(p, i) # OwnPath
         /\ i # 0
  BY Carries DEF InstallerPath
<1>2. \A q \in InstallerPath : \E p \in Package : \E i \in DOMAIN PackageKeys[p] : q = KeyPath(p, i)
  BY DEF InstallerPath
<1>3. InstallerPath \subseteq ProgramPath /\ ProgramPath \subseteq Path
  BY DEF ProgramPath, Path
<1>4. \A n \in 1..MaxRequests : UploadPath(n) \in ProgramPath \ InstallerPath
  BY <1>2 DEF ProgramPath
<1>5. OwnPath \in Path /\ OwnPath \notin ProgramPath
  BY <1>1, <1>2 DEF ProgramPath, Path
<1>6. \A p \in Package : Marker(p) \in Path /\ Marker(p) \notin ProgramPath \cup {OwnPath}
  <2> SUFFICES ASSUME NEW p \in Package
               PROVE  Marker(p) \in Path /\ Marker(p) \notin ProgramPath \cup {OwnPath}
    OBVIOUS
  <2>1. Marker(p) \in Path
    BY DEF Path
  <2>2. Marker(p) \notin InstallerPath
    BY <1>1, <1>2
  <2> QED
    BY <2>1, <2>2 DEF ProgramPath
<1> QED
  BY <1>1, <1>2, <1>3, <1>4, <1>5, <1>6

\* The next key of an installation, and where it goes.
LEMMA NextKey ==
    ASSUME TypeOK, InstallInv, pc \in {"keys", "write"}, pkg \in Package, todo # <<>>
    PROVE  /\ Count \in Nat /\ Count + 1 \in DOMAIN PackageKeys[pkg]
           /\ Head(todo) = PackageKeys[pkg][Count + 1]
           /\ Head(todo).slot \in KeyId /\ Head(todo).raw \in Raw
           /\ Here = KeyPath(pkg, Count + 1)
           /\ Here \in InstallerPath
           /\ paths[Head(todo).slot] = None
<1>1. Len(todo) \in Nat /\ Len(todo) > 0 /\ Head(todo) = todo[1]
  BY DEF TypeOK
<1>2. Count \in Nat /\ Count + 1 \in 1..Len(PackageKeys[pkg])
  BY <1>1, Carries DEF InstallInv, Count
<1>3. Head(todo) = PackageKeys[pkg][Count + 1]
  BY <1>1 DEF InstallInv
<1>4. Here = KeyPath(pkg, Count + 1)
  BY FilesAssumption DEF Here, Count
<1>5. paths[Head(todo).slot] = None
  <2>1. SUFFICES ASSUME paths[Head(todo).slot] # None
                 PROVE  FALSE
    OBVIOUS
  <2>2. Head(todo).slot \in KeyId
    BY <1>2, <1>3, Carries
  <2>3. PICK i \in 1..Count : PackageKeys[pkg][i].slot = Head(todo).slot
    BY <2>1, <2>2 DEF InstallInv
  <2>4. i \in DOMAIN PackageKeys[pkg] /\ Count + 1 \in DOMAIN PackageKeys[pkg] /\ i # Count + 1
    BY <1>2, <2>3, Carries
  <2> QED
    BY <1>3, <2>3, <2>4, PackageAssumption
<1> QED
  BY <1>2, <1>3, <1>4, <1>5, Carries, PathsApart

\* The path of an upload.
LEMMA UploadHere ==
    ASSUME TypeOK, UploadInv, pc \in {"upload", "write"}, pkg = None
    PROVE  Here = UploadPath(requests) /\ requests \in 1..MaxRequests /\ Here \in ProgramPath
<1>1. requests \in 1..MaxRequests
  BY FilesAssumption DEF TypeOK, UploadInv
<1> QED
  BY <1>1, PathsApart DEF Here
----------------------------------------------------------------------------
(* Steps that end or fail.                                                 *)

\* A failure only changes the place.
LEMMA FailStep ==
    ASSUME Inv, pc # "marker", Fail, UNCHANGED <<diskVars, dbVars, countVars, pastVars>>
    PROVE  Inv'
<1> USE DEF Inv, Fail, diskVars, dbVars, opVars, countVars, pastVars
<1>1. TypeOK'
  BY DEF TypeOK
<1>2. PhaseInv' /\ InstallInv' /\ UploadInv'
  BY DEF PhaseInv, InstallInv, UploadInv
<1>3. OwnerInv'
  BY DEF OwnerInv
<1>4. DiskInv'
  BY DEF DiskInv, Lossy
<1>5. StrayInv'
  BY DEF StrayInv, Here
<1>6. MarkInv'
  BY DEF MarkInv, PhaseInv
<1> QED
  BY <1>1, <1>2, <1>3, <1>4, <1>5, <1>6

\* An operation that ends has no file left to remove and no marker to write,
\* or crashes.
LEMMA IdleStep ==
    ASSUME Inv, NEW where \in {"off", "serve"}, Idle(where),
           UNCHANGED <<diskVars, dbVars, requests, done, kept, blackout>>,
           crashes' \in 0..MaxCrashes, crashes' = crashes \/ crashes' > 0,
           unmarked' \in BOOLEAN, unmarked => unmarked', unremoved' = unremoved,
           (created = {} /\ (pc # "marker" \/ unmarked')) \/ crashes' > 0
    PROVE  Inv'
<1> USE DEF Inv, Idle, diskVars, dbVars, pastVars
<1>1. TypeOK'
  BY DEF TypeOK, NoPaths
<1>2. PhaseInv' /\ InstallInv' /\ UploadInv'
  BY DEF PhaseInv, InstallInv, UploadInv
<1>3. OwnerInv'
  BY PathsApart DEF OwnerInv, NoPaths, TypeOK, Path
<1>4. DiskInv'
  BY DEF DiskInv, Lossy
<1>5. StrayInv'
  BY DEF StrayInv, TypeOK
<1>6. MarkInv'
  BY DEF MarkInv, TypeOK
<1> QED
  BY <1>1, <1>2, <1>3, <1>4, <1>5, <1>6

\* The power fails.
LEMMA PowerStep ==
    ASSUME Inv, PowerFailure
    PROVE  Inv'
<1> USE DEF Inv, PowerFailure, Idle, dbVars
<1>1. PICK harmed \in SUBSET unsynced, rest \in {None, Torn} :
         files' = [q \in Path |-> IF q \in harmed THEN rest ELSE files[q]]
  OBVIOUS
<1>2. TypeOK'
  BY <1>1, FilesAssumption DEF TypeOK, NoPaths
<1>3. PhaseInv' /\ InstallInv' /\ UploadInv'
  BY DEF PhaseInv, InstallInv, UploadInv
<1>4. OwnerInv'
  BY PathsApart DEF OwnerInv, NoPaths, TypeOK, Path
<1>5. DiskInv'
  BY <1>1, PathsApart DEF DiskInv, OwnerInv, Lossy, TypeOK
<1>6. StrayInv'
  BY FilesAssumption DEF StrayInv, TypeOK
<1>7. MarkInv'
  BY <1>1, PathsApart, FilesAssumption DEF MarkInv, TypeOK
<1> QED
  BY <1>2, <1>3, <1>4, <1>5, <1>6, <1>7

----------------------------------------------------------------------------
(* Steps of an installation.                                               *)

\* A package is taken up.
LEMMA InstallStarts ==
    ASSUME Inv, NEW p \in Package, Start(p), ~NothingToInstall(p)
    PROVE  Inv'
<1> USE DEF Inv, Start, diskVars, dbVars, countVars, pastVars
<1>1. TypeOK'
  BY Carries DEF TypeOK
<1>2. PhaseInv'
  BY FilesAssumption DEF PhaseInv
<1>3. InstallInv'
  <2>1. files'[Marker(p)] = None
    BY DEF NothingToInstall
  <2>2. paths' = NoPaths /\ pkg' = p /\ todo' = PackageKeys[p] /\ Count' = 0
    BY Carries DEF PhaseInv, Count
  <2> QED
    BY <2>1, <2>2, Carries DEF InstallInv, NoPaths
<1>4. UploadInv'
  BY FilesAssumption DEF UploadInv
<1>5. OwnerInv'
  BY FilesAssumption DEF OwnerInv
<1>6. DiskInv'
  BY DEF DiskInv, Lossy, PhaseInv, NoPaths
<1>7. StrayInv'
  BY DEF StrayInv, PhaseInv
<1>8. MarkInv'
  BY DEF MarkInv
<1> QED
  BY <1>1, <1>2, <1>3, <1>4, <1>5, <1>6, <1>7, <1>8

\* The next key of the package gets a path with its content.
LEMMA ChosenInstall ==
    ASSUME Inv, pc \in {"keys", "write"}, pkg \in Package, todo # <<>>,
           NEW q \in Path, Chosen(q), pc' = "keys", pkg' = pkg,
           files'[q] = Head(todo).raw,
           \A r \in Path : files[r] \in Raw => files'[r] = files[r],
           files'[Marker(pkg)] = files[Marker(pkg)]
    PROVE  /\ InstallInv'
           /\ todo' \in Seq([slot : KeyId, raw : Raw])
           /\ paths' \in [KeyId -> Path \cup {None}]
           /\ Head(todo).slot \in KeyId
           /\ \A k \in KeyId : paths'[k] = IF k = Head(todo).slot THEN q ELSE paths[k]
           /\ \A k \in KeyId : paths[k] # None => paths'[k] = paths[k]
<1> DEFINE keys == PackageKeys[pkg]
<1> DEFINE KeyRec == [slot : KeyId, raw : Raw]
<1>1. /\ Count \in Nat /\ Count + 1 \in DOMAIN keys
      /\ Head(todo) = keys[Count + 1]
      /\ Head(todo).slot \in KeyId
      /\ paths[Head(todo).slot] = None
  BY NextKey DEF Inv
<1>2. /\ todo \in Seq(KeyRec) /\ todo' = Tail(todo)
      /\ Len(keys) \in Nat /\ DOMAIN keys = 1..Len(keys)
      /\ \A i \in 1..Len(keys) : keys[i] \in KeyRec
  BY Carries DEF Inv, TypeOK, Chosen
<1>3. /\ todo' \in Seq(KeyRec) /\ Len(todo') = Len(todo) - 1 /\ Len(todo) \in Nat
      /\ \A j \in 1..Len(todo') : todo'[j] = todo[j + 1]
  <2> HIDE DEF KeyRec
  <2> QED
    BY <1>2
<1>4. Count' = Count + 1
  BY <1>2, <1>3 DEF Count
<1>5. /\ paths' \in [KeyId -> Path \cup {None}]
      /\ paths'[Head(todo).slot] = q
      /\ \A k \in KeyId : k # Head(todo).slot => paths'[k] = paths[k]
  BY <1>1 DEF Inv, TypeOK, Chosen
<1>6. \A j \in 1..Len(todo') : todo'[j] = keys[Count' + j]
  <2> SUFFICES ASSUME NEW j \in 1..Len(todo')
               PROVE  todo'[j] = keys[Count' + j]
    OBVIOUS
  <2>1. j + 1 \in 1..Len(todo)
    BY <1>3
  <2>2. todo[j + 1] = keys[Count + (j + 1)]
    BY <2>1 DEF Inv, InstallInv
  <2>3. Count + (j + 1) = Count' + j
    BY <1>1, <1>4
  <2> QED
    BY <1>3, <2>2, <2>3
<1>7. \A i \in 1..Count' : paths'[keys[i].slot] # None /\ files'[paths'[keys[i].slot]] = keys[i].raw
  <2> SUFFICES ASSUME NEW i \in 1..Count'
               PROVE  paths'[keys[i].slot] # None /\ files'[paths'[keys[i].slot]] = keys[i].raw
    OBVIOUS
  <2>1. CASE i = Count + 1
    BY <1>1, <1>5, <2>1, PathsApart
  <2>2. CASE i # Count + 1
    <3>1. i \in 1..Count /\ i \in DOMAIN keys /\ keys[i].slot \in KeyId /\ keys[i].raw \in Raw
      BY <1>1, <1>2, <1>4, <2>2
    <3>2. keys[i].slot # Head(todo).slot
      BY <1>1, <2>2, <3>1, PackageAssumption
    <3>3. paths'[keys[i].slot] = paths[keys[i].slot]
      BY <1>5, <3>1, <3>2
    <3>4. paths[keys[i].slot] # None /\ files[paths[keys[i].slot]] = keys[i].raw
      BY <3>1 DEF Inv, InstallInv
    <3>5. paths[keys[i].slot] \in Path
      BY <3>1, <3>4 DEF Inv, TypeOK
    <3> QED
      BY <3>1, <3>3, <3>4, <3>5
  <2> QED
    BY <2>1, <2>2
<1>8. ASSUME NEW k \in KeyId, paths'[k] # None
      PROVE  \E i \in 1..Count' : keys[i].slot = k
  <2>1. CASE k = Head(todo).slot
    BY <1>1, <1>4, <2>1
  <2>2. CASE k # Head(todo).slot
    <3>1. PICK i \in 1..Count : keys[i].slot = k
      BY <1>5, <1>8, <2>2 DEF Inv, InstallInv
    <3>2. i \in 1..Count'
      BY <1>1, <1>4
    <3> QED
      BY <3>1, <3>2
  <2> QED
    BY <2>1, <2>2
<1>9. Len(todo') <= Len(keys) /\ files'[Marker(pkg)] = None
  BY <1>2, <1>3 DEF Inv, InstallInv
<1>10. InstallInv'
  <2> HIDE DEF keys
  <2>1. keys = PackageKeys[pkg'] /\ Marker(pkg') = Marker(pkg)
    BY DEF keys
  <2> QED
    BY <1>6, <1>7, <1>8, <1>9, <2>1 DEF InstallInv
<1> QED
  BY <1>1, <1>3, <1>5, <1>10 DEF KeyRec

\* A file that has the content already is chosen.
LEMMA ReuseStep ==
    ASSUME Inv, KeyReused \/ KeyFound
    PROVE  Inv'
<1> USE DEF Inv
<1> DEFINE q == IF Reusable THEN db[Head(todo).slot] ELSE Here
<1> DEFINE slot == Head(todo).slot
<1>1. /\ pc = "keys" /\ pkg \in Package /\ todo # <<>>
      /\ UNCHANGED <<pc, pkg, created, diskVars, dbVars, countVars, pastVars>>
      /\ files[q] = Head(todo).raw /\ Chosen(q)
  BY DEF KeyReused, KeyFound, Installing, Reusable, PhaseInv
<1>2. /\ slot \in KeyId /\ Head(todo).raw \in Raw /\ paths[slot] = None
      /\ Head(todo) = PackageKeys[pkg][Count + 1] /\ Count + 1 \in DOMAIN PackageKeys[pkg]
      /\ Here = KeyPath(pkg, Count + 1) /\ Here \in InstallerPath
  BY <1>1, NextKey
<1>3. /\ q \in InstallerPath \cup kept \cup {OwnPath}
      /\ ~Reusable => q = KeyPath(pkg, Count + 1)
      /\ Reusable => q = db[slot] /\ db[slot] # None
  BY <1>2 DEF OwnerInv, Reusable
<1>4. q \in Path /\ q \in ProgramPath \cup {OwnPath} /\ q # None
  BY <1>3, PathsApart DEF OwnerInv
<1> HIDE DEF q
<1>5. /\ InstallInv'
      /\ todo' \in Seq([slot : KeyId, raw : Raw])
      /\ paths' \in [KeyId -> Path \cup {None}]
      /\ \A k \in KeyId : paths'[k] = IF k = slot THEN q ELSE paths[k]
      /\ \A k \in KeyId : paths[k] # None => paths'[k] = paths[k]
  BY <1>1, <1>4, ChosenInstall DEF diskVars
<1> USE DEF diskVars, dbVars, countVars, pastVars
<1>6. TypeOK'
  BY <1>1, <1>5 DEF TypeOK
<1>7. PhaseInv' /\ UploadInv'
  BY <1>1, FilesAssumption DEF PhaseInv, UploadInv
<1>8. OwnerInv'
  <2>1. ASSUME NEW k \in KeyId, NEW p \in Package, NEW i \in DOMAIN PackageKeys[p],
               KeyPath(p, i) = paths'[k]
        PROVE  PackageKeys[p][i].slot = k
    <3>1. CASE k # slot
      BY <1>5, <2>1, <3>1 DEF OwnerInv
    <3>2. CASE k = slot /\ Reusable
      BY <1>2, <1>3, <1>5, <2>1, <3>2 DEF OwnerInv
    <3>3. CASE k = slot /\ ~Reusable
      <4>1. KeyPath(p, i) = KeyPath(pkg, Count + 1)
        BY <1>2, <1>3, <1>5, <2>1, <3>3
      <4>2. p = pkg /\ i = Count + 1
        BY <1>1, <1>2, <4>1, PathsApart
      <4> QED
        BY <1>2, <3>3, <4>2
    <3> QED
      BY <3>1, <3>2, <3>3
  <2>2. \A k \in KeyId : paths'[k] # None => paths'[k] \in ProgramPath \cup {OwnPath}
    BY <1>4, <1>5 DEF OwnerInv
  <2>3. \A n \in 1..MaxRequests : n > requests => \A k \in KeyId : paths'[k] # UploadPath(n)
    BY <1>3, <1>5, PathsApart DEF OwnerInv
  <2> QED
    BY <1>1, <2>1, <2>2, <2>3 DEF OwnerInv
<1>9. DiskInv'
  <2>1. q \in unsynced => q \in InstallerPath
    BY <1>3 DEF DiskInv
  <2> QED
    BY <1>1, <1>2, <1>5, <2>1 DEF DiskInv, Lossy
<1>10. StrayInv'
  BY <1>1, <1>5, PathsApart DEF StrayInv, TypeOK
<1>11. MarkInv'
  BY <1>1 DEF MarkInv
<1> QED
  BY <1>5, <1>6, <1>7, <1>8, <1>9, <1>10, <1>11

----------------------------------------------------------------------------
(* Steps that create, write and remove files.                              *)

\* A file is created where there is none, or none that was ever saved.
LEMMA CreateStep ==
    ASSUME Inv, pc \in {"keys", "upload"}, todo # <<>>, Here \in ProgramPath,
           Here \in kept => Lossy(Here),
           \A k \in KeyId : paths[k] # Here,
           Create(Here), pc' = "write",
           UNCHANGED <<pkg, todo, paths, dbVars, countVars, pastVars>>
    PROVE  Inv'
<1> USE DEF Inv, Create, dbVars, countVars, pastVars
<1>1. Here' = Here /\ Here \in Path /\ Here # OwnPath /\ \A p \in Package : Marker(p) # Here
  BY PathsApart DEF Here
<1>2. /\ files'[Here] = Torn
      /\ \A r \in Path : r # Here => files'[r] = files[r]
      /\ unsynced' = unsynced \cup {Here} /\ created' = created \cup {Here}
  BY <1>1 DEF TypeOK
<1>3. TypeOK'
  BY <1>1 DEF TypeOK
<1>4. PhaseInv' /\ UploadInv'
  BY <1>1, <1>2, FilesAssumption DEF PhaseInv, UploadInv
<1>5. \A k \in KeyId : paths[k] # None => paths[k] \in Path /\ files'[paths[k]] = files[paths[k]]
  BY <1>2 DEF TypeOK
<1>6. InstallInv'
  <2> SUFFICES ASSUME pkg \in Package
               PROVE  InstallInv'
    BY DEF InstallInv
  <2>1. pc = "keys"
    BY FilesAssumption DEF PhaseInv
  <2>2. Count' = Count /\ Count \in 0..Len(PackageKeys[pkg])
    BY <2>1, NextKey, Carries DEF Count
  <2>3. \A i \in 1..Count : PackageKeys[pkg][i].slot \in KeyId
    BY <2>2, Carries
  <2>4. files'[Marker(pkg)] = None
    BY <1>1, <1>2, <2>1, PathsApart DEF InstallInv
  <2> QED
    BY <1>5, <2>1, <2>2, <2>3, <2>4 DEF InstallInv
<1>7. OwnerInv'
  BY FilesAssumption DEF OwnerInv, PhaseInv
<1>8. DiskInv'
  <2>1. OwnPath \notin unsynced' /\ files'[OwnPath] \in Raw
    BY <1>1, <1>2, PathsApart DEF DiskInv
  <2>2. \A r \in kept : files'[r] \in Raw \/ Lossy(r)
    BY <1>2, PathsApart DEF DiskInv, OwnerInv
  <2>3. \A r \in created' \cap kept : Lossy(r)
    BY <1>2 DEF DiskInv
  <2>4. unsynced' \cap kept \subseteq InstallerPath
    BY <1>2 DEF DiskInv, Lossy
  <2>5. \A k \in KeyId : paths[k] # None =>
           files'[paths[k]] \in Raw /\ (paths[k] \in unsynced' => paths[k] \in InstallerPath)
    BY <1>2, <1>5 DEF DiskInv
  <2> QED
    BY <2>1, <2>2, <2>3, <2>4, <2>5 DEF DiskInv, Lossy
<1>9. StrayInv'
  <2>1. \A r \in created' : (\E k \in KeyId : paths[k] = r) \/ r = Here
    BY <1>2 DEF StrayInv
  <2>2. ASSUME crashes = 0, ~unremoved
        PROVE  /\ \A r \in ProgramPath : files'[r] # None => r \in kept \cup created'
               /\ \A p \in Package : \A i \in DOMAIN PackageKeys[p] :
                     \/ files'[KeyPath(p, i)] \in {None, PackageKeys[p][i].raw}
                     \/ KeyPath(p, i) \in created' /\ KeyPath(p, i) = Here
    BY <1>2, <2>2, PathsApart DEF StrayInv
  <2> QED
    BY <1>1, <2>1, <2>2 DEF StrayInv
<1>10. MarkInv'
  BY <1>1, <1>2, PathsApart DEF MarkInv, TypeOK
<1> QED
  BY <1>3, <1>4, <1>6, <1>7, <1>8, <1>9, <1>10

\* Of an installation, and of an upload.
LEMMA CreateSteps ==
    ASSUME Inv, KeyCreated \/ UploadCreated
    PROVE  Inv'
<1> USE DEF Inv
<1>1. CASE KeyCreated
  <2>1. pc = "keys" /\ pkg \in Package /\ todo # <<>> /\ files[Here] = None
    BY <1>1 DEF KeyCreated, Installing, PhaseInv
  <2>2. Here \in InstallerPath /\ Here \in ProgramPath
    BY <2>1, NextKey, PathsApart
  <2>3. Here \in kept => Lossy(Here)
    BY <2>1, FilesAssumption DEF DiskInv
  <2>4. \A k \in KeyId : paths[k] # Here
    BY <2>1, <2>2, FilesAssumption, PathsApart DEF DiskInv
  <2> QED
    BY <1>1, <2>1, <2>2, <2>3, <2>4, CreateStep DEF KeyCreated
<1>2. CASE UploadCreated
  <2>1. pc = "upload" /\ pkg = None /\ todo # <<>>
    BY <1>2 DEF UploadCreated, PhaseInv
  <2>2. Here = UploadPath(requests) /\ requests \in 1..MaxRequests /\ Here \in ProgramPath
    BY <2>1, UploadHere
  <2>3. Here \notin kept
    BY <2>1, <2>2 DEF OwnerInv
  <2>4. \A k \in KeyId : paths[k] # Here
    BY <2>1, <2>2, PathsApart DEF UploadInv, NoPaths
  <2> QED
    BY <1>2, <2>1, <2>2, <2>3, <2>4, CreateStep DEF UploadCreated
<1> QED
  BY <1>1, <1>2

\* The content is written: of a key of a package.
LEMMA WrittenInstall ==
    ASSUME Inv, Written, pkg \in Package
    PROVE  Inv'
<1> USE DEF Inv
<1> DEFINE slot == Head(todo).slot
<1>1. /\ pc = "write" /\ pc' = "keys" /\ todo # <<>> /\ files[Here] = Torn /\ Chosen(Here)
      /\ files' = [files EXCEPT ![Here] = Head(todo).raw] /\ unsynced' = unsynced
      /\ UNCHANGED <<pkg, created, dbVars, countVars, pastVars>>
  BY FilesAssumption DEF Written, PhaseInv, StillUnsynced
<1>2. /\ slot \in KeyId /\ Head(todo).raw \in Raw /\ paths[slot] = None
      /\ Head(todo) = PackageKeys[pkg][Count + 1] /\ Count + 1 \in DOMAIN PackageKeys[pkg]
      /\ Here = KeyPath(pkg, Count + 1) /\ Here \in InstallerPath
  BY <1>1, NextKey
<1>3. /\ Here \in Path /\ Here \in ProgramPath /\ Here # None /\ Here # OwnPath
      /\ \A p \in Package : Marker(p) # Here
  BY <1>2, PathsApart
<1>4. /\ files'[Here] = Head(todo).raw
      /\ \A r \in Path : r # Here => files'[r] = files[r]
      /\ \A r \in Path : files[r] \in Raw => files'[r] = files[r]
      /\ \A p \in Package : files'[Marker(p)] = files[Marker(p)]
  BY <1>1, <1>3, FilesAssumption, PathsApart DEF TypeOK
<1>5. /\ InstallInv'
      /\ todo' \in Seq([slot : KeyId, raw : Raw])
      /\ paths' \in [KeyId -> Path \cup {None}]
      /\ \A k \in KeyId : paths'[k] = IF k = slot THEN Here ELSE paths[k]
      /\ \A k \in KeyId : paths[k] # None => paths'[k] = paths[k]
  BY <1>1, <1>3, <1>4, ChosenInstall
<1> USE DEF dbVars, countVars, pastVars
<1>6. TypeOK'
  BY <1>1, <1>2, <1>3, <1>5 DEF TypeOK
<1>7. PhaseInv' /\ UploadInv'
  BY <1>1, FilesAssumption DEF PhaseInv, UploadInv
<1>8. OwnerInv'
  <2>1. ASSUME NEW k \in KeyId, NEW p \in Package, NEW i \in DOMAIN PackageKeys[p],
               KeyPath(p, i) = paths'[k]
        PROVE  PackageKeys[p][i].slot = k
    <3>1. CASE k # slot
      BY <1>5, <2>1, <3>1 DEF OwnerInv
    <3>2. CASE k = slot
      <4>1. p = pkg /\ i = Count + 1
        BY <1>2, <1>5, <2>1, <3>2, PathsApart
      <4> QED
        BY <1>2, <3>2, <4>1
    <3> QED
      BY <3>1, <3>2
  <2>2. \A k \in KeyId : paths'[k] # None => paths'[k] \in ProgramPath \cup {OwnPath}
    BY <1>3, <1>5 DEF OwnerInv
  <2>3. \A n \in 1..MaxRequests : n > requests => \A k \in KeyId : paths'[k] # UploadPath(n)
    BY <1>2, <1>5, PathsApart DEF OwnerInv
  <2> QED
    BY <1>1, <2>1, <2>2, <2>3, FilesAssumption DEF OwnerInv
<1>9. DiskInv'
  <2>1. \A r \in kept : files'[r] \in Raw \/ Lossy(r)
    BY <1>2, <1>4, PathsApart DEF DiskInv, OwnerInv
  <2>2. ASSUME NEW k \in KeyId, paths'[k] # None
        PROVE  files'[paths'[k]] \in Raw /\ (paths'[k] \in unsynced => paths'[k] \in InstallerPath)
    <3>1. CASE k = slot
      BY <1>2, <1>4, <1>5, <3>1
    <3>2. CASE k # slot
      BY <1>1, <1>4, <1>5, <2>2, <3>2 DEF DiskInv, TypeOK
    <3> QED
      BY <3>1, <3>2
  <2> QED
    BY <1>1, <1>3, <1>4, <2>1, <2>2, PathsApart DEF DiskInv, Lossy
<1>10. StrayInv'
  <2>1. \A r \in created : \E k \in KeyId : paths'[k] = r
    <3> SUFFICES ASSUME NEW r \in created
                 PROVE  \E k \in KeyId : paths'[k] = r
      OBVIOUS
    <3>1. CASE r = Here
      BY <1>2, <1>5, <3>1
    <3>2. CASE r # Here
      <4>1. PICK k \in KeyId : paths[k] = r
        BY <1>1, <3>2 DEF StrayInv
      <4>2. r # None
        BY PathsApart DEF TypeOK
      <4> QED
        BY <1>5, <4>1, <4>2
    <3> QED
      BY <3>1, <3>2
  <2>2. ASSUME crashes = 0, ~unremoved
        PROVE  /\ \A r \in ProgramPath : files'[r] # None => r \in kept \cup created
               /\ \A p \in Package : \A i \in DOMAIN PackageKeys[p] :
                     files'[KeyPath(p, i)] \in {None, PackageKeys[p][i].raw}
    <3>1. \A r \in ProgramPath : files'[r] # None => r \in kept \cup created
      BY <1>1, <1>3, <1>4, <2>2, FilesAssumption, PathsApart DEF StrayInv
    <3>2. ASSUME NEW p \in Package, NEW i \in DOMAIN PackageKeys[p]
          PROVE  files'[KeyPath(p, i)] \in {None, PackageKeys[p][i].raw}
      <4>1. CASE KeyPath(p, i) = Here
        <5>1. p = pkg /\ i = Count + 1
          BY <1>2, <4>1, PathsApart
        <5> QED
          BY <1>2, <1>4, <4>1, <5>1
      <4>2. CASE KeyPath(p, i) # Here
        <5>1. files'[KeyPath(p, i)] = files[KeyPath(p, i)]
          BY <1>4, <4>2, PathsApart
        <5> QED
          BY <1>1, <2>2, <4>2, <5>1 DEF StrayInv
      <4> QED
        BY <4>1, <4>2
    <3> QED
      BY <3>1, <3>2
  <2> QED
    BY <1>1, <2>1, <2>2 DEF StrayInv
<1>11. MarkInv'
  BY <1>1, <1>4 DEF MarkInv, TypeOK
<1> QED
  BY <1>5, <1>6, <1>7, <1>8, <1>9, <1>10, <1>11

\* The content is written: of an upload.
LEMMA WrittenUpload ==
    ASSUME Inv, Written, pkg = None
    PROVE  Inv'
<1> USE DEF Inv
<1> DEFINE slot == Head(todo).slot
<1> DEFINE KeyRec == [slot : KeyId, raw : Raw]
<1>1. /\ pc = "write" /\ pc' = "upload" /\ todo # <<>> /\ files[Here] = Torn
      /\ paths = NoPaths /\ Len(todo) = 1
      /\ paths' = [paths EXCEPT ![slot] = Here] /\ todo' = Tail(todo)
      /\ files' = [files EXCEPT ![Here] = Head(todo).raw] /\ unsynced' = unsynced \ {Here}
      /\ UNCHANGED <<pkg, created, dbVars, countVars, pastVars>>
  BY FilesAssumption DEF Written, PhaseInv, UploadInv, StillUnsynced, Chosen
<1>2. /\ Here = UploadPath(requests) /\ requests \in 1..MaxRequests /\ Here \in ProgramPath
      /\ Here \notin InstallerPath /\ Here \in Path /\ Here # None /\ Here # OwnPath
      /\ \A p \in Package : Marker(p) # Here
  BY <1>1, UploadHere, PathsApart
<1>3. slot \in KeyId /\ Head(todo).raw \in Raw /\ todo' = <<>>
  <2>1. todo \in Seq(KeyRec)
    BY DEF TypeOK
  <2>2. Head(todo) \in KeyRec /\ todo' = <<>>
    <3> HIDE DEF KeyRec
    <3> QED
      BY <1>1, <2>1
  <2> QED
    BY <2>2
<1>4. /\ files'[Here] = Head(todo).raw
      /\ \A r \in Path : r # Here => files'[r] = files[r]
      /\ \A p \in Package : files'[Marker(p)] = files[Marker(p)]
  BY <1>1, <1>2, PathsApart DEF TypeOK
<1>5. \A k \in KeyId : paths'[k] = IF k = slot THEN Here ELSE None
  BY <1>1, <1>3 DEF NoPaths
<1> USE DEF dbVars, countVars, pastVars
<1>6. TypeOK'
  BY <1>1, <1>2, <1>3 DEF TypeOK
<1>7. PhaseInv' /\ InstallInv'
  BY <1>1, FilesAssumption DEF PhaseInv, InstallInv
<1>8. UploadInv'
  BY <1>1, <1>2, <1>3, <1>5 DEF UploadInv
<1>9. OwnerInv'
  <2>1. \A k \in KeyId : paths'[k] # None => paths'[k] \in ProgramPath \cup {OwnPath}
    BY <1>2, <1>5
  <2>2. \A k \in KeyId, p \in Package : \A i \in DOMAIN PackageKeys[p] : KeyPath(p, i) # paths'[k]
    BY <1>2, <1>5, PathsApart
  <2>3. \A n \in 1..MaxRequests : n > requests => \A k \in KeyId : paths'[k] # UploadPath(n)
    <3> SUFFICES ASSUME NEW n \in 1..MaxRequests, n > requests
                 PROVE  UploadPath(n) # Here /\ UploadPath(n) # None
      BY <1>5
    <3>1. n \in Nat /\ requests \in Nat /\ n # requests
      BY <1>2
    <3> QED
      BY <1>2, <3>1, PathsApart
  <2> QED
    BY <1>1, <2>1, <2>2, <2>3 DEF OwnerInv
<1>10. DiskInv'
  <2>1. Here \notin kept
    BY <1>1, <1>2 DEF OwnerInv
  <2>2. \A r \in kept : files'[r] \in Raw \/ Lossy(r)
    BY <1>4, <2>1, PathsApart DEF DiskInv, OwnerInv
  <2>3. \A k \in KeyId : paths'[k] # None => files'[paths'[k]] \in Raw /\ paths'[k] \notin unsynced'
    BY <1>1, <1>3, <1>4, <1>5
  <2> QED
    BY <1>1, <1>2, <1>4, <2>2, <2>3, PathsApart DEF DiskInv, Lossy
<1>11. StrayInv'
  <2>1. \A r \in created : \E k \in KeyId : paths'[k] = r
    BY <1>1, <1>3, <1>5, PathsApart DEF StrayInv, NoPaths, TypeOK
  <2>2. ASSUME crashes = 0, ~unremoved
        PROVE  /\ \A r \in ProgramPath : files'[r] # None => r \in kept \cup created
               /\ \A p \in Package : \A i \in DOMAIN PackageKeys[p] :
                     files'[KeyPath(p, i)] \in {None, PackageKeys[p][i].raw}
    <3>1. \A r \in ProgramPath : files'[r] # None => r \in kept \cup created
      BY <1>1, <1>2, <1>4, <2>2, FilesAssumption, PathsApart DEF StrayInv
    <3>2. \A p \in Package : \A i \in DOMAIN PackageKeys[p] :
             files'[KeyPath(p, i)] \in {None, PackageKeys[p][i].raw}
      BY <1>1, <1>2, <1>4, <2>2, PathsApart DEF StrayInv
    <3> QED
      BY <3>1, <3>2
  <2> QED
    BY <1>1, <2>1, <2>2 DEF StrayInv
<1>12. MarkInv'
  BY <1>1, <1>4 DEF MarkInv, TypeOK
<1> QED
  BY <1>6, <1>7, <1>8, <1>9, <1>10, <1>11, <1>12

\* A created file is removed.
LEMMA RemoveStep ==
    ASSUME Inv, Undone, created # {}
    PROVE  Inv'
<1> USE DEF Inv, dbVars, countVars, pastVars
<1>1. PICK q \in created : /\ files' = [files EXCEPT ![q] = None]
                           /\ unsynced' = unsynced \ {q}
                           /\ created' = created \ {q}
                           /\ UNCHANGED <<pc, pkg, todo, paths>>
  BY DEF Undone
<1>2. pc = "undo" /\ UNCHANGED <<dbVars, countVars, pastVars>>
  BY DEF Undone
<1>3. q \in Path /\ q \in ProgramPath /\ q # OwnPath /\ \A p \in Package : Marker(p) # q
  BY PathsApart DEF TypeOK
<1>4. /\ files'[q] = None
      /\ \A r \in Path : r # q => files'[r] = files[r]
      /\ \A p \in Package : files'[Marker(p)] = files[Marker(p)]
  BY <1>1, <1>3, PathsApart DEF TypeOK
<1>5. TypeOK'
  BY <1>1, <1>2, <1>3 DEF TypeOK
<1>6. PhaseInv' /\ InstallInv' /\ UploadInv'
  BY <1>1, <1>2 DEF PhaseInv, InstallInv, UploadInv
<1>7. OwnerInv'
  BY <1>1, <1>2 DEF OwnerInv
<1>8. DiskInv'
  <2>1. \A r \in kept : files'[r] \in Raw \/ Lossy(r)
    BY <1>4, PathsApart DEF DiskInv, OwnerInv
  <2> QED
    BY <1>1, <1>2, <1>3, <1>4, <2>1, PathsApart DEF DiskInv, Lossy
<1>9. StrayInv'
  <2>1. ASSUME crashes = 0, ~unremoved
        PROVE  /\ \A r \in ProgramPath : files'[r] # None => r \in kept \cup created'
               /\ \A p \in Package : \A i \in DOMAIN PackageKeys[p] :
                     files'[KeyPath(p, i)] \in {None, PackageKeys[p][i].raw} \/ KeyPath(p, i) \in created'
    <3>1. \A r \in ProgramPath : files'[r] # None => r \in kept \cup created'
      BY <1>1, <1>4, <2>1, PathsApart DEF StrayInv
    <3>2. \A p \in Package : \A i \in DOMAIN PackageKeys[p] :
             files'[KeyPath(p, i)] \in {None, PackageKeys[p][i].raw} \/ KeyPath(p, i) \in created'
      BY <1>1, <1>4, <2>1, PathsApart DEF StrayInv
    <3> QED
      BY <3>1, <3>2
  <2> QED
    BY <1>1, <1>2, <2>1 DEF StrayInv
<1>10. MarkInv'
  BY <1>1, <1>2, <1>4 DEF MarkInv, TypeOK
<1> QED
  BY <1>5, <1>6, <1>7, <1>8, <1>9, <1>10

\* A created file stays.
LEMMA StayStep ==
    ASSUME Inv, RemoveFails
    PROVE  Inv'
<1> USE DEF Inv, RemoveFails, diskVars, dbVars, countVars
<1>1. created' \subseteq created
  OBVIOUS
<1>2. TypeOK'
  BY <1>1 DEF TypeOK
<1>3. PhaseInv' /\ InstallInv' /\ UploadInv'
  BY DEF PhaseInv, InstallInv, UploadInv
<1>4. OwnerInv' /\ DiskInv'
  BY <1>1 DEF OwnerInv, DiskInv, Lossy
<1>5. StrayInv' /\ MarkInv'
  BY DEF StrayInv, MarkInv
<1> QED
  BY <1>2, <1>3, <1>4, <1>5

----------------------------------------------------------------------------
(* Steps that change the database.                                         *)

\* The chosen paths get into the database.
LEMMA CommitPaths ==
    ASSUME Inv, Commit, pc \in {"keys", "upload"},
           UNCHANGED <<diskVars, requests, blackout>>,
           created' = {}, paths' \in {paths, NoPaths},
           pc' \notin {"keys", "write", "upload"}
    PROVE  /\ db' \in [KeyId -> Path \cup {None}] /\ kept' \in SUBSET Path
           /\ OwnerInv' /\ DiskInv'
<1> USE DEF Inv, Commit, ChosenKeys, diskVars
<1>1. \A s \in ChosenKeys : /\ paths[s] \in Path /\ paths[s] \in ProgramPath \cup {OwnPath}
                            /\ files[paths[s]] \in Raw
                            /\ paths[s] \in unsynced => paths[s] \in InstallerPath
  BY DEF TypeOK, OwnerInv, DiskInv
<1>2. db' \in [KeyId -> Path \cup {None}] /\ kept' \in SUBSET Path
  BY <1>1 DEF TypeOK
<1>3. \A k \in KeyId : db'[k] = IF paths[k] # None THEN paths[k] ELSE db[k]
  OBVIOUS
<1>4. \A k \in KeyId : db'[k] # None => db'[k] \in kept' \cup {OwnPath}
  BY <1>3 DEF OwnerInv
<1>5. \A k \in KeyId, p \in Package : \A i \in DOMAIN PackageKeys[p] :
         KeyPath(p, i) \in {db'[k], paths'[k]} => PackageKeys[p][i].slot = k
  <2>1. \A p \in Package : \A i \in DOMAIN PackageKeys[p] : KeyPath(p, i) # None
    BY PathsApart
  <2> QED
    BY <1>3, <2>1 DEF OwnerInv, NoPaths
<1>6. \A n \in 1..MaxRequests : n > requests =>
         UploadPath(n) \notin kept' /\ \A k \in KeyId : paths'[k] # UploadPath(n)
  BY PathsApart DEF OwnerInv, NoPaths
<1>7. OwnerInv'
  BY <1>1, <1>4, <1>5, <1>6 DEF OwnerInv, NoPaths
<1>8. DiskInv'
  BY <1>1 DEF DiskInv, Lossy
<1> QED
  BY <1>2, <1>7, <1>8

\* An installation is committed.
LEMMA InstallCommitStep ==
    ASSUME Inv, InstallCommits
    PROVE  Inv'
<1> USE DEF Inv, InstallCommits
<1>1. /\ db' \in [KeyId -> Path \cup {None}] /\ kept' \in SUBSET Path
      /\ OwnerInv' /\ DiskInv'
  BY CommitPaths DEF countVars
<1>2. TypeOK'
  BY <1>1 DEF TypeOK, PhaseInv, ChosenKeys, diskVars, countVars
<1>3. PhaseInv' /\ InstallInv' /\ UploadInv'
  BY DEF PhaseInv, InstallInv, UploadInv
<1>4. StrayInv'
  <2>1. \A q \in created : q \in kept'
    BY PathsApart DEF StrayInv, Commit, ChosenKeys, TypeOK
  <2> QED
    BY <2>1 DEF StrayInv, Commit, diskVars, countVars
<1>5. MarkInv'
  BY DEF MarkInv, PhaseInv, diskVars, countVars
<1> QED
  BY <1>1, <1>2, <1>3, <1>4, <1>5

\* An upload is committed.
LEMMA UploadCommitStep ==
    ASSUME Inv, UploadCommits
    PROVE  Inv'
<1> USE DEF Inv, UploadCommits, Idle
<1>1. /\ db' \in [KeyId -> Path \cup {None}] /\ kept' \in SUBSET Path
      /\ OwnerInv' /\ DiskInv'
  BY CommitPaths DEF countVars
<1>2. TypeOK'
  BY <1>1 DEF TypeOK, NoPaths, diskVars, countVars
<1>3. PhaseInv' /\ InstallInv' /\ UploadInv'
  BY DEF PhaseInv, InstallInv, UploadInv
<1>4. StrayInv'
  <2>1. \A q \in created : q \in kept'
    BY PathsApart DEF StrayInv, Commit, ChosenKeys, TypeOK
  <2> QED
    BY <2>1 DEF StrayInv, Commit, diskVars, countVars
<1>5. MarkInv'
  BY DEF MarkInv, diskVars, countVars
<1> QED
  BY <1>1, <1>2, <1>3, <1>4, <1>5

\* The path of a key is saved or deleted by hand.
LEMMA SaveStep ==
    ASSUME Inv, NEW k \in KeyId, SavePath(k) \/ Delete(k)
    PROVE  Inv'
<1> USE DEF Inv, diskVars, opVars, countVars, pastVars
<1>1. PICK q \in {OwnPath, None} : db' = [db EXCEPT ![k] = q]
  BY DEF SavePath, Delete
<1>2. /\ pc = "serve" /\ requests \in Nat /\ requests' = requests + 1 /\ requests' \in 0..MaxRequests
      /\ UNCHANGED <<managed, diskVars, pc, opVars, crashes, pastVars>>
  BY FilesAssumption DEF SavePath, Delete, Request, TypeOK
<1>3. TypeOK'
  BY <1>1, <1>2, PathsApart DEF TypeOK
<1>4. PhaseInv' /\ InstallInv' /\ UploadInv'
  BY <1>2 DEF PhaseInv, InstallInv, UploadInv
<1>5. OwnerInv'
  <2>1. \A j \in KeyId : db'[j] = IF j = k THEN q ELSE db[j]
    BY <1>1 DEF TypeOK
  <2>2. \A p \in Package : \A i \in DOMAIN PackageKeys[p] : KeyPath(p, i) \notin {OwnPath, None}
    BY PathsApart
  <2>3. \A j \in KeyId, p \in Package : \A i \in DOMAIN PackageKeys[p] :
           KeyPath(p, i) \in {db'[j], paths[j]} => PackageKeys[p][i].slot = j
    BY <2>1, <2>2 DEF OwnerInv
  <2> QED
    BY <1>2, <2>1, <2>3 DEF OwnerInv
<1>6. DiskInv'
  BY <1>2 DEF DiskInv, Lossy
<1>7. StrayInv'
  BY <1>2 DEF StrayInv
<1>8. MarkInv'
  BY <1>2 DEF MarkInv
<1> QED
  BY <1>3, <1>4, <1>5, <1>6, <1>7, <1>8

\* An upload begins.
LEMMA UploadStartStep ==
    ASSUME Inv, UploadStarts
    PROVE  Inv'
<1> USE DEF Inv, diskVars, dbVars, pastVars
<1>1. PICK k \in KeyId, r \in Raw : todo' = <<[slot |-> k, raw |-> r]>>
  BY DEF UploadStarts
<1>2. /\ pc = "serve" /\ pc' = "upload" /\ requests \in Nat
      /\ requests' = requests + 1 /\ requests' \in 1..MaxRequests
      /\ UNCHANGED <<pkg, paths, created, diskVars, dbVars, crashes, pastVars>>
      /\ pkg = None /\ paths = NoPaths /\ created = {}
  BY FilesAssumption DEF UploadStarts, Request, TypeOK, PhaseInv
<1>3. todo' \in Seq([slot : KeyId, raw : Raw]) /\ Len(todo') = 1 /\ todo' # <<>>
  BY <1>1
<1>4. TypeOK'
  BY <1>2, <1>3 DEF TypeOK
<1>5. PhaseInv' /\ InstallInv' /\ UploadInv'
  BY <1>2, <1>3, FilesAssumption DEF PhaseInv, InstallInv, UploadInv
<1>6. OwnerInv'
  BY <1>2 DEF OwnerInv
<1>7. DiskInv'
  BY <1>2 DEF DiskInv, Lossy, NoPaths
<1>8. StrayInv'
  BY <1>2 DEF StrayInv
<1>9. MarkInv'
  BY <1>2 DEF MarkInv
<1> QED
  BY <1>4, <1>5, <1>6, <1>7, <1>8, <1>9

\* The marker is written.
LEMMA MarkedStep ==
    ASSUME Inv, Marked
    PROVE  Inv'
<1> USE DEF Inv, dbVars, countVars, pastVars
<1>1. /\ pc = "marker" /\ pkg \in Package /\ pkg \in done /\ created = {}
      /\ files' = [files EXCEPT ![Marker(pkg)] = "mark"]
      /\ unsynced' = unsynced \cup {Marker(pkg)}
      /\ pc' = "serve" /\ pkg' = None /\ todo' = <<>> /\ paths' = NoPaths /\ created' = {}
      /\ UNCHANGED <<dbVars, countVars, pastVars>>
  BY DEF Marked, Idle, PhaseInv, MarkInv
<1>2. Marker(pkg) \in Path /\ Marker(pkg) \notin ProgramPath \cup {OwnPath}
  BY <1>1, PathsApart
<1>3. /\ files'[Marker(pkg)] = "mark"
      /\ \A r \in Path : r # Marker(pkg) => files'[r] = files[r]
      /\ \A r \in ProgramPath \cup {OwnPath} : files'[r] = files[r]
  BY <1>1, <1>2, PathsApart DEF TypeOK
<1>4. TypeOK'
  BY <1>1, <1>2 DEF TypeOK, NoPaths
<1>5. PhaseInv' /\ InstallInv' /\ UploadInv'
  BY <1>1 DEF PhaseInv, InstallInv, UploadInv
<1>6. OwnerInv'
  BY <1>1, PathsApart DEF OwnerInv, NoPaths
<1>7. DiskInv'
  BY <1>1, <1>2, <1>3 DEF DiskInv, OwnerInv, Lossy
<1>8. StrayInv'
  <2>1. \A p \in Package : \A i \in DOMAIN PackageKeys[p] : files'[KeyPath(p, i)] = files[KeyPath(p, i)]
    BY <1>3, PathsApart
  <2> QED
    BY <1>1, <1>3, <2>1 DEF StrayInv
<1>9. MarkInv'
  BY <1>1, <1>3, FilesAssumption, PathsApart DEF MarkInv, TypeOK
<1> QED
  BY <1>4, <1>5, <1>6, <1>7, <1>8, <1>9

----------------------------------------------------------------------------
(* The inductive invariant.                                                *)

LEMMA InitInv == Init => Inv
<1> SUFFICES ASSUME Init
             PROVE  Inv
  OBVIOUS
<1> USE DEF Init
<1>1. PICK r \in Raw : files = [q \in Path |-> IF q = OwnPath THEN r ELSE None]
  OBVIOUS
<1>2. TypeOK
  <2>1. todo \in Seq([slot : KeyId, raw : Raw])
    OBVIOUS
  <2>2. files \in [Path -> Raw \cup {None, Torn, "mark"}]
    BY <1>1
  <2>3. db \in [KeyId -> Path \cup {None}] /\ paths \in [KeyId -> Path \cup {None}]
    BY DEF NoPaths
  <2>4. requests \in 0..MaxRequests /\ crashes \in 0..MaxCrashes
    BY FilesAssumption
  <2> QED
    BY <2>1, <2>2, <2>3, <2>4 DEF TypeOK
<1>3. PhaseInv /\ InstallInv /\ UploadInv
  BY DEF PhaseInv, InstallInv, UploadInv
<1>4. OwnerInv
  BY PathsApart DEF OwnerInv, NoPaths
<1>5. DiskInv
  BY <1>1, PathsApart DEF DiskInv
<1>6. StrayInv
  <2>1. \A q \in ProgramPath : files[q] = None
    BY <1>1, PathsApart
  <2> QED
    BY <2>1, PathsApart DEF StrayInv
<1>7. MarkInv
  BY <1>1, PathsApart DEF MarkInv
<1> QED
  BY <1>2, <1>3, <1>4, <1>5, <1>6, <1>7 DEF Inv

LEMMA Inductive == Inv /\ [Next]_vars => Inv'
<1> SUFFICES ASSUME Inv, [Next]_vars
             PROVE  Inv'
  OBVIOUS
<1>1. CASE UNCHANGED vars
  BY <1>1 DEF vars, diskVars, dbVars, opVars, countVars, pastVars, Inv, TypeOK, PhaseInv, InstallInv,
              UploadInv, OwnerInv, DiskInv, StrayInv, MarkInv, Lossy, Count, Here
<1>2. ASSUME NEW p \in Package \cup {None}, Start(p)
      PROVE  Inv'
  <2>1. CASE NothingToInstall(p)
    BY <1>2, <2>1, IdleStep
    DEF Start, Inv, PhaseInv, TypeOK, countVars, pastVars
  <2>2. CASE ~NothingToInstall(p)
    BY <1>2, <2>2, InstallStarts DEF NothingToInstall
  <2> QED
    BY <2>1, <2>2
<1>3. CASE KeyReused \/ KeyFound
  BY <1>3, ReuseStep
<1>4. CASE KeyClash \/ InstallRefused \/ WriteFails \/ UploadRefused
  BY <1>4, FailStep DEF KeyClash, Clash, Installing, InstallRefused, WriteFails, UploadRefused
<1>5. CASE KeyCreated \/ UploadCreated
  BY <1>5, CreateSteps
<1>6. CASE InstallCommits \/ UploadCommits
  BY <1>6, InstallCommitStep, UploadCommitStep
<1>7. CASE Marked
  BY <1>7, MarkedStep
<1>8. CASE MarkFails
  BY <1>8, IdleStep DEF MarkFails, Inv, PhaseInv, TypeOK, countVars
<1>9. CASE Written
  BY <1>9, WrittenInstall, WrittenUpload DEF Inv, TypeOK
<1>10. CASE Undone
  <2>1. CASE created = {}
    BY <1>10, <2>1, IdleStep DEF Undone, Inv, TypeOK, countVars, pastVars
  <2>2. CASE created # {}
    BY <1>10, <2>2, RemoveStep
  <2> QED
    BY <2>1, <2>2
<1>11. CASE UploadStarts
  BY <1>11, UploadStartStep
<1>12. ASSUME NEW k \in KeyId, SavePath(k) \/ Delete(k)
       PROVE  Inv'
  BY <1>12, SaveStep
<1>13. CASE Exit
  BY <1>13, IdleStep DEF Exit, Inv, PhaseInv, TypeOK, countVars, pastVars
<1>14. CASE Kill
  <2>1. crashes' \in 0..MaxCrashes /\ crashes' > 0
    BY <1>14, FilesAssumption DEF Kill, Inv, TypeOK
  <2> QED
    BY <1>14, <2>1, IdleStep DEF Kill, Inv, TypeOK, pastVars
<1>15. CASE PowerFailure
  BY <1>15, PowerStep
<1>16. CASE RemoveFails
  BY <1>16, StayStep
<1> QED
  BY <1>1, <1>2, <1>3, <1>4, <1>5, <1>6, <1>7, <1>8, <1>9, <1>10, <1>11, <1>12, <1>13, <1>14, <1>15, <1>16
  DEF Next, InstallStep, FileStep, HandlerStep, End

\* The inductive invariant holds.
THEOREM Invariance == Spec => []Inv
  BY InitInv, Inductive, PTL DEF Spec

\* The variables of the key files keep their types.
THEOREM TypeCorrect == Spec => []TypeOK
<1>1. Inv => TypeOK
  BY DEF Inv
<1> QED
  BY <1>1, Invariance, PTL

\* What the database names is there and complete.
THEOREM KeysComplete == Spec => []SavedKeysComplete
<1>1. Inv => SavedKeysComplete
  <2> SUFFICES ASSUME Inv, NEW k \in KeyId, db[k] # None
               PROVE  files[db[k]] \in Raw \/ (blackout /\ db[k] \in InstallerPath)
    BY DEF SavedKeysComplete
  <2>1. CASE db[k] = OwnPath
    BY <2>1 DEF Inv, DiskInv
  <2>2. CASE db[k] \in kept
    BY <2>2 DEF Inv, DiskInv, Lossy
  <2> QED
    BY <2>1, <2>2 DEF Inv, OwnerInv
<1> QED
  BY <1>1, Invariance, PTL

\* What fails leaves no file behind, and none in the way of an installation.
THEOREM NothingStray == Spec => []NoStrayFiles
<1>1. Inv => NoStrayFiles
  <2> SUFFICES ASSUME Inv, crashes = 0, ~unremoved
               PROVE  /\ ~Clash
                      /\ pc \in {"off", "serve"} =>
                            \A q \in ProgramPath : files[q] # None => q \in kept
    BY DEF NoStrayFiles
  <2>1. ~Clash
    <3> SUFFICES ASSUME Installing, files[Here] \notin {None, Head(todo).raw}
                 PROVE  FALSE
      BY DEF Clash
    <3>1. pc = "keys" /\ pkg \in Package /\ todo # <<>>
      BY DEF Installing, Inv, PhaseInv
    <3>2. /\ Here = KeyPath(pkg, Count + 1) /\ Count + 1 \in DOMAIN PackageKeys[pkg]
          /\ Head(todo) = PackageKeys[pkg][Count + 1]
      BY <3>1, NextKey DEF Inv
    <3> QED
      BY <3>1, <3>2 DEF Inv, StrayInv
  <2>2. pc \in {"off", "serve"} => \A q \in ProgramPath : files[q] # None => q \in kept
    BY DEF Inv, StrayInv, PhaseInv
  <2> QED
    BY <2>1, <2>2
<1> QED
  BY <1>1, Invariance, PTL

\* A package is committed once, and a marker stands for a commit.
THEOREM CommittedOnce == Spec => InstalledOnce
<1>1. Inv /\ [Next]_vars =>
         [pc = "keys" /\ pc' = "marker" /\ pkg \in done => crashes > 0 \/ unmarked]_vars
  <2> SUFFICES ASSUME Inv, pc = "keys", pkg \in done, ~unmarked
               PROVE  crashes > 0
    OBVIOUS
  <2>1. crashes # 0
    BY DEF Inv, PhaseInv, InstallInv, MarkInv
  <2> QED
    BY <2>1, FilesAssumption DEF Inv, TypeOK
<1>2. Inv => \A p \in Package : files[Marker(p)] # None => p \in done
  BY DEF Inv, MarkInv
<1> QED
  BY <1>1, <1>2, Invariance, PTL DEF Spec, InstalledOnce

----------------------------------------------------------------------------
(* The refinement of HeldKeys.                                             *)

\* What is held does not change when no file in the database does.
LEMMA HeldSame ==
    ASSUME UNCHANGED <<db, done>>,
           \A k \in KeyId : db[k] # None => files'[db[k]] = files[db[k]]
    PROVE  UNCHANGED <<Held, done>>
<1>1. \A k \in KeyId : (IF db'[k] = None THEN None ELSE files'[db'[k]])
                     = (IF db[k] = None THEN None ELSE files[db[k]])
  OBVIOUS
<1> QED
  BY <1>1 DEF Held

\* Files that are created, removed or lost in a power failure.
LEMMA HeldSpoils ==
    ASSUME UNCHANGED <<db, done>>,
           \A k \in KeyId : db[k] # None => files'[db[k]] \in {files[db[k]], None, Torn}
    PROVE  Abstract!Spoils
  BY DEF Held, Abstract!Spoils

\* A key that an installation after a power failure writes again.
LEMMA HeldWritten ==
    ASSUME Inv, Written
    PROVE  [Abstract!Next]_<<Held, done>>
<1> USE DEF Inv
<1>1. /\ pc = "write" /\ todo # <<>> /\ UNCHANGED <<db, done>>
      /\ files' = [files EXCEPT ![Here] = Head(todo).raw]
  BY DEF Written, PhaseInv, dbVars, pastVars
<1>2. \A k \in KeyId : db[k] # None => db[k] \in Path
  BY DEF TypeOK
<1>3. CASE pkg = None
  <2>1. Here = UploadPath(requests) /\ Here \in Path /\ Here # OwnPath
    BY <1>1, <1>3, UploadHere, PathsApart
  <2>2. \A k \in KeyId : db[k] # None => db[k] # Here
    BY <1>1, <1>3, <2>1 DEF OwnerInv
  <2> QED
    BY <1>1, <1>2, <2>1, <2>2, HeldSame DEF TypeOK
<1>4. CASE pkg \in Package
  <2> DEFINE slot == Head(todo).slot
  <2>1. /\ slot \in KeyId /\ Head(todo).raw \in Raw
        /\ Head(todo) = PackageKeys[pkg][Count + 1] /\ Count + 1 \in DOMAIN PackageKeys[pkg]
        /\ Here = KeyPath(pkg, Count + 1) /\ Here \in Path /\ Here # None
    BY <1>1, <1>4, NextKey, PathsApart
  <2>2. \A k \in KeyId : k # slot => db[k] # Here
    BY <1>4, <2>1 DEF OwnerInv
  <2>3. files'[Here] = Head(todo).raw /\ \A r \in Path : r # Here => files'[r] = files[r]
    BY <1>1, <2>1 DEF TypeOK
  <2>4. CASE db[slot] # Here
    BY <1>1, <1>2, <2>2, <2>3, <2>4, HeldSame
  <2>5. CASE db[slot] = Here
    <3>1. Held'[slot] \in Raw
      BY <1>1, <2>1, <2>3, <2>5 DEF Held
    <3>2. \A k \in KeyId \ {slot} : Held'[k] = Held[k]
      BY <1>1, <1>2, <2>2, <2>3 DEF Held
    <3>3. Abstract!Saves(slot)
      BY <1>1, <3>1, <3>2 DEF Abstract!Saves, Abstract!Only
    <3> QED
      BY <2>1, <3>3 DEF Abstract!Next
  <2> QED
    BY <2>4, <2>5
<1> QED
  BY <1>3, <1>4 DEF TypeOK

\* A package takes effect as a whole.
LEMMA HeldInstalls ==
    ASSUME Inv, InstallCommits
    PROVE  Abstract!Installs(pkg)
<1> USE DEF Inv
<1> DEFINE keys == PackageKeys[pkg]
<1>1. pc = "keys" /\ pkg \in Package /\ todo = <<>> /\ files' = files /\ done' = done \cup {pkg}
  BY DEF InstallCommits, PhaseInv, diskVars
<1>2. Count = Len(keys) /\ DOMAIN keys = 1..Count /\ \A i \in DOMAIN keys : keys[i].slot \in KeyId
  BY <1>1, Carries DEF Count
<1>3. \A k \in KeyId : Held'[k] = IF paths[k] # None THEN files[paths[k]] ELSE Held[k]
  BY <1>1 DEF InstallCommits, Commit, ChosenKeys, Held
<1>4. \A i \in DOMAIN keys : Held'[keys[i].slot] = keys[i].raw
  BY <1>1, <1>2, <1>3 DEF InstallInv
<1>5. \A k \in KeyId \ {keys[i].slot : i \in DOMAIN keys} : Held'[k] = Held[k]
  BY <1>1, <1>2, <1>3 DEF InstallInv
<1> QED
  BY <1>1, <1>4, <1>5 DEF Abstract!Installs, Abstract!Only

\* An upload takes effect, for its key alone.
LEMMA HeldUploads ==
    ASSUME Inv, UploadCommits
    PROVE  Abstract!Next
<1> USE DEF Inv
<1>1. pc = "upload" /\ pkg = None /\ todo = <<>> /\ files' = files /\ done' = done
  BY DEF UploadCommits, PhaseInv, diskVars
<1>2. PICK k \in KeyId : paths[k] = UploadPath(requests) /\ \A j \in KeyId \ {k} : paths[j] = None
  BY <1>1 DEF UploadInv
<1>3. paths[k] # None /\ files[paths[k]] \in Raw
  BY <1>1, <1>2, UploadHere, PathsApart DEF DiskInv
<1>4. \A j \in KeyId : Held'[j] = IF paths[j] # None THEN files[paths[j]] ELSE Held[j]
  BY <1>1 DEF UploadCommits, Commit, ChosenKeys, Held
<1>5. Abstract!Saves(k)
  BY <1>1, <1>2, <1>3, <1>4 DEF Abstract!Saves, Abstract!Only
<1> QED
  BY <1>5 DEF Abstract!Next

\* A path is saved or deleted.
LEMMA HeldSaves ==
    ASSUME Inv, NEW k \in KeyId, SavePath(k) \/ Delete(k)
    PROVE  Abstract!Next
<1> USE DEF Inv
<1>1. files' = files /\ done' = done /\ db' \in {[db EXCEPT ![k] = OwnPath], [db EXCEPT ![k] = None]}
  BY DEF SavePath, Delete, diskVars, pastVars
<1>2. db'[k] \in {OwnPath, None} /\ \A j \in KeyId \ {k} : db'[j] = db[j]
  BY <1>1 DEF TypeOK
<1>3. Held'[k] \in Raw \cup {None} /\ \A j \in KeyId \ {k} : Held'[j] = Held[j]
  BY <1>1, <1>2 DEF Held, DiskInv
<1> QED
  BY <1>1, <1>3 DEF Abstract!Saves, Abstract!Only, Abstract!Next

\* The files implement what a user relies on: packages and keys take effect
\* in whole steps, with their contents.
THEOREM Refinement == Spec => HeldKeysSpec
<1>1. Init => Abstract!Init
  BY DEF Init, Held, NoPaths, Abstract!Init
<1>2. Inv /\ [Next]_vars => [Abstract!Next]_<<Held, done>>
  <2> SUFFICES ASSUME Inv, [Next]_vars
               PROVE  [Abstract!Next]_<<Held, done>>
    OBVIOUS
  <2>1. CASE UNCHANGED <<files, db, done>>
    BY <2>1, HeldSame
  <2>2. CASE KeyCreated \/ UploadCreated
    <3>1. UNCHANGED <<db, done>> /\ files' = [files EXCEPT ![Here] = Torn]
      BY <2>2 DEF KeyCreated, UploadCreated, Create, dbVars, pastVars
    <3>2. \A k \in KeyId : db[k] # None => files'[db[k]] \in {files[db[k]], Torn}
      BY <3>1 DEF Inv, TypeOK
    <3> QED
      BY <3>1, <3>2, HeldSpoils DEF Abstract!Next
  <2>3. CASE Written
    BY <2>3, HeldWritten
  <2>4. CASE InstallCommits
    <3>1. pkg \in Package
      BY <2>4 DEF InstallCommits, Inv, PhaseInv
    <3> QED
      BY <2>4, <3>1, HeldInstalls DEF Abstract!Next
  <2>5. CASE UploadCommits
    BY <2>5, HeldUploads
  <2>6. ASSUME NEW k \in KeyId, SavePath(k) \/ Delete(k)
        PROVE  Abstract!Next
    BY <2>6, HeldSaves
  <2>7. CASE Marked
    <3>1. pkg \in Package /\ UNCHANGED <<db, done>> /\ files' = [files EXCEPT ![Marker(pkg)] = "mark"]
      BY <2>7 DEF Marked, Inv, PhaseInv, dbVars, pastVars
    <3>2. \A k \in KeyId : db[k] # None => db[k] \in Path /\ db[k] # Marker(pkg)
      BY <3>1, PathsApart DEF Inv, TypeOK, OwnerInv
    <3> QED
      BY <3>1, <3>2, HeldSame DEF Inv, TypeOK
  <2>8. CASE Undone
    <3>1. UNCHANGED <<db, done>>
      BY <2>8 DEF Undone, dbVars, pastVars
    <3>2. files' = files \/ \E q \in created : files' = [files EXCEPT ![q] = None]
      BY <2>8 DEF Undone, diskVars
    <3>3. \A k \in KeyId : db[k] # None => files'[db[k]] \in {files[db[k]], None}
      BY <3>1, <3>2 DEF Inv, TypeOK
    <3> QED
      BY <3>1, <3>3, HeldSpoils DEF Abstract!Next
  <2>9. CASE PowerFailure
    <3>1. UNCHANGED <<db, done>>
      BY <2>9 DEF PowerFailure, dbVars
    <3>2. \A q \in Path : files'[q] \in {files[q], None, Torn}
      BY <2>9 DEF PowerFailure
    <3>3. \A k \in KeyId : db[k] # None => files'[db[k]] \in {files[db[k]], None, Torn}
      BY <3>2 DEF Inv, TypeOK
    <3> QED
      BY <3>1, <3>3, HeldSpoils DEF Abstract!Next
  <2> QED
    BY <2>1, <2>2, <2>3, <2>4, <2>5, <2>6, <2>7, <2>8, <2>9
    DEF vars, diskVars, dbVars, countVars, pastVars, Next, InstallStep, FileStep, HandlerStep, End,
        Start, KeyReused, KeyFound, KeyClash, InstallRefused, MarkFails, WriteFails,
        RemoveFails, UploadStarts, UploadRefused, Exit, Kill
<1> QED
  BY <1>1, <1>2, Invariance, PTL DEF Spec, HeldKeysSpec, Abstract!Spec

----------------------------------------------------------------------------
(* The files of the settings.                                              *)

\* The files that the settings may name.
Nameable == {OwnFile(kind) : kind \in Kind} \cup named

\* What a handler has at each of its steps.
HandlerInv ==
    /\ step = "idle" => upload = <<>> /\ chosen = NoCopies /\ made = {}
    /\ step \in {"draft", "look", "rename"} => view # Missing /\ draft \in Text /\ made = {Temp}
    /\ step \in {"look", "rename"} => disk[Temp] = draft /\ Temp \notin unflushed
    /\ step = "write" => /\ upload # <<>> /\ copies > 0
                         /\ Copy(copies) \in made \ named
                         /\ \A kind \in Kind : chosen[kind] # Copy(copies)

\* An upload: each kind once, the files that are through whole, all of them
\* created by it.
QueueInv ==
    step \in {"upload", "write"} =>
        /\ \A i \in 1..Len(upload) : chosen[upload[i].kind] = Missing
        /\ \A i, j \in 1..Len(upload) : upload[i].kind = upload[j].kind => i = j
        /\ \A kind \in Kind : chosen[kind] # Missing =>
              /\ \E n \in 1..copies : chosen[kind] = Copy(n)
              /\ disk[chosen[kind]] \in Text /\ chosen[kind] \notin unflushed
        /\ \A q \in made : (\E kind \in Kind : chosen[kind] = q) \/ (step = "write" /\ q = Copy(copies))

\* What the settings may name, and the browser shows, is whole, and nobody
\* removes it.
NamedInv ==
    /\ \A q \in named : \E n \in 1..copies : q = Copy(n)
    /\ \A kind \in Kind : setting[kind] \in Nameable
    /\ view # Missing => view.path \in Nameable
    /\ \A q \in Nameable : disk[q] # Partial /\ q \notin unflushed /\ q \notin made

\* Files that nothing names will be removed, as long as nothing stops.
LeftInv ==
    stops = 0 /\ ~leftover =>
        \A q \in {Temp} \cup {Copy(n) : n \in 1..copies} :
            disk[q] # Missing => q \in named \cup made

\* After the second look the text is the one shown, or another program came.
SeenInv == step = "rename" => late \/ disk[view.path] = view.text

SettingsInv ==
    /\ SettingsTypeOK /\ HandlerInv /\ QueueInv
    /\ NamedInv /\ LeftInv /\ SeenInv

\* The places are apart.
LEMMA PlacesApart ==
    /\ \A n \in Nat, m \in Nat : Copy(n) = Copy(m) => n = m
    /\ \A n \in Nat : Copy(n) # Temp /\ \A kind \in Kind : Copy(n) # OwnFile(kind)
    /\ \A n \in 1..MaxFiles : Copy(n) \in Place
    /\ \A kind \in Kind : OwnFile(kind) \in Place /\ OwnFile(kind) # Temp
    /\ Temp \in Place /\ Missing \notin Place
  BY SettingsAssumption DEF Copy, Temp, OwnFile, Place

\* What can be named is a place, and no temporary file.
LEMMA NameablePlaces ==
    ASSUME SettingsInv
    PROVE  /\ Nameable \subseteq Place \ {Temp}
           /\ copies \in Nat
           /\ \A n \in 1..copies : Copy(n) \in Place /\ Copy(n) # Temp
<1>1. copies \in Nat /\ \A n \in 1..copies : n \in 1..MaxFiles
  BY SettingsAssumption DEF SettingsInv, SettingsTypeOK
<1> QED
  BY <1>1, PlacesApart DEF SettingsInv, NamedInv, Nameable

\* A handler that is over: its files are named or gone, or the program stops.
LEMMA OverStep ==
    ASSUME SettingsInv, Over, UNCHANGED <<disk, setting, view, copies, edits, named, leftover>>,
           stops' \in 0..MaxStops, unflushed' \subseteq unflushed,
           stops' > 0 \/ (stops' = stops /\ made = {})
    PROVE  SettingsInv'
<1> USE DEF SettingsInv, Over
<1>1. SettingsTypeOK'
  <2>1. upload' \in Seq([kind : Kind, text : Text])
    OBVIOUS
  <2> QED
    BY <2>1 DEF SettingsTypeOK, NoCopies
<1>2. HandlerInv' /\ QueueInv' /\ SeenInv'
  BY DEF HandlerInv, QueueInv, SeenInv
<1>3. NamedInv'
  BY DEF NamedInv, Nameable
<1>4. LeftInv'
  BY SettingsAssumption DEF LeftInv, SettingsTypeOK
<1> QED
  BY <1>1, <1>2, <1>3, <1>4

\* A handler that fails.
LEMMA GivesUpStep ==
    ASSUME SettingsInv, GivesUp
    PROVE  SettingsInv'
<1> USE DEF SettingsInv, GivesUp, handlerVars
<1>1. SettingsTypeOK'
  BY DEF SettingsTypeOK
<1>2. HandlerInv' /\ QueueInv' /\ SeenInv'
  BY DEF HandlerInv, QueueInv, SeenInv
<1>3. NamedInv' /\ LeftInv'
  BY DEF NamedInv, LeftInv, Nameable
<1> QED
  BY <1>1, <1>2, <1>3

----------------------------------------------------------------------------
(* Uploads.                                                                *)

LEMMA UploadAskedStep ==
    ASSUME SettingsInv, UploadAsked
    PROVE  SettingsInv'
<1> USE DEF SettingsInv
<1>1. /\ step = "idle" /\ step' = "upload" /\ edits' \in 0..MaxEdits
      /\ UNCHANGED <<chosen, made, draft, disk, unflushed, setting, view, copies, stops, named, leftover, late>>
      /\ chosen = NoCopies /\ made = {}
  BY SettingsAssumption DEF UploadAsked, Edited, HandlerInv, SettingsTypeOK
<1>2. PICK t \in Text, kinds \in {<<"ssh_config">>, <<"known_hosts">>, <<"ssh_config", "known_hosts">>} :
         upload' = [i \in DOMAIN kinds |-> [kind |-> kinds[i], text |-> t]]
  BY DEF UploadAsked
<1>3. PICK n \in {1, 2} : DOMAIN kinds = 1..n /\ \A i \in 1..n : kinds[i] \in Kind
  BY DEF Kind
<1>4. \A i, j \in DOMAIN kinds : kinds[i] = kinds[j] => i = j
  OBVIOUS
<1>5. \A i \in 1..n : upload'[i] = [kind |-> kinds[i], text |-> t]
  BY <1>2, <1>3
<1>6. upload' \in [1..n -> [kind : Kind, text : Text]]
  BY <1>2, <1>3
<1> DEFINE Rec == [kind : Kind, text : Text]
<1>7. upload' \in Seq(Rec) /\ Len(upload') = n
  <2>1. upload' \in [1..n -> Rec] /\ n \in Nat
    BY <1>3, <1>6
  <2> HIDE DEF Rec
  <2> QED
    BY <2>1
<1>8. SettingsTypeOK'
  <2>1. upload' \in Seq([kind : Kind, text : Text])
    BY <1>7
  <2> QED
    BY <1>1, <2>1 DEF SettingsTypeOK
<1>9. HandlerInv' /\ SeenInv'
  BY <1>1 DEF HandlerInv, SeenInv
<1>10. QueueInv'
  <2>7. \A k, x : [kind |-> k, text |-> x].kind = k
    OBVIOUS
  <2>8. \A i \in 1..n : upload'[i].kind = kinds[i]
    BY <1>5, <2>7, Zenon
  <2>9. chosen' = [kind \in Kind |-> Missing]
    BY <1>1 DEF NoCopies
  <2>1. \A i \in 1..n : upload'[i].kind = kinds[i] /\ chosen'[upload'[i].kind] = Missing
    BY <1>3, <2>8, <2>9
  <2> QED
    BY <1>1, <1>3, <1>4, <1>7, <2>1 DEF QueueInv, NoCopies
<1>11. NamedInv' /\ LeftInv'
  BY <1>1 DEF NamedInv, LeftInv, Nameable
<1> QED
  BY <1>8, <1>9, <1>10, <1>11

LEMMA CopyMadeStep ==
    ASSUME SettingsInv, CopyMade
    PROVE  SettingsInv'
<1> USE DEF SettingsInv
<1> DEFINE q == Copy(copies + 1)
<1>1. /\ step = "upload" /\ step' = "write" /\ upload # <<>> /\ copies \in Nat /\ copies + 1 \in 1..MaxFiles
      /\ copies' = copies + 1
      /\ disk' = [disk EXCEPT ![q] = Partial] /\ unflushed' = unflushed \cup {q} /\ made' = made \cup {q}
      /\ UNCHANGED <<upload, chosen, draft, setting, view, edits, stops, named, leftover, late>>
  BY SettingsAssumption DEF CopyMade, Makes, SettingsTypeOK
<1>2. /\ q \in Place /\ q # Temp /\ q \notin Nameable
      /\ \A n \in 1..copies : Copy(n) # q
  BY <1>1, PlacesApart DEF NamedInv, Nameable
<1>3. \A r \in Place : r # q => disk'[r] = disk[r]
  BY <1>1 DEF SettingsTypeOK
<1>4. \A kind \in Kind : chosen[kind] # Missing => chosen[kind] # q /\ chosen[kind] \in Place
  BY <1>1, <1>2, NameablePlaces DEF QueueInv
<1>5. \A kind \in Kind : chosen[kind] # q
  BY <1>2, <1>4, PlacesApart
<1>6. SettingsTypeOK'
  BY <1>1, <1>2 DEF SettingsTypeOK
<1>7. HandlerInv' /\ SeenInv'
  BY <1>1, <1>2, <1>5 DEF HandlerInv, SeenInv, Nameable
<1>8. \A n \in 1..copies : n \in 1..copies'
  BY <1>1
<1>9. QueueInv'
  <2>1. \A kind \in Kind : chosen[kind] # Missing =>
           /\ \E n \in 1..copies' : chosen[kind] = Copy(n)
           /\ disk'[chosen[kind]] \in Text /\ chosen[kind] \notin unflushed'
    BY <1>1, <1>3, <1>4, <1>8 DEF QueueInv
  <2>2. \A r \in made' : (\E kind \in Kind : chosen[kind] = r) \/ r = Copy(copies')
    BY <1>1 DEF QueueInv
  <2> QED
    BY <1>1, <2>1, <2>2 DEF QueueInv
<1>10. NamedInv'
  <2>1. \A r \in Nameable : disk'[r] # Partial /\ r \notin unflushed' /\ r \notin made'
    BY <1>1, <1>2, <1>3, NameablePlaces DEF NamedInv
  <2>2. \A r \in named : \E n \in 1..copies' : r = Copy(n)
    BY <1>8 DEF NamedInv
  <2> QED
    BY <1>1, <2>1, <2>2 DEF NamedInv, Nameable
<1>11. LeftInv'
  <2> SUFFICES ASSUME stops = 0, ~leftover, NEW r \in {Temp} \cup {Copy(n) : n \in 1..copies'}, disk'[r] # Missing
               PROVE  r \in named \cup made'
    BY <1>1 DEF LeftInv
  <2>1. CASE r = q
    BY <1>1, <2>1
  <2>2. CASE r # q
    <3>1. r \in {Temp} \cup {Copy(n) : n \in 1..copies}
      BY <1>1, <2>2
    <3>2. r \in Place
      BY <3>1, NameablePlaces, PlacesApart
    <3> QED
      BY <1>1, <1>3, <2>2, <3>1, <3>2 DEF LeftInv
  <2> QED
    BY <2>1, <2>2
<1> QED
  BY <1>6, <1>7, <1>9, <1>10, <1>11

LEMMA CopyWrittenStep ==
    ASSUME SettingsInv, CopyWritten
    PROVE  SettingsInv'
<1> USE DEF SettingsInv
<1> DEFINE q == Copy(copies)
<1> DEFINE k == Head(upload).kind
<1> DEFINE Rec == [kind : Kind, text : Text]
<1>1. /\ step = "write" /\ step' = "upload" /\ upload # <<>> /\ copies \in Nat /\ copies \in 1..MaxFiles
      /\ disk' = [disk EXCEPT ![q] = Head(upload).text] /\ unflushed' = unflushed \ {q}
      /\ chosen' = [chosen EXCEPT ![k] = q] /\ upload' = Tail(upload)
      /\ UNCHANGED <<made, draft, setting, view, copies, edits, stops, named, leftover, late>>
      /\ q \in made /\ q \notin named /\ \A kind \in Kind : chosen[kind] # q
  BY SettingsAssumption DEF CopyWritten, Fills, SettingsTypeOK, HandlerInv
<1>2. /\ upload \in Seq(Rec) /\ Len(upload) \in Nat /\ Len(upload) > 0
      /\ Head(upload) = upload[1] /\ Head(upload) \in Rec
      /\ Tail(upload) \in Seq(Rec) /\ Len(Tail(upload)) = Len(upload) - 1
      /\ \A i \in 1..Len(Tail(upload)) : Tail(upload)[i] = upload[i + 1]
      /\ \A i \in 1..Len(upload) : upload[i] \in Rec
  <2>1. upload \in Seq(Rec)
    BY DEF SettingsTypeOK
  <2> HIDE DEF Rec
  <2> QED
    BY <1>1, <2>1
<1>3. k \in Kind /\ Head(upload).text \in Text
  BY <1>2
<1>4. q \in Place /\ q # Temp /\ q \notin Nameable
  BY <1>1, PlacesApart DEF Nameable
<1>5. disk'[q] = Head(upload).text /\ \A r \in Place : r # q => disk'[r] = disk[r]
  BY <1>1, <1>4 DEF SettingsTypeOK
<1>6. \A kind \in Kind : chosen'[kind] = IF kind = k THEN q ELSE chosen[kind]
  BY <1>1, <1>3 DEF SettingsTypeOK
<1>7. chosen[k] = Missing
  <2>1. 1 \in 1..Len(upload)
    BY <1>2
  <2> QED
    BY <1>1, <1>2, <2>1 DEF QueueInv
<1>8. SettingsTypeOK'
  BY <1>1, <1>2, <1>3, <1>4 DEF SettingsTypeOK
<1>9. HandlerInv' /\ SeenInv'
  BY <1>1 DEF HandlerInv, SeenInv
<1>10. QueueInv'
  <2>1. ASSUME NEW i \in 1..Len(upload')
        PROVE  upload'[i] = upload[i + 1] /\ i + 1 \in 1..Len(upload) /\ chosen'[upload'[i].kind] = Missing
    <3>1. upload'[i] = upload[i + 1] /\ i + 1 \in 1..Len(upload) /\ 1 \in 1..Len(upload) /\ i + 1 # 1
      BY <1>1, <1>2
    <3>2. upload[i + 1].kind # k /\ upload[i + 1].kind \in Kind /\ chosen[upload[i + 1].kind] = Missing
      BY <1>1, <1>2, <3>1 DEF QueueInv
    <3> QED
      BY <1>6, <3>1, <3>2
  <2>2. \A i, j \in 1..Len(upload') : upload'[i].kind = upload'[j].kind => i = j
    <3> SUFFICES ASSUME NEW i \in 1..Len(upload'), NEW j \in 1..Len(upload'), upload'[i].kind = upload'[j].kind
                 PROVE  i = j
      OBVIOUS
    <3>1. i + 1 = j + 1
      BY <1>1, <2>1 DEF QueueInv
    <3> QED
      BY <1>1, <1>2, <3>1
  <2>3. ASSUME NEW kind \in Kind, chosen'[kind] # Missing
        PROVE  /\ \E n \in 1..copies : chosen'[kind] = Copy(n)
               /\ disk'[chosen'[kind]] \in Text /\ chosen'[kind] \notin unflushed'
    <3>1. CASE kind = k
      BY <1>1, <1>3, <1>5, <1>6, <3>1
    <3>2. CASE kind # k
      <4>1. chosen'[kind] = chosen[kind] /\ chosen[kind] # q /\ chosen[kind] \in Place
        BY <1>1, <1>6, <2>3, <3>2 DEF SettingsTypeOK
      <4> QED
        BY <1>1, <1>5, <2>3, <4>1 DEF QueueInv
    <3> QED
      BY <3>1, <3>2
  <2>4. ASSUME NEW r \in made'
        PROVE  \E kind \in Kind : chosen'[kind] = r
    <3>1. CASE r = q
      BY <1>3, <1>6, <3>1
    <3>2. CASE r # q
      <4>1. PICK kind \in Kind : chosen[kind] = r
        BY <1>1, <3>2 DEF QueueInv
      <4>2. r # Missing
        BY <1>1, PlacesApart DEF SettingsTypeOK
      <4> QED
        BY <1>6, <1>7, <4>1, <4>2
    <3> QED
      BY <3>1, <3>2
  <2> QED
    BY <1>1, <2>1, <2>2, <2>3, <2>4 DEF QueueInv
<1>11. NamedInv'
  <2>1. \A r \in Nameable : disk'[r] # Partial /\ r \notin unflushed' /\ r \notin made'
    BY <1>1, <1>4, <1>5, NameablePlaces DEF NamedInv
  <2> QED
    BY <1>1, <2>1 DEF NamedInv, Nameable
<1>12. LeftInv'
  <2> SUFFICES ASSUME stops = 0, ~leftover, NEW r \in {Temp} \cup {Copy(n) : n \in 1..copies}, disk'[r] # Missing
               PROVE  r \in named \cup made
    BY <1>1 DEF LeftInv
  <2>1. r \in Place
    BY NameablePlaces, PlacesApart
  <2>2. CASE r # q
    BY <1>5, <2>1, <2>2 DEF LeftInv
  <2>3. CASE r = q
    BY <1>1, <2>3
  <2> QED
    BY <2>2, <2>3
<1> QED
  BY <1>8, <1>9, <1>10, <1>11, <1>12

LEMMA UploadSavedStep ==
    ASSUME SettingsInv, UploadSaved
    PROVE  SettingsInv'
<1> USE DEF SettingsInv
<1>1. PICK form \in Form :
         setting' = [kind \in Kind |-> IF chosen[kind] = Missing THEN form[kind] ELSE chosen[kind]]
  BY DEF UploadSaved
<1>2. /\ step = "upload" /\ upload = <<>>
      /\ named' = named \cup ({chosen[kind] : kind \in Kind} \ {Missing})
      /\ step' = "idle" /\ upload' = <<>> /\ chosen' = NoCopies /\ made' = {} /\ draft' = Missing
      /\ late' = FALSE
      /\ UNCHANGED <<disk, unflushed, view, copies, edits, stops, leftover>>
  BY DEF UploadSaved, Over
<1>3. \A kind \in Kind : chosen[kind] # Missing =>
         /\ \E n \in 1..copies : chosen[kind] = Copy(n)
         /\ disk[chosen[kind]] \in Text /\ chosen[kind] \notin unflushed
  BY <1>2 DEF QueueInv
<1>4. \A kind \in Kind : form[kind] \in Nameable
  BY DEF Form, Nameable
<1>5. \A kind \in Kind : setting'[kind] \in Nameable'
  BY <1>1, <1>2, <1>4 DEF Nameable
<1>6. \A q \in named' : \E n \in 1..copies : q = Copy(n)
  BY <1>2, <1>3 DEF NamedInv
<1>7. Nameable' \subseteq Place \ {Temp}
  BY <1>6, NameablePlaces, PlacesApart DEF Nameable
<1>8. SettingsTypeOK'
  <2>1. upload' \in Seq([kind : Kind, text : Text])
    BY <1>2
  <2>2. setting' \in [Kind -> Place \ {Temp}] /\ named' \in SUBSET Place
    BY <1>1, <1>5, <1>7 DEF Nameable
  <2> QED
    BY <1>2, <2>1, <2>2 DEF SettingsTypeOK, NoCopies
<1>9. HandlerInv' /\ QueueInv' /\ SeenInv'
  BY <1>2 DEF HandlerInv, QueueInv, SeenInv
<1>10. NamedInv'
  <2>1. \A q \in Nameable' : disk[q] # Partial /\ q \notin unflushed
    BY <1>2, <1>3, SettingsAssumption DEF NamedInv, Nameable
  <2> QED
    BY <1>2, <1>5, <1>6, <2>1 DEF NamedInv, Nameable
<1>11. LeftInv'
  <2>1. \A q \in made : q \in named'
    BY <1>2, PlacesApart DEF QueueInv, SettingsTypeOK
  <2> QED
    BY <1>2, <2>1 DEF LeftInv
<1> QED
  BY <1>8, <1>9, <1>10, <1>11

LEMMA SettingsSavedStep ==
    ASSUME SettingsInv, SettingsSaved
    PROVE  SettingsInv'
<1> USE DEF SettingsInv, handlerVars
<1>1. /\ step = "idle" /\ edits' \in 0..MaxEdits
      /\ UNCHANGED <<disk, unflushed, step, handlerVars, view, copies, stops, named, leftover, late>>
      /\ setting' \in [Kind -> Place] /\ \A kind \in Kind : setting'[kind] \in Nameable
  BY SettingsAssumption DEF SettingsSaved, Edited, SettingsTypeOK, Form, Nameable
<1>2. SettingsTypeOK'
  BY <1>1, NameablePlaces DEF SettingsTypeOK
<1>3. HandlerInv' /\ QueueInv' /\ SeenInv'
  BY <1>1 DEF HandlerInv, QueueInv, SeenInv
<1>4. NamedInv' /\ LeftInv'
  BY <1>1 DEF NamedInv, LeftInv, Nameable
<1> QED
  BY <1>2, <1>3, <1>4

----------------------------------------------------------------------------
(* The editor.                                                             *)

LEMMA EditorReadsStep ==
    ASSUME SettingsInv, NEW kind \in Kind, EditorReads(kind)
    PROVE  SettingsInv'
<1> USE DEF SettingsInv, handlerVars
<1>1. /\ step = "idle" /\ edits' \in 0..MaxEdits
      /\ view' = [kind |-> kind, path |-> setting[kind], text |-> disk[setting[kind]]]
      /\ UNCHANGED <<disk, unflushed, setting, step, handlerVars, copies, stops, named, leftover, late>>
  BY SettingsAssumption DEF EditorReads, Edited, SettingsTypeOK
<1>2. setting[kind] \in Place /\ disk[setting[kind]] \in Text \cup {Missing, Partial}
  BY DEF SettingsTypeOK
<1>3. SettingsTypeOK'
  BY <1>1, <1>2 DEF SettingsTypeOK
<1>4. HandlerInv' /\ QueueInv' /\ SeenInv'
  BY <1>1 DEF HandlerInv, QueueInv, SeenInv
<1>5. view'.path = setting[kind]
  BY <1>1
<1>6. NamedInv' /\ LeftInv'
  BY <1>1, <1>5 DEF NamedInv, LeftInv, Nameable
<1> QED
  BY <1>3, <1>4, <1>6

LEMMA EditorSavesStep ==
    ASSUME SettingsInv, NEW t \in Text, EditorSaves(t)
    PROVE  SettingsInv'
<1> USE DEF SettingsInv
<1>1. /\ step = "idle" /\ step' = "draft" /\ edits' \in 0..MaxEdits /\ view # Missing /\ draft' = t
      /\ disk' = [disk EXCEPT ![Temp] = Partial] /\ unflushed' = unflushed \cup {Temp}
      /\ made' = {Temp}
      /\ UNCHANGED <<upload, chosen, setting, view, copies, stops, named, leftover, late>>
  BY SettingsAssumption DEF EditorSaves, Makes, Edited, SettingsTypeOK, HandlerInv
<1>2. \A r \in Place \ {Temp} : disk'[r] = disk[r]
  BY <1>1 DEF SettingsTypeOK
<1>3. SettingsTypeOK'
  BY <1>1, PlacesApart DEF SettingsTypeOK
<1>4. HandlerInv' /\ QueueInv' /\ SeenInv'
  BY <1>1 DEF HandlerInv, QueueInv, SeenInv
<1>5. NamedInv'
  BY <1>1, <1>2, NameablePlaces DEF NamedInv, Nameable
<1>6. LeftInv'
  BY <1>1, <1>2, NameablePlaces DEF LeftInv, HandlerInv
<1> QED
  BY <1>3, <1>4, <1>5, <1>6

LEMMA DraftWrittenStep ==
    ASSUME SettingsInv, DraftWritten
    PROVE  SettingsInv'
<1> USE DEF SettingsInv, handlerVars
<1>1. /\ step = "draft" /\ step' = "look" /\ draft \in Text /\ made = {Temp}
      /\ disk' = [disk EXCEPT ![Temp] = draft] /\ unflushed' = unflushed \ {Temp}
      /\ UNCHANGED <<handlerVars, setting, view, copies, edits, stops, named, leftover, late>>
  BY DEF DraftWritten, Fills, HandlerInv
<1>2. disk'[Temp] = draft /\ \A r \in Place \ {Temp} : disk'[r] = disk[r]
  BY <1>1, PlacesApart DEF SettingsTypeOK
<1>3. SettingsTypeOK'
  BY <1>1, PlacesApart DEF SettingsTypeOK
<1>4. HandlerInv' /\ QueueInv' /\ SeenInv'
  BY <1>1, <1>2 DEF HandlerInv, QueueInv, SeenInv
<1>5. NamedInv'
  BY <1>1, <1>2, NameablePlaces DEF NamedInv, Nameable
<1>6. LeftInv'
  BY <1>1, <1>2, NameablePlaces DEF LeftInv
<1> QED
  BY <1>3, <1>4, <1>5, <1>6

LEMMA EditorLooksStep ==
    ASSUME SettingsInv, EditorLooks
    PROVE  SettingsInv'
<1> USE DEF SettingsInv, EditorLooks, handlerVars
<1>1. SettingsTypeOK'
  BY DEF SettingsTypeOK
<1>2. HandlerInv' /\ QueueInv' /\ SeenInv'
  BY DEF HandlerInv, QueueInv, SeenInv, StillAsOpened
<1>3. NamedInv' /\ LeftInv'
  BY DEF NamedInv, LeftInv, Nameable
<1> QED
  BY <1>1, <1>2, <1>3

LEMMA DraftRenamedStep ==
    ASSUME SettingsInv, DraftRenamed
    PROVE  SettingsInv'
<1> USE DEF SettingsInv
<1>1. /\ step = "rename" /\ view # Missing /\ draft \in Text /\ disk[Temp] = draft /\ made = {Temp}
      /\ disk' = [disk EXCEPT ![view.path] = disk[Temp], ![Temp] = Missing]
      /\ view' = [view EXCEPT !.text = draft]
      /\ step' = "idle" /\ upload' = <<>> /\ chosen' = NoCopies /\ made' = {} /\ draft' = Missing
      /\ late' = FALSE
      /\ UNCHANGED <<unflushed, setting, copies, edits, stops, named, leftover>>
  BY DEF DraftRenamed, Over, HandlerInv
<1>2. view.path \in Nameable /\ view.path \in Place \ {Temp}
  BY <1>1, NameablePlaces DEF NamedInv
<1>3. /\ disk'[view.path] = draft /\ disk'[Temp] = Missing
      /\ \A r \in Place \ {Temp} : r # view.path => disk'[r] = disk[r]
      /\ disk' \in [Place -> Text \cup {Missing, Partial}]
  BY <1>1, <1>2, PlacesApart DEF SettingsTypeOK
<1>4. /\ view' \in [kind : Kind, path : Place, text : Text \cup {Missing, Partial}]
      /\ view'.path = view.path
  BY <1>1 DEF SettingsTypeOK
<1>5. SettingsTypeOK'
  <2>1. upload' \in Seq([kind : Kind, text : Text])
    BY <1>1
  <2> QED
    BY <1>1, <1>3, <1>4, <2>1 DEF SettingsTypeOK, NoCopies
<1>6. HandlerInv' /\ QueueInv' /\ SeenInv'
  BY <1>1 DEF HandlerInv, QueueInv, SeenInv
<1>7. NamedInv'
  <2>1. \A r \in Nameable : disk'[r] # Partial
    BY <1>1, <1>3, NameablePlaces, SettingsAssumption DEF NamedInv
  <2> QED
    BY <1>1, <1>2, <1>4, <2>1 DEF NamedInv, Nameable
<1>8. LeftInv'
  <2> SUFFICES ASSUME stops = 0, ~leftover, NEW n \in 1..copies, disk'[Copy(n)] # Missing
               PROVE  Copy(n) \in named
    BY <1>1, <1>3 DEF LeftInv
  <2>1. Copy(n) \in Place \ {Temp}
    BY NameablePlaces
  <2>2. CASE Copy(n) = view.path
    BY <1>2, <2>2, NameablePlaces, PlacesApart DEF Nameable
  <2>3. CASE Copy(n) # view.path
    BY <1>1, <1>3, <2>1, <2>3 DEF LeftInv
  <2> QED
    BY <2>2, <2>3
<1> QED
  BY <1>5, <1>6, <1>7, <1>8

\* The deferred function removes a file.
LEMMA UndoneStep ==
    ASSUME SettingsInv, HandlerUndone, made # {}
    PROVE  SettingsInv'
<1> USE DEF SettingsInv
<1>1. PICK q \in made : /\ disk' = [disk EXCEPT ![q] = Missing] /\ unflushed' = unflushed \ {q}
                        /\ made' = made \ {q}
                        /\ UNCHANGED <<step, upload, chosen, draft, late>>
  BY DEF HandlerUndone, Fills
<1>2. step = "undo" /\ UNCHANGED <<setting, view, copies, edits, stops, named, leftover>>
  BY DEF HandlerUndone
<1>3. q \in Place /\ q \notin Nameable /\ \A r \in Place : r # q => disk'[r] = disk[r]
  BY <1>1 DEF SettingsTypeOK, NamedInv
<1>4. disk'[q] = Missing
  BY <1>1, <1>3 DEF SettingsTypeOK
<1>5. SettingsTypeOK'
  BY <1>1, <1>2, <1>3 DEF SettingsTypeOK
<1>6. HandlerInv' /\ QueueInv' /\ SeenInv'
  BY <1>1, <1>2 DEF HandlerInv, QueueInv, SeenInv
<1>7. NamedInv'
  <2>1. \A r \in Nameable : disk'[r] # Partial /\ r \notin unflushed' /\ r \notin made'
    BY <1>1, <1>3, NameablePlaces DEF NamedInv
  <2> QED
    BY <1>1, <1>2, <2>1 DEF NamedInv, Nameable
<1>8. LeftInv'
  <2> SUFFICES ASSUME stops = 0, ~leftover, NEW r \in {Temp} \cup {Copy(n) : n \in 1..copies}, disk'[r] # Missing
               PROVE  r \in named \cup made'
    BY <1>2 DEF LeftInv
  <2>1. r \in Place /\ r # q
    BY <1>4, NameablePlaces, PlacesApart
  <2> QED
    BY <1>1, <1>3, <2>1 DEF LeftInv
<1> QED
  BY <1>5, <1>6, <1>7, <1>8

\* A created file stays.
LEMMA LeavesStep ==
    ASSUME SettingsInv, HandlerLeaves
    PROVE  SettingsInv'
<1> USE DEF SettingsInv, HandlerLeaves
<1>1. made' \subseteq made
  OBVIOUS
<1>2. SettingsTypeOK'
  BY <1>1 DEF SettingsTypeOK
<1>3. HandlerInv' /\ QueueInv' /\ SeenInv' /\ LeftInv'
  BY DEF HandlerInv, QueueInv, SeenInv, LeftInv
<1>4. NamedInv'
  BY <1>1 DEF NamedInv, Nameable
<1> QED
  BY <1>2, <1>3, <1>4

----------------------------------------------------------------------------
(* Other programs, and stops.                                              *)

LEMMA ExternalEditStep ==
    ASSUME SettingsInv, NEW kind \in Kind, NEW t \in Text, ExternalEdit(kind, t)
    PROVE  SettingsInv'
<1> USE DEF SettingsInv, handlerVars
<1> DEFINE q == setting[kind]
<1>1. /\ edits' \in 0..MaxEdits /\ disk' = [disk EXCEPT ![q] = t]
      /\ UNCHANGED <<unflushed, setting, step, handlerVars, view, copies, stops, named, leftover>>
  BY SettingsAssumption DEF ExternalEdit, Edited, SettingsTypeOK
<1>2. late' \in BOOLEAN /\ (late => late') /\ (step = "rename" => late')
  BY DEF ExternalEdit, SettingsTypeOK
<1>3. q \in Nameable /\ q \in Place \ {Temp}
  BY NameablePlaces DEF NamedInv
<1>4. disk'[q] = t /\ \A r \in Place : r # q => disk'[r] = disk[r]
  BY <1>1, <1>3 DEF SettingsTypeOK
<1>5. SettingsTypeOK'
  BY <1>1, <1>2, <1>3 DEF SettingsTypeOK
<1>6. HandlerInv'
  BY <1>1, <1>3, <1>4, PlacesApart DEF HandlerInv
<1>7. QueueInv'
  <2>1. \A k \in Kind : chosen[k] # Missing => chosen[k] \in Place
    BY DEF SettingsTypeOK
  <2> QED
    BY <1>1, <1>4, <2>1 DEF QueueInv
<1>8. NamedInv'
  <2>1. \A r \in Nameable : disk'[r] # Partial
    BY <1>4, NameablePlaces, SettingsAssumption DEF NamedInv
  <2> QED
    BY <1>1, <2>1 DEF NamedInv, Nameable
<1>9. LeftInv'
  <2> SUFFICES ASSUME stops = 0, ~leftover, NEW r \in {Temp} \cup {Copy(n) : n \in 1..copies}, disk'[r] # Missing
               PROVE  r \in named \cup made
    BY <1>1 DEF LeftInv
  <2>1. r \in Place
    BY NameablePlaces, PlacesApart
  <2>2. r = q => r \in named
    BY <1>3, NameablePlaces, PlacesApart DEF Nameable
  <2> QED
    BY <1>4, <2>1, <2>2 DEF LeftInv
<1>10. SeenInv'
  BY <1>1, <1>2 DEF SeenInv
<1> QED
  BY <1>5, <1>6, <1>7, <1>8, <1>9, <1>10

LEMMA StopsStep ==
    ASSUME SettingsInv, NEW harmed \in SUBSET unflushed, Stops(harmed)
    PROVE  SettingsInv'
<1> USE DEF SettingsInv, Over
<1>1. /\ disk' = [q \in Place |-> IF q \in harmed THEN Partial ELSE disk[q]] /\ unflushed' = {}
      /\ stops' \in 0..MaxStops /\ stops' > 0 /\ Over
      /\ UNCHANGED <<setting, view, copies, edits, named, leftover>>
  BY SettingsAssumption DEF Stops, SettingsTypeOK
<1>2. SettingsTypeOK'
  <2>1. upload' \in Seq([kind : Kind, text : Text])
    BY <1>1
  <2>2. disk' \in [Place -> Text \cup {Missing, Partial}]
    BY <1>1 DEF SettingsTypeOK
  <2> QED
    BY <1>1, <2>1, <2>2 DEF SettingsTypeOK, NoCopies
<1>3. HandlerInv' /\ QueueInv' /\ SeenInv'
  BY <1>1 DEF HandlerInv, QueueInv, SeenInv
<1>4. NamedInv'
  <2>1. \A r \in Nameable : disk'[r] # Partial
    BY <1>1, NameablePlaces DEF NamedInv
  <2> QED
    BY <1>1, <2>1 DEF NamedInv, Nameable
<1>5. LeftInv'
  BY <1>1 DEF LeftInv
<1> QED
  BY <1>2, <1>3, <1>4, <1>5

----------------------------------------------------------------------------
(* The inductive invariant of the settings files.                          *)

LEMMA SettingsInitInv == SettingsInit => SettingsInv
<1> SUFFICES ASSUME SettingsInit
             PROVE  SettingsInv
  OBVIOUS
<1> USE DEF SettingsInit
<1>1. /\ disk \in [Place -> Text \cup {Missing}]
      /\ \A q \in Place : disk[q] = Missing \/ \E kind \in Kind : q = OwnFile(kind)
  OBVIOUS
<1>2. SettingsTypeOK
  <2>1. upload \in Seq([kind : Kind, text : Text])
    OBVIOUS
  <2>2. disk \in [Place -> Text \cup {Missing, Partial}]
    BY <1>1
  <2>3. setting \in [Kind -> Place \ {Temp}] /\ chosen \in [Kind -> Place \cup {Missing}]
    BY PlacesApart DEF NoCopies
  <2>4. copies \in 0..MaxFiles /\ edits \in 0..MaxEdits /\ stops \in 0..MaxStops
    BY SettingsAssumption
  <2> QED
    BY <2>1, <2>2, <2>3, <2>4 DEF SettingsTypeOK
<1>3. HandlerInv /\ QueueInv /\ SeenInv
  BY DEF HandlerInv, QueueInv, SeenInv
<1>4. NamedInv
  BY <1>1, PlacesApart, SettingsAssumption DEF NamedInv, Nameable
<1>5. LeftInv
  <2>1. {Copy(n) : n \in 1..copies} = {}
    OBVIOUS
  <2>2. disk[Temp] = Missing
    BY <1>1, PlacesApart
  <2> QED
    BY <2>1, <2>2 DEF LeftInv
<1> QED
  BY <1>2, <1>3, <1>4, <1>5 DEF SettingsInv

LEMMA SettingsInductive == SettingsInv /\ [SettingsNext]_settingsVars => SettingsInv'
<1> SUFFICES ASSUME SettingsInv, [SettingsNext]_settingsVars
             PROVE  SettingsInv'
  OBVIOUS
<1>1. CASE UNCHANGED settingsVars
  BY <1>1 DEF settingsVars, handlerVars, SettingsInv, SettingsTypeOK, HandlerInv, QueueInv, NamedInv,
              LeftInv, SeenInv, Nameable
<1>2. CASE UploadAsked \/ CopyMade \/ CopyWritten \/ UploadSaved \/ SettingsSaved
  BY <1>2, UploadAskedStep, CopyMadeStep, CopyWrittenStep, UploadSavedStep, SettingsSavedStep
<1>3. CASE UploadFails \/ EditorFails
  BY <1>3, GivesUpStep DEF UploadFails, EditorFails
<1>4. ASSUME NEW kind \in Kind, EditorReads(kind)
      PROVE  SettingsInv'
  BY <1>4, EditorReadsStep
<1>5. ASSUME NEW t \in Text, EditorSaves(t)
      PROVE  SettingsInv'
  BY <1>5, EditorSavesStep
<1>6. CASE DraftWritten \/ EditorLooks \/ DraftRenamed
  BY <1>6, DraftWrittenStep, EditorLooksStep, DraftRenamedStep
<1>7. CASE HandlerUndone
  <2>1. CASE made = {}
    BY <1>7, <2>1, OverStep DEF HandlerUndone, SettingsInv, SettingsTypeOK
  <2>2. CASE made # {}
    BY <1>7, <2>2, UndoneStep
  <2> QED
    BY <2>1, <2>2
<1>8. ASSUME NEW kind \in Kind, NEW t \in Text, ExternalEdit(kind, t)
      PROVE  SettingsInv'
  BY <1>8, ExternalEditStep
<1>9. ASSUME NEW harmed \in SUBSET unflushed, Stops(harmed)
      PROVE  SettingsInv'
  BY <1>9, StopsStep
<1>10. CASE HandlerLeaves
  BY <1>10, LeavesStep
<1> QED
  BY <1>1, <1>2, <1>3, <1>4, <1>5, <1>6, <1>7, <1>8, <1>9, <1>10 DEF SettingsNext

\* The inductive invariant of the settings files holds.
THEOREM SettingsInvariance == SettingsSpec => []SettingsInv
  BY SettingsInitInv, SettingsInductive, PTL DEF SettingsSpec

\* Their variables keep their types.
THEOREM SettingsTypeCorrect == SettingsSpec => []SettingsTypeOK
<1>1. SettingsInv => SettingsTypeOK
  BY DEF SettingsInv
<1> QED
  BY <1>1, SettingsInvariance, PTL

\* The settings name whole files, and handlers leave none behind.
THEOREM WholeFiles == SettingsSpec => []SettingsWhole
<1>1. SettingsInv => SettingsWhole
  BY DEF SettingsInv, SettingsWhole, NamedInv, LeftInv, HandlerInv
<1> QED
  BY <1>1, SettingsInvariance, PTL

\* The editor replaces the text that the browser showed.
THEOREM ReplacesSeen == SettingsSpec => OnlySeenReplaced
<1>1. SettingsInv /\ [SettingsNext]_settingsVars =>
         [step = "rename" /\ step' = "idle" /\ stops' = stops
             => late \/ disk[view.path] = view.text]_settingsVars
  BY DEF SettingsInv, SeenInv
<1> QED
  BY <1>1, SettingsInvariance, PTL DEF SettingsSpec, OnlySeenReplaced
=============================================================================
