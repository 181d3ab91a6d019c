--------------------------- MODULE StartupImport ---------------------------
(***************************************************************************)
(* The import of an SSH config (src/internal/sshconfig): at every start,   *)
(* the aliases that are new are taken into the store, in groups connected  *)
(* by their ProxyJumps and one transaction per group; from the web page,   *)
(* a selection is taken in one transaction.  The program may be killed     *)
(* between two steps, and is started again.                                *)
(*                                                                         *)
(* A host's id stands for its name too, and a key's id for the path of its *)
(* file.  The lines of the config are read in any order.                   *)
(***************************************************************************)
EXTENDS ConfigParser, FiniteSets, Functions

CONSTANTS
    IdentityFile,  \* the key file of each alias in the config
    Files          \* the SSH configs considered

\* An alias of the config; usable when it is valid for Parse, its fields are
\* those of a host, and its key file is a key.
Candidate == [usable : BOOLEAN, jumps : Seq(HostId)]

ASSUME ImportAssumption ==
    /\ IdentityFile \in [HostId -> KeyId]
    /\ Name = HostId /\ IsFiniteSet(HostId)
    /\ None \notin Settings
ASSUME ConfigAssumption ==
    \A f \in Files :
        /\ Len(f) \in Nat
        /\ \A n \in 1..Len(f) :
              /\ f[n].key = "host" => f[n].value \subseteq Pattern
              /\ f[n].key = "proxyjump" => f[n].value \in Seq(HostId \cup {None}) \cup {None}

VARIABLES
    file,      \* the SSH config; the import only reads it
    config,    \* what is read from it
    saved,     \* the settings in the database
    phase,     \* where the start is
    known,     \* existing: the hosts before the start
    eligible,  \* aliases to import
    queue,     \* aliases of the group that are still to be visited
    visited,   \* aliases whose group was tried
    selected,  \* the group at hand
    skipped,   \* aliases reported as skipped, as long as nothing is edited
    failed,    \* of these, the ones that the system failed to save
    base       \* the settings that the start, repeated or not, began with

runVars == <<known, eligible, queue, visited, selected, skipped, failed>>
vars == <<file, config, saved, phase, runVars, base>>

Aliases == {a \in HostId : config[a] # None}
HostsOf(s) == Present(s) \cap HostId

TypeOK ==
    /\ file \in Files
    /\ \A a \in HostId : config[a] = None \/ config[a] \in Candidate
    /\ saved \in Settings /\ Validate(saved)
    /\ phase \in {"down", "prune", "groups", "grow", "up"}
    /\ known \subseteq HostId
    /\ eligible \subseteq Aliases \ known
    /\ queue \subseteq eligible /\ visited \subseteq eligible /\ selected \subseteq visited
    /\ skipped \subseteq Aliases \ known /\ failed \subseteq skipped
    /\ base \in Settings \cup {None}

Init ==
    /\ file \in Files /\ config = Parse(file)
    /\ saved = Empty
    /\ phase = "down" /\ base = None
    /\ known = {} /\ eligible = {} /\ queue = {} /\ visited = {} /\ selected = {}
    /\ skipped = {} /\ failed = {}

----------------------------------------------------------------------------
(* ApplySelected: a selection is added to the settings s.                  *)

\* The hosts that the ProxyJump list of a says h is reached through: each
\* hop through the one before, a itself through the last.
Before(a, h) ==
    LET route == Append(config[a].jumps, a)
    IN  {route[i] : i \in {j \in 1..Len(route) - 1 : route[j + 1] = h}}

Through(sel, h) == UNION {Before(a, h) : a \in sel}

\* The hosts whose jump host is set: the new ones.
Rerouted(s, sel) == sel

\* Mutant: the path of a hop that exists is not looked at.
RoutesAgreeNew(s, sel) == \A h \in sel : Cardinality(Through(sel, h)) <= 1

\* No two lists disagree about a new host, nor one with a host that exists.
RoutesAgree(s, sel) ==
    /\ \A h \in Rerouted(s, sel) : Cardinality(Through(sel, h)) <= 1
    /\ \A h \in HostsOf(s) \ Rerouted(s, sel) : Through(sel, h) \subseteq {s[h].jump}

\* The settings with the selection and the keys that are not registered yet.
ApplySelected(s, sel) ==
    [i \in Item |->
        IF i \in Rerouted(s, sel)
          THEN [name |-> i, key |-> IdentityFile[i],
                jump |-> IF Through(sel, i) = {} THEN None ELSE CHOOSE h \in Through(sel, i) : TRUE]
          ELSE IF i \in {IdentityFile[a] : a \in sel} /\ s[i] = None THEN [path |-> "file"]
          ELSE s[i]]

\* No error from ApplySelected, nor from the validation in Store.Update.
CanImport(s, sel) ==
    /\ \A a \in sel : /\ config[a] # None /\ config[a].usable
                      /\ s[a] = None
                      /\ Range(config[a].jumps) \subseteq sel \cup HostsOf(s)
    /\ RoutesAgree(s, sel)
    /\ Validate(ApplySelected(s, sel))

----------------------------------------------------------------------------
(* AutoImport.                                                             *)

\* The config and the store are read.
Start ==
    /\ phase = "down"
    /\ phase' = "prune"
    /\ known' = HostsOf(saved)
    /\ eligible' = {a \in Aliases \ HostsOf(saved) : config[a].usable}
    /\ skipped' = {a \in Aliases \ HostsOf(saved) : ~config[a].usable}
    /\ base' = IF base = None THEN saved ELSE base
    /\ UNCHANGED <<file, config, saved, queue, visited, selected, failed>>

\* There is no config, it cannot be read, or the import is switched off.
StartNoImport ==
    /\ phase = "down"
    /\ phase' = "up"
    /\ base' = None
    /\ UNCHANGED <<file, config, saved, runVars>>

\* Mutant: a hop that exists already counts as missing.
HopMissingNew(a) == \E h \in Range(config[a].jumps) : h \notin eligible

HopMissing(a) == \E h \in Range(config[a].jumps) : h \notin eligible \cup known

\* One alias fewer in the loop over what is eligible.
Prune(a) ==
    /\ phase = "prune"
    /\ a \in eligible /\ HopMissing(a)
    /\ eligible' = eligible \ {a}
    /\ skipped' = skipped \cup {a}
    /\ UNCHANGED <<file, config, saved, phase, known, queue, visited, selected, failed, base>>

PruneDone ==
    /\ phase = "prune"
    /\ \A a \in eligible : ~HopMissing(a)
    /\ phase' = "groups"
    /\ UNCHANGED <<file, config, saved, runVars, base>>

\* Mutant: from an alias to its hops only.
NeighborsUp(a) == eligible \cap Range(config[a].jumps)

Neighbors(a) ==
    {b \in eligible : b \in Range(config[a].jumps) \/ a \in Range(config[b].jumps)}

GroupBegins(a) ==
    /\ phase = "groups"
    /\ a \in eligible \ visited
    /\ queue' = {a} /\ selected' = {}
    /\ phase' = "grow"
    /\ UNCHANGED <<file, config, saved, known, eligible, visited, skipped, failed, base>>

\* Of these aliases, the ones the loop does not pass over.
NotYet(s) == s \ visited

\* An alias leaves the queue, its neighbours enter it.
GroupGrows(a) ==
    /\ phase = "grow"
    /\ a \in queue
    /\ visited' = visited \cup {a} /\ selected' = selected \cup {a}
    /\ queue' = (queue \cup NotYet(Neighbors(a))) \ {a}
    /\ UNCHANGED <<file, config, saved, phase, known, eligible, skipped, failed, base>>

GroupSaved ==
    /\ phase = "grow" /\ queue = {}
    /\ CanImport(saved, selected)
    /\ saved' = ApplySelected(saved, selected)
    /\ phase' = "groups" /\ selected' = {}
    /\ UNCHANGED <<file, config, known, eligible, queue, visited, skipped, failed, base>>

GroupRefused ==
    /\ phase = "grow" /\ queue = {}
    /\ ~CanImport(saved, selected)
    /\ skipped' = skipped \cup selected
    /\ phase' = "groups" /\ selected' = {}
    /\ UNCHANGED <<file, config, saved, known, eligible, queue, visited, failed, base>>

\* A key file has gone meanwhile, or the database fails: all is rolled back.
GroupFails ==
    /\ phase = "grow" /\ queue = {}
    /\ skipped' = skipped \cup selected /\ failed' = failed \cup selected
    /\ phase' = "groups" /\ selected' = {}
    /\ UNCHANGED <<file, config, saved, known, eligible, queue, visited, base>>

GroupsDone ==
    /\ phase = "groups"
    /\ eligible \subseteq visited
    /\ phase' = "up"
    /\ known' = {} /\ eligible' = {} /\ visited' = {}
    /\ UNCHANGED <<file, config, saved, queue, selected, skipped, failed, base>>

----------------------------------------------------------------------------
(* The running program.                                                    *)

\* importConfig: a selection in one transaction.
SelectionImported ==
    /\ phase = "up"
    /\ \E sel \in (SUBSET Aliases) \ {{}} : CanImport(saved, sel) /\ saved' = ApplySelected(saved, sel)
    /\ base' = None /\ skipped' = {} /\ failed' = {}
    /\ UNCHANGED <<file, config, phase, known, eligible, queue, visited, selected>>

\* A host is saved or deleted by hand.
HostEdited ==
    /\ phase = "up"
    /\ \E h \in HostId :
          \/ \E j \in HostId \cup {None} :
                saved' = [saved EXCEPT ![IdentityFile[h]] = [path |-> "file"],
                              ![h] = [name |-> h, key |-> IdentityFile[h], jump |-> j]]
          \/ saved[h] # None /\ saved' = [saved EXCEPT ![h] = None]
    /\ Validate(saved')
    /\ base' = None /\ skipped' = {} /\ failed' = {}
    /\ UNCHANGED <<file, config, phase, known, eligible, queue, visited, selected>>

\* The program ends; what a start had done stays.
Killed ==
    /\ phase # "down"
    /\ base' = IF phase = "up" THEN None ELSE base
    /\ phase' = "down"
    /\ known' = {} /\ eligible' = {} /\ queue' = {} /\ visited' = {} /\ selected' = {}
    /\ skipped' = {} /\ failed' = {}
    /\ UNCHANGED <<file, config, saved>>

\* What AutoImport does by itself.
ImportStep ==
    \/ (\E a \in HostId : Prune(a)) \/ PruneDone
    \/ (\E a \in HostId : GroupBegins(a)) \/ (\E a \in HostId : GroupGrows(a))
    \/ GroupSaved \/ GroupRefused \/ GroupFails \/ GroupsDone

Next == Start \/ StartNoImport \/ ImportStep \/ SelectionImported \/ HostEdited \/ Killed

Spec == Init /\ [][Next]_vars

----------------------------------------------------------------------------
(* What the import should do, from the settings s it begins with.          *)

\* The largest set of usable new aliases with all hops in it or registered.
Importable(s) ==
    LET new == {a \in Aliases \ HostsOf(s) : config[a].usable}
    IN  UNION {t \in SUBSET new : \A a \in t : Range(config[a].jumps) \subseteq t \cup HostsOf(s)}

\* The sets that no ProxyJump connects with the rest, and the least of them.
Closed(s, t) ==
    \A a, b \in Importable(s) :
        b \in Range(config[a].jumps) => (a \in t <=> b \in t)
Groups(s) ==
    LET closed == {t \in (SUBSET Importable(s)) \ {{}} : Closed(s, t)}
    IN  {t \in closed : \A u \in closed : u \subseteq t => u = t}

(***************************************************************************)
(* A start that got to its end, after any number of starts that were       *)
(* killed, has saved exactly the groups that fit the settings it began     *)
(* with: one group does not block another, and the order does not matter   *)
(* (startup.go:28-29, 76).  The settings page lists the others as skipped. *)
(***************************************************************************)
ImportIsComplete ==
    phase = "up" /\ base # None =>
        LET fit == {g \in Groups(base) : CanImport(base, g) /\ g \cap failed = {}}
        IN  /\ saved = ApplySelected(base, UNION fit)
            /\ skipped = {a \in Aliases : saved[a] = None}

(***************************************************************************)
(* At no moment, also after a kill, is a part of a group saved             *)
(* (startup.go:29 "committed as one transaction").                         *)
(***************************************************************************)
GroupsWhole ==
    base # None => \A g \in Groups(base) : g \subseteq HostsOf(saved) \/ g \cap HostsOf(saved) = {}

(***************************************************************************)
(* An imported host is reached over the hops its ProxyJump list names, in  *)
(* their order, whatever the other entries say (importer.go:74-106), and   *)
(* the import at a start changes no record that exists (startup.go:28      *)
(* "never ... changes existing records").                                  *)
(***************************************************************************)
RoutesFollowConfig ==
    base # None =>
        /\ \A a \in HostsOf(saved) \ HostsOf(base) :
              \A h \in HostsOf(saved) : Before(a, h) \subseteq {saved[h].jump}
        /\ \A i \in Present(base) : saved[i] = base[i]

(***************************************************************************)
(* A host that a start takes in has the hops ssh would take, whatever      *)
(* holds of the conditions in the file and whatever the files it includes  *)
(* say (parser.go:186 "Conditional routing can change ProxyJump or         *)
(* identity. Never silently bypass it.").  Not so: of several Include      *)
(* lines Parse looks at the first only, and that may be "Include none".    *)
(***************************************************************************)
NothingBypassed ==
    base # None =>
        \A a \in (HostsOf(saved) \ HostsOf(base)) \cap Aliases :
            \A holds \in SUBSET Keys(file, {"match"}), sets \in SUBSET Includes(file), h \in HostId :
                SSHJumps(file, Read(file, a, holds), sets, h) = config[a].jumps
=============================================================================
