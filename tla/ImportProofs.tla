---------------------------- MODULE ImportProofs ----------------------------
(***************************************************************************)
(* Proofs of the properties of StartupImport, for any aliases, keys, SSH   *)
(* configs and length of routes.                                           *)
(***************************************************************************)
EXTENDS StartupImport, DeskStateProofs, FiniteSetTheorems

\* The hosts that were imported since the start began.
Imported == HostsOf(saved) \ HostsOf(base)

\* The aliases whose group was tried to the end.
Tried == visited \ selected

\* The config is what Parse makes of the file.
ParsedInv ==
    /\ config = Parse(file)
    /\ \A h \in HostsOf(saved) : saved[h].name = h

\* What a phase has not used yet or has used up.
PhaseInv ==
    /\ phase \in {"prune", "groups", "grow"} => base # None
    /\ phase # "grow" => queue = {} /\ selected = {}
    /\ phase \in {"down", "up"} => known = {} /\ eligible = {} /\ visited = {}
    /\ phase \in {"down", "prune"} => visited = {} /\ failed = {}
    /\ phase = "down" => skipped = {}

\* The settings are those that the start began with and some whole groups
\* that fit them, whichever start saved them.
BaseInv ==
    base # None =>
        /\ Validate(base)
        /\ \A h \in HostsOf(base) : base[h].name = h
        /\ Imported \subseteq Importable(base)
        /\ Closed(base, Imported)
        /\ saved = ApplySelected(base, Imported)
        /\ \A g \in Groups(base) : g \subseteq Imported => CanImport(base, g) /\ g \cap failed = {}

\* What could be imported is known or still eligible, what is skipped is neither.
RunInv ==
    phase \in {"prune", "groups", "grow"} =>
        /\ HostsOf(base) \subseteq known /\ known \subseteq HostsOf(saved)
        /\ Closed(base, known)
        /\ Importable(base) \subseteq eligible \cup known
        /\ \A a \in eligible : config[a].usable
        /\ skipped = Aliases \ (HostsOf(saved) \cup (eligible \ Tried))
        /\ phase = "prune" => known = HostsOf(saved)
        /\ phase # "prune" => eligible \subseteq Importable(base)

\* The group at hand grows from one alias, and only along ProxyJumps.
GrowInv ==
    phase = "grow" =>
        /\ queue \cap visited = {}
        /\ \A a \in selected : Neighbors(a) \subseteq selected \cup queue
        /\ \E a \in selected \cup queue :
              \A t \in SUBSET Importable(base) :
                  a \in t /\ Closed(base, t) => selected \cup queue \subseteq t

\* Groups that were tried are done with.
TriedInv ==
    phase \in {"groups", "grow"} =>
        /\ \A a \in Tried : Neighbors(a) \subseteq Tried
        /\ (eligible \ Tried) \cap HostsOf(saved) = {}
        /\ failed \subseteq Tried
        /\ \A g \in Groups(base) :
              g \subseteq Tried => g \subseteq Imported \/ ~CanImport(base, g) \/ g \cap failed # {}

Inv ==
    /\ TypeOK /\ ParsedInv /\ PhaseInv /\ BaseInv /\ RunInv /\ GrowInv /\ TriedInv
    /\ ImportIsComplete
----------------------------------------------------------------------------
(* The parser.                                                             *)

\* Of lines there is an earliest.
LEMMA EarliestLine ==
    ASSUME NEW T \in SUBSET Nat, T # {}
    PROVE  Earliest(T) \in T
BY NatMin DEF Earliest

\* Every alias of a file is a candidate.
LEMMA ParseCandidates ==
    ASSUME NEW f \in Files, NEW a \in HostId
    PROVE  Parse(f)[a] = None \/ Parse(f)[a] \in Candidate
<1>1. Usable(f, a) \in BOOLEAN
  BY DEF Usable
<1>2. <<>> \in Seq(HostId)
  OBVIOUS
<1>3. Jumps(f, a) \in Seq(HostId \cup {None})
  <2> DEFINE T == Directives(f, "proxyjump", a)
  <2>1. CASE T # {} /\ Value(f, "proxyjump", a) # None
    <3>1. T \in SUBSET Nat
      BY DEF Directives, Keys
    <3>2. Earliest(T) \in T
      BY <2>1, <3>1, EarliestLine
    <3>3. Earliest(T) \in 1..Len(f) /\ f[Earliest(T)].key = "proxyjump"
      BY <3>2 DEF Directives, Keys
    <3>4. f[Earliest(T)].value \in Seq(HostId \cup {None}) \cup {None}
      BY <3>3, ConfigAssumption
    <3>5. f[Earliest(T)].value = Value(f, "proxyjump", a)
      BY DEF Value
    <3> QED
      BY <2>1, <3>4, <3>5 DEF Jumps, Given
  <2>2. CASE ~(T # {} /\ Value(f, "proxyjump", a) # None)
    BY <2>2 DEF Jumps, Given
  <2> QED
    BY <2>1, <2>2
<1>4. (IF Usable(f, a) THEN Jumps(f, a) ELSE <<>>) \in Seq(HostId)
  <2>1. CASE Usable(f, a)
    <3>1. \A i \in 1..Len(Jumps(f, a)) : Jumps(f, a)[i] # None
      BY <2>1 DEF Usable
    <3>2. \A s \in Seq(HostId \cup {None}) :
             (\A i \in 1..Len(s) : s[i] # None) => s \in Seq(HostId)
      OBVIOUS
    <3> QED
      BY <1>3, <2>1, <3>1, <3>2
  <2> QED
    BY <1>2, <2>1
<1>5. Parse(f)[a] = None \/ Parse(f)[a] = [usable |-> Usable(f, a), jumps |-> IF Usable(f, a) THEN Jumps(f, a) ELSE <<>>]
  BY DEF Parse
<1> DEFINE j == IF Usable(f, a) THEN Jumps(f, a) ELSE <<>>
           u == Usable(f, a)
<1>6. \A x \in BOOLEAN, y \in Seq(HostId) : [usable |-> x, jumps |-> y] \in Candidate
  BY DEF Candidate
<1>7. j \in Seq(HostId) /\ u \in BOOLEAN /\ (Parse(f)[a] = None \/ Parse(f)[a] = [usable |-> u, jumps |-> j])
  BY <1>1, <1>4, <1>5
<1> HIDE DEF j, u
<1> QED
  BY <1>6, <1>7

\* The config that was read.
ConfigOK == \A a \in HostId : config[a] = None \/ config[a] \in Candidate

----------------------------------------------------------------------------
(* Groups.                                                                 *)

\* What can be imported is new and usable, its hops can be imported too or
\* exist, and it is the largest such set.
LEMMA ImportableFacts ==
    ASSUME NEW s
    PROVE  /\ \A a \in Importable(s) : /\ a \in Aliases /\ a \notin HostsOf(s) /\ config[a].usable
                                       /\ Range(config[a].jumps) \subseteq Importable(s) \cup HostsOf(s)
           /\ \A t : /\ t \subseteq {a \in Aliases \ HostsOf(s) : config[a].usable}
                     /\ \A a \in t : Range(config[a].jumps) \subseteq t \cup HostsOf(s)
                     => t \subseteq Importable(s)
<1> DEFINE new == {a \in Aliases \ HostsOf(s) : config[a].usable}
           fits(t) == \A a \in t : Range(config[a].jumps) \subseteq t \cup HostsOf(s)
<1>1. Importable(s) = UNION {t \in SUBSET new : fits(t)}
  BY DEF Importable
<1>2. ASSUME NEW a \in Importable(s)
      PROVE  a \in new /\ Range(config[a].jumps) \subseteq Importable(s) \cup HostsOf(s)
  <2>1. PICK t \in SUBSET new : fits(t) /\ a \in t
    BY <1>1, <1>2
  <2>2. t \subseteq Importable(s)
    BY <1>1, <2>1
  <2> QED
    BY <2>1, <2>2
<1>3. ASSUME NEW t, t \subseteq new, fits(t)
      PROVE  t \subseteq Importable(s)
  <2>1. t \in SUBSET new
    BY <1>3
  <2> HIDE DEF new, fits
  <2> QED
    BY <1>1, <1>3, <2>1
<1> QED
  BY <1>2, <1>3

\* Closed sets stay closed when they are combined.
LEMMA ClosedSets ==
    ASSUME NEW s, NEW t, NEW u, Closed(s, t), Closed(s, u)
    PROVE  Closed(s, t \cap u) /\ Closed(s, t \cup u) /\ Closed(s, t \ u)
BY DEF Closed

\* A closed set that is in every closed set with some alias of it is a group.
LEMMA GroupIntro ==
    ASSUME NEW s, NEW g, g \subseteq Importable(s), Closed(s, g), NEW a \in g,
           \A u \in SUBSET Importable(s) : a \in u /\ Closed(s, u) => g \subseteq u
    PROVE  g \in Groups(s)
<1>1. ASSUME NEW u \in SUBSET Importable(s), u # {}, Closed(s, u), u \subseteq g
      PROVE  u = g
  <2>1. CASE a \in u
    BY <1>1, <2>1
  <2>2. CASE a \notin u
    <3>1. Closed(s, g \ u) /\ g \ u \in SUBSET Importable(s) /\ a \in g \ u
      BY <1>1, <2>2, ClosedSets
    <3>2. g \subseteq g \ u
      BY <3>1
    <3> QED
      BY <1>1, <3>2
  <2> QED
    BY <2>1, <2>2
<1> DEFINE closed == {t \in (SUBSET Importable(s)) \ {{}} : Closed(s, t)}
<1>2. g \in closed
  <2>1. g \in SUBSET Importable(s) /\ g \notin {{}}
    OBVIOUS
  <2> QED
    BY <2>1
<1>3. \A u \in closed : u \subseteq g => u = g
  BY <1>1
<1>4. Groups(s) = {t \in closed : \A u \in closed : u \subseteq t => u = t}
  BY DEF Groups
<1> HIDE DEF closed
<1> QED
  BY <1>2, <1>3, <1>4

\* A group is closed, and no closed set divides it.
LEMMA GroupFacts ==
    ASSUME NEW s, NEW g \in Groups(s)
    PROVE  /\ g # {} /\ g \subseteq Importable(s) /\ Closed(s, g)
           /\ \A t : Closed(s, t) => g \subseteq t \/ g \cap t = {}
<1>1. /\ g # {} /\ g \subseteq Importable(s) /\ Closed(s, g)
      /\ \A u \in SUBSET Importable(s) : u # {} /\ Closed(s, u) /\ u \subseteq g => u = g
  <2> DEFINE closed == {t \in (SUBSET Importable(s)) \ {{}} : Closed(s, t)}
  <2>1. Groups(s) = {t \in closed : \A u \in closed : u \subseteq t => u = t}
    BY DEF Groups
  <2>2. \A t : t \in closed <=> t \in SUBSET Importable(s) /\ t # {} /\ Closed(s, t)
    OBVIOUS
  <2> HIDE DEF closed
  <2>3. g \in closed /\ \A u \in closed : u \subseteq g => u = g
    BY <2>1
  <2> QED
    BY <2>2, <2>3
<1>2. ASSUME NEW t, Closed(s, t), g \cap t # {}
      PROVE  g \subseteq t
  <2>1. Closed(s, g \cap t) /\ g \cap t \in SUBSET Importable(s) /\ g \cap t \subseteq g
    BY <1>1, <1>2, ClosedSets
  <2> QED
    BY <1>1, <1>2, <2>1
<1> QED
  BY <1>1, <1>2

\* Whatever can be imported is in a group.
LEMMA GroupOf ==
    ASSUME NEW s, NEW a \in Importable(s)
    PROVE  \E g \in Groups(s) : a \in g
<1> DEFINE g == {b \in Importable(s) : \A u \in SUBSET Importable(s) : a \in u /\ Closed(s, u) => b \in u}
<1>1. Closed(s, g)
  BY DEF Closed
<1>2. a \in g /\ g \subseteq Importable(s)
  OBVIOUS
<1>3. \A u \in SUBSET Importable(s) : a \in u /\ Closed(s, u) => g \subseteq u
  OBVIOUS
<1> HIDE DEF g
<1> QED
  BY <1>1, <1>2, <1>3, GroupIntro
----------------------------------------------------------------------------
(* ApplySelected.                                                          *)

\* A host is reached through hops of the lists that name it.
LEMMA BeforeHops ==
    ASSUME ConfigOK, NEW a \in Aliases, NEW h
    PROVE  /\ Before(a, h) \subseteq Range(config[a].jumps)
           /\ Before(a, h) # {} => h = a \/ h \in Range(config[a].jumps)
           /\ Range(config[a].jumps) \subseteq HostId
<1> DEFINE jumps == config[a].jumps
           route == Append(jumps, a)
<1>1. jumps \in Seq(HostId) /\ a \in HostId
  BY DEF ConfigOK, Aliases, Candidate
<1>2. Before(a, h) = {route[i] : i \in {j \in 1..Len(route) - 1 : route[j + 1] = h}}
  BY DEF Before
<1> HIDE DEF jumps
<1>3. Range(jumps) \subseteq HostId /\ \A i \in 1..Len(jumps) : jumps[i] \in Range(jumps)
  BY <1>1 DEF Range
<1>4. /\ Len(route) = Len(jumps) + 1 /\ Len(jumps) \in Nat
      /\ \A i \in 1..Len(jumps) : route[i] = jumps[i]
      /\ route[Len(jumps) + 1] = a
  BY <1>1
<1>5. \A j \in 1..Len(route) - 1 :
         j \in 1..Len(jumps) /\ (j + 1 = Len(jumps) + 1 \/ j + 1 \in 1..Len(jumps))
  <2> HIDE DEF route
  <2> QED
    BY <1>4
<1> HIDE DEF route
<1>6. \A j \in 1..Len(route) - 1 :
         route[j] \in Range(jumps) /\ (route[j + 1] = a \/ route[j + 1] \in Range(jumps))
  BY <1>3, <1>4, <1>5
<1>7. Before(a, h) \subseteq Range(jumps) /\ (Before(a, h) # {} => h = a \/ h \in Range(jumps))
  BY <1>2, <1>6
<1> QED
  BY <1>3, <1>7 DEF jumps

\* Through which hosts, for a whole selection.
LEMMA ThroughHops ==
    ASSUME ConfigOK, NEW sel \in SUBSET Aliases, NEW h
    PROVE  /\ Through(sel, h) \subseteq HostId
           /\ \A x \in Through(sel, h) :
                 \E a \in sel : /\ x \in Before(a, h) /\ x \in Range(config[a].jumps)
                                /\ (h = a \/ h \in Range(config[a].jumps))
BY BeforeHops DEF Through

\* The jump host that a new host gets.
Jump(sel, i) == IF Through(sel, i) = {} THEN None ELSE CHOOSE h \in Through(sel, i) : TRUE

\* The records after an import.
LEMMA ApplyValue ==
    ASSUME NEW s, NEW sel \in SUBSET HostId, NEW i \in Item
    PROVE  /\ i \in sel => ApplySelected(s, sel)[i] = [name |-> i, key |-> IdentityFile[i], jump |-> Jump(sel, i)]
           /\ i \notin sel /\ i \in {IdentityFile[a] : a \in sel} /\ s[i] = None
                 => ApplySelected(s, sel)[i] = [path |-> "file"]
           /\ i \notin sel /\ (i \notin {IdentityFile[a] : a \in sel} \/ s[i] # None)
                 => ApplySelected(s, sel)[i] = s[i]
BY DEF ApplySelected, Rerouted, Jump

\* They are settings, with the hosts of the selection besides those before.
LEMMA ApplySettings ==
    ASSUME ConfigOK, NEW s \in Settings, NEW sel \in SUBSET Aliases
    PROVE  LET t == ApplySelected(s, sel)
           IN  /\ t \in Settings
               /\ HostsOf(t) = HostsOf(s) \cup sel
               /\ \A i \in Present(s) \ sel : t[i] = s[i]
               /\ \A h \in sel : t[h].name = h /\ t[h].key = IdentityFile[h] /\ t[h].jump = Jump(sel, h)
               /\ \A h \in HostsOf(s) \ sel : t[h] = s[h]
               /\ \A h \in sel : t[IdentityFile[h]] # None
               /\ \A k \in KeyId : s[k] # None => t[k] # None
               /\ \A i \in TunnelId \cup ServiceId : t[i] = s[i]
<1> DEFINE t == ApplySelected(s, sel)
<1>1. sel \in SUBSET HostId
  BY DEF Aliases
<1>2. \A i \in sel : Jump(sel, i) \in HostId \cup {None}
  BY ThroughHops DEF Jump
<1>3. \A a \in HostId : IdentityFile[a] \in KeyId
  BY ImportAssumption
<1>4. /\ \A i \in sel : t[i] = [name |-> i, key |-> IdentityFile[i], jump |-> Jump(sel, i)]
      /\ \A i \in Item : i \notin sel /\ i \in {IdentityFile[a] : a \in sel} /\ s[i] = None => t[i] = [path |-> "file"]
      /\ \A i \in Item : i \notin sel /\ (i \notin {IdentityFile[a] : a \in sel} \/ s[i] # None) => t[i] = s[i]
  <2>1. \A i \in sel : i \in Item
    BY <1>1 DEF Item
  <2>2. \A i \in Item :
           /\ i \in sel => t[i] = [name |-> i, key |-> IdentityFile[i], jump |-> Jump(sel, i)]
           /\ i \notin sel /\ i \in {IdentityFile[a] : a \in sel} /\ s[i] = None => t[i] = [path |-> "file"]
           /\ i \notin sel /\ (i \notin {IdentityFile[a] : a \in sel} \/ s[i] # None) => t[i] = s[i]
    BY <1>1, ApplyValue
  <2> HIDE DEF t
  <2> QED
    BY <2>1, <2>2
<1>5. t = [i \in Item |-> t[i]]
  BY DEF ApplySelected
<1> HIDE DEF t
<1>6. /\ s = [i \in Item |-> s[i]]
      /\ \A i \in KeyId : s[i] \in KeyRec \cup {None}
      /\ \A i \in HostId : s[i] \in HostRec \cup {None}
      /\ \A i \in TunnelId : s[i] \in TunnelRec \cup {None}
      /\ \A i \in ServiceId : s[i] \in ServiceRec \cup {None}
  BY SettingsElim
<1>7. \A i \in sel : t[i] \in HostRec
  <2>1. \A x \in HostId, y \in KeyId, z \in HostId \cup {None} : [name |-> x, key |-> y, jump |-> z] \in HostRec
    BY ImportAssumption DEF HostRec
  <2> QED
    BY <1>1, <1>2, <1>3, <1>4, <2>1
<1>8. [path |-> "file"] \in KeyRec
  BY DEF KeyRec, Path
<1>9. \A i \in HostId : i \notin KeyId /\ i \notin TunnelId /\ i \notin ServiceId
  BY ItemAssumption
<1>10. \A i \in HostId \ sel : t[i] = s[i]
  <2> TAKE i \in HostId \ sel
  <2>1. i \in Item /\ i \notin sel /\ i \notin {IdentityFile[a] : a \in sel}
    BY <1>1, <1>3, <1>9 DEF Item
  <2> QED
    BY <1>4, <2>1
<1>11. \A i \in TunnelId \cup ServiceId : t[i] = s[i]
  <2>1. \A i \in TunnelId \cup ServiceId : i \notin sel /\ i \notin KeyId /\ i \in Item
    BY <1>1, <1>9, ItemAssumption DEF Item
  <2> QED
    BY <1>1, <1>3, <1>4, <2>1
<1>12. \A k \in KeyId : k \in Item /\ k \notin sel /\ (t[k] = s[k] \/ t[k] = [path |-> "file"])
  BY <1>1, <1>4, <1>9 DEF Item
<1>13. t \in Settings
  <2>1. \A i \in KeyId : t[i] \in KeyRec \cup {None}
    BY <1>6, <1>8, <1>12
  <2>2. \A i \in HostId : t[i] \in HostRec \cup {None}
    BY <1>6, <1>7, <1>10
  <2>3. /\ \A i \in TunnelId : t[i] \in TunnelRec \cup {None}
        /\ \A i \in ServiceId : t[i] \in ServiceRec \cup {None}
    BY <1>6, <1>11
  <2> QED
    BY <1>5, <2>1, <2>2, <2>3, SettingsIntro
<1>14. None \notin KeyRec /\ None \notin HostRec
  BY ItemAssumption
<1>15. HostsOf(t) = HostsOf(s) \cup sel
  <2>1. \A i \in sel : t[i] # None
    BY <1>7, <1>14
  <2>2. \A i \in HostId : i \in HostsOf(t) <=> t[i] # None
    BY DEF HostsOf, Present, Item
  <2>3. \A i \in HostId : i \in HostsOf(s) <=> s[i] # None
    BY DEF HostsOf, Present, Item
  <2>4. HostsOf(t) \subseteq HostId /\ HostsOf(s) \subseteq HostId
    BY DEF HostsOf
  <2> QED
    BY <1>1, <1>10, <2>1, <2>2, <2>3, <2>4
<1>16. \A i \in Present(s) \ sel : t[i] = s[i]
  BY <1>4 DEF Present
<1>17. \A h \in sel : t[h].name = h /\ t[h].key = IdentityFile[h] /\ t[h].jump = Jump(sel, h)
  <2>1. \A x, y, z, r : r = [name |-> x, key |-> y, jump |-> z] => r.name = x /\ r.key = y /\ r.jump = z
    OBVIOUS
  <2>2. \A h \in sel : t[h] = [name |-> h, key |-> IdentityFile[h], jump |-> Jump(sel, h)]
    BY <1>4
  <2> TAKE h \in sel
  <2>3. t[h] = [name |-> h, key |-> IdentityFile[h], jump |-> Jump(sel, h)]
    BY <2>2
  <2> QED
    BY <2>1, <2>3
<1>18. \A k \in KeyId : s[k] # None => t[k] # None
  BY <1>8, <1>12, <1>14
<1>19. \A h \in sel : t[IdentityFile[h]] # None
  <2> TAKE h \in sel
  <2>1. IdentityFile[h] \in KeyId /\ IdentityFile[h] \in {IdentityFile[a] : a \in sel}
    BY <1>1, <1>3
  <2> QED
    BY <1>4, <1>8, <1>12, <1>14, <2>1
<1>20. \A h \in HostsOf(s) \ sel : t[h] = s[h]
  BY <1>10 DEF HostsOf
<1> QED
  BY <1>11, <1>13, <1>15, <1>16, <1>17, <1>18, <1>19, <1>20 DEF t
----------------------------------------------------------------------------
(* Imports of several groups.                                              *)

\* Whole groups.
Part(s, t) == t \subseteq Importable(s) /\ Closed(s, t)

\* No list of other groups names a host of these.
LEMMA CrossFree ==
    ASSUME ConfigOK, NEW s, NEW D, NEW E, Part(s, D), E \subseteq Importable(s), D \cap E = {},
           NEW i \in D
    PROVE  Through(E, i) = {}
<1> SUFFICES ASSUME NEW x \in Through(E, i)
             PROVE  FALSE
  OBVIOUS
<1>1. E \in SUBSET Aliases
  BY ImportableFacts
<1>2. PICK a \in E : i = a \/ i \in Range(config[a].jumps)
  BY <1>1, ThroughHops
<1>3. a \in Importable(s) /\ i \in Importable(s) /\ a \notin D
  BY DEF Part
<1> QED
  BY <1>2, <1>3 DEF Part, Closed

\* Other groups do not change through what a host is reached.
LEMMA ThroughPart ==
    ASSUME ConfigOK, NEW s, NEW D, NEW E, Part(s, D), D \subseteq E, E \subseteq Importable(s),
           NEW i \in D
    PROVE  Through(E, i) = Through(D, i) /\ Jump(E, i) = Jump(D, i)
<1>1. Through(E \ D, i) = {}
  <2>1. E \ D \subseteq Importable(s) /\ D \cap (E \ D) = {}
    OBVIOUS
  <2> QED
    BY <2>1, CrossFree
<1>2. Through(E, i) = Through(D, i) \cup Through(E \ D, i)
  BY DEF Through
<1>3. Through(E, i) = Through(D, i)
  BY <1>1, <1>2
<1> QED
  BY <1>3 DEF Jump

\* A new host is reached through one of its group or one that existed.
LEMMA JumpPart ==
    ASSUME ConfigOK, NEW s, NEW D, Part(s, D), NEW i \in D
    PROVE  Jump(D, i) \in D \cup HostsOf(s) \cup {None}
<1>1. D \in SUBSET Aliases
  BY ImportableFacts DEF Part
<1>2. \A x \in Through(D, i) : x \in D \cup HostsOf(s)
  <2> TAKE x \in Through(D, i)
  <2>1. PICK a \in D : x \in Range(config[a].jumps)
    BY <1>1, ThroughHops
  <2>2. x \in Importable(s) \cup HostsOf(s) /\ a \in Importable(s)
    BY <2>1, ImportableFacts DEF Part
  <2>3. x \in Importable(s) => x \in D
    BY <2>1, <2>2 DEF Part, Closed
  <2> QED
    BY <2>2, <2>3
<1>3. Through(D, i) # {} => (CHOOSE h \in Through(D, i) : TRUE) \in Through(D, i)
  OBVIOUS
<1> QED
  BY <1>2, <1>3 DEF Jump

\* One import after another is one import.
LEMMA ApplyTwice ==
    ASSUME ConfigOK, NEW s \in Settings, NEW D, NEW g, Part(s, D), Part(s, g), D \cap g = {}
    PROVE  ApplySelected(ApplySelected(s, D), g) = ApplySelected(s, D \cup g)
<1> DEFINE t == ApplySelected(s, D)
           l == ApplySelected(t, g)
           r == ApplySelected(s, D \cup g)
<1>1. /\ D \in SUBSET Aliases /\ g \in SUBSET Aliases /\ D \cup g \in SUBSET Aliases
      /\ D \in SUBSET HostId /\ g \in SUBSET HostId /\ D \cup g \in SUBSET HostId
  BY ImportableFacts DEF Part, Aliases
<1>2. t \in Settings
  BY <1>1, ApplySettings
<1>3. Part(s, D \cup g) /\ D \cup g \subseteq Importable(s)
  BY ClosedSets DEF Part
<1>4. \A i \in HostId : \A a \in HostId : i # IdentityFile[a]
  BY ImportAssumption, ItemAssumption
<1>5. [path |-> "file"] # None
  <2>1. [path |-> "file"] \in KeyRec
    BY DEF KeyRec, Path
  <2> QED
    BY <2>1, ItemAssumption
<1>6. ASSUME NEW i \in Item
      PROVE  l[i] = r[i]
  <2> DEFINE K(x) == {IdentityFile[a] : a \in x}
  <2>1. /\ i \in g => l[i] = [name |-> i, key |-> IdentityFile[i], jump |-> Jump(g, i)]
        /\ i \notin g /\ i \in K(g) /\ t[i] = None => l[i] = [path |-> "file"]
        /\ i \notin g /\ (i \notin K(g) \/ t[i] # None) => l[i] = t[i]
    BY <1>1, ApplyValue
  <2>2. /\ i \in D => t[i] = [name |-> i, key |-> IdentityFile[i], jump |-> Jump(D, i)]
        /\ i \notin D /\ i \in K(D) /\ s[i] = None => t[i] = [path |-> "file"]
        /\ i \notin D /\ (i \notin K(D) \/ s[i] # None) => t[i] = s[i]
    BY <1>1, ApplyValue
  <2>3. /\ i \in D \cup g => r[i] = [name |-> i, key |-> IdentityFile[i], jump |-> Jump(D \cup g, i)]
        /\ i \notin D \cup g /\ i \in K(D \cup g) /\ s[i] = None => r[i] = [path |-> "file"]
        /\ i \notin D \cup g /\ (i \notin K(D \cup g) \/ s[i] # None) => r[i] = s[i]
    BY <1>1, ApplyValue
  <2>4. K(D \cup g) = K(D) \cup K(g)
    OBVIOUS
  <2>5. i \in D \cup g => i \notin K(D \cup g)
    BY <1>1, <1>4
  <2> HIDE DEF K, t, l, r
  <2>6. CASE i \in g
    <3>1. Jump(D \cup g, i) = Jump(g, i)
      BY <1>3, <2>6, ThroughPart
    <3> QED
      BY <2>1, <2>3, <2>6, <3>1
  <2>7. CASE i \in D
    <3>1. Jump(D \cup g, i) = Jump(D, i)
      BY <1>3, <2>7, ThroughPart
    <3>2. l[i] = t[i]
      BY <2>1, <2>4, <2>5, <2>7
    <3> QED
      BY <2>2, <2>3, <2>7, <3>1, <3>2
  <2>8. CASE i \notin D \cup g
    BY <1>5, <2>1, <2>2, <2>3, <2>4, <2>8
  <2> QED
    BY <2>6, <2>7, <2>8
<1>7. l = [i \in Item |-> l[i]] /\ r = [i \in Item |-> r[i]]
  BY DEF ApplySelected
<1> HIDE DEF l, r
<1>8. l = r
  BY <1>6, <1>7
<1> QED
  BY <1>8 DEF l, r, t

\* No import changes nothing.
LEMMA ApplyNothing ==
    ASSUME NEW s \in Settings
    PROVE  ApplySelected(s, {}) = s
<1> DEFINE t == ApplySelected(s, {})
<1>1. \A i \in Item : t[i] = s[i]
  BY DEF ApplySelected, Rerouted
<1>2. s = [i \in Item |-> s[i]] /\ t = [i \in Item |-> t[i]]
  BY SettingsElim DEF ApplySelected
<1> HIDE DEF t
<1>3. t = s
  BY <1>1, <1>2
<1> QED
  BY <1>3 DEF t

\* A host in its list.
LEMMA HostsElim ==
    ASSUME NEW s, NEW h \in HostId
    PROVE  h \in HostsOf(s) <=> s[h] # None
BY DEF HostsOf, Present, Item

\* Valid settings, every host with its id as its name.
Sound(s) == s \in Settings /\ Validate(s) /\ \A h \in HostsOf(s) : s[h].name = h

\* Other groups do not change the routes of the hosts of these groups and of
\* those that existed.
LEMMA SameRoute ==
    ASSUME ConfigOK, NEW s, Sound(s), NEW D, NEW E, Part(s, D), Part(s, E), D \subseteq E,
           NEW h \in HostsOf(s) \cup D
    PROVE  ChainOK(ApplySelected(s, D), h) <=> ChainOK(ApplySelected(s, E), h)
<1> DEFINE t == ApplySelected(s, D)
           u == ApplySelected(s, E)
           X == HostsOf(s) \cup D \cup {None}
<1>1. D \in SUBSET Aliases /\ E \in SUBSET Aliases /\ HostsOf(s) \cap E = {} /\ D \subseteq HostId /\ HostsOf(s) \subseteq HostId
  BY ImportableFacts DEF Part, HostsOf, Aliases
<1>2. None \notin HostId
  BY ItemAssumption DEF Item
<1>3. /\ t \in Settings /\ u \in Settings
      /\ HostsOf(t) = HostsOf(s) \cup D /\ HostsOf(u) = HostsOf(s) \cup E
      /\ \A i \in D : t[i].jump = Jump(D, i)
      /\ \A i \in E : u[i].jump = Jump(E, i)
      /\ \A i \in HostsOf(s) \ D : t[i] = s[i]
      /\ \A i \in HostsOf(s) \ E : u[i] = s[i]
  BY <1>1, ApplySettings DEF Sound
<1> HIDE DEF t, u
<1>4. \A i \in HostsOf(s) \cup D : t[i] # None /\ u[i] # None
  BY <1>1, <1>3, HostsElim
<1>5. ASSUME NEW x \in X
      PROVE  Hop(t, x) = Hop(u, x) /\ Hop(t, x) \in X
  <2>1. CASE x = None
    BY <1>2, <2>1 DEF Hop
  <2>2. CASE x \in D
    <3>1. t[x].jump = Jump(D, x) /\ u[x].jump = Jump(D, x)
      BY <1>3, <2>2, ThroughPart DEF Part
    <3>2. Jump(D, x) \in X
      BY <2>2, JumpPart
    <3> QED
      BY <1>1, <1>4, <2>2, <3>1, <3>2 DEF Hop
  <2>3. CASE x \in HostsOf(s)
    <3>1. t[x] = s[x] /\ u[x] = s[x]
      BY <1>1, <1>3, <2>3
    <3>2. s[x] # None /\ ChainOK(s, x)
      BY <1>1, <2>3, HostsElim DEF Sound, Validate, HostOK
    <3>3. s[x].jump = None \/ (s[x].jump \in HostId /\ s[s[x].jump] # None)
      BY <1>1, <1>2, <2>3, <3>2, RouteLeads
    <3>4. s[x].jump \in X
      BY <3>3, HostsElim
    <3> QED
      BY <1>1, <1>4, <2>3, <3>1, <3>4 DEF Hop
  <2> QED
    BY <2>1, <2>2, <2>3
<1>6. \A n \in 0..MaxHops : Route(t, h)[n] = Route(u, h)[n]
  <2>1. h \in X
    OBVIOUS
  <2> HIDE DEF X
  <2> QED
    BY <1>5, <2>1, RouteAgree
<1>7. ChainOK(t, h) <=> ChainOK(u, h)
  BY <1>6 DEF ChainOK
<1> QED
  BY <1>7 DEF t, u

\* What an import makes of sound settings is valid if the new hosts have routes.
LEMMA ValidPart ==
    ASSUME ConfigOK, NEW s, Sound(s), NEW E, Part(s, E)
    PROVE  Validate(ApplySelected(s, E)) <=> \A h \in E : ChainOK(ApplySelected(s, E), h)
<1> DEFINE u == ApplySelected(s, E)
<1>1. E \in SUBSET Aliases /\ E \subseteq HostId /\ HostsOf(s) \cap E = {} /\ HostsOf(s) \subseteq HostId /\ s \in Settings
  BY ImportableFacts DEF Part, HostsOf, Aliases, Sound
<1>2. /\ u \in Settings
      /\ HostsOf(u) = HostsOf(s) \cup E
      /\ \A h \in E : u[h].name = h /\ u[h].key = IdentityFile[h]
      /\ \A h \in HostsOf(s) \ E : u[h] = s[h]
      /\ \A h \in E : u[IdentityFile[h]] # None
      /\ \A k \in KeyId : s[k] # None => u[k] # None
      /\ \A i \in TunnelId \cup ServiceId : u[i] = s[i]
  BY <1>1, ApplySettings
<1>3. \A h \in HostId : u[h] # None <=> h \in HostsOf(s) \cup E
  BY <1>2, HostsElim
<1>4. \A h \in HostsOf(s) : ChainOK(u, h)
  <2>1. Part(s, {}) /\ {} \subseteq E /\ ApplySelected(s, {}) = s
    BY <1>1, ApplyNothing DEF Part, Closed
  <2>2. \A h \in HostsOf(s) : ChainOK(s, h)
    BY <1>1, HostsElim DEF Sound, Validate, HostOK
  <2>3. \A h \in HostsOf(s) : ChainOK(s, h) <=> ChainOK(u, h)
    BY <2>1, SameRoute
  <2> QED
    BY <2>2, <2>3
<1> HIDE DEF u
<1>5. \A h \in HostId : u[h] # None => u[h].name = h
  BY <1>1, <1>2, <1>3 DEF Sound
<1>6. \A h \in HostId : u[h] # None => u[u[h].key] # None
  <2> TAKE h \in HostId
  <2>1. CASE h \in E
    BY <1>2, <2>1
  <2>2. CASE h \in HostsOf(s)
    <3>1. s[h] # None /\ u[h] = s[h]
      BY <1>1, <1>2, <2>2, HostsElim
    <3>2. s[s[h].key] # None
      BY <1>1, <2>2, <3>1 DEF Sound, Validate, HostOK
    <3>3. s[h] \in HostRec
      BY <1>1, <2>2, <3>1, SettingsElim
    <3>4. s[h].key \in KeyId
      BY <3>3 DEF HostRec
    <3> QED
      BY <1>2, <3>1, <3>2, <3>4
  <2> QED
    BY <1>3, <2>1, <2>2
<1>7. \A t \in TunnelId : u[t] # None => u[u[t].host] # None
  <2> SUFFICES ASSUME NEW t \in TunnelId, u[t] # None
               PROVE  u[u[t].host] # None
    OBVIOUS
  <2>1. u[t] = s[t] /\ s[t] \in TunnelRec /\ s[s[t].host] # None
    BY <1>1, <1>2, SettingsElim DEF Sound, Validate
  <2>2. s[t].host \in HostId
    BY <2>1 DEF TunnelRec
  <2> QED
    BY <1>3, <2>1, <2>2, HostsElim
<1>8. \A v \in ServiceId : u[v] # None => ServiceOK(u, v)
  <2> SUFFICES ASSUME NEW v \in ServiceId, u[v] # None
               PROVE  ServiceOK(u, v)
    OBVIOUS
  <2>1. u[v] = s[v] /\ s[v] \in ServiceRec /\ ServiceOK(s, v)
    BY <1>1, <1>2, SettingsElim DEF Sound, Validate
  <2>2. s[v].tunnel \in TunnelId
    BY <2>1 DEF ServiceRec
  <2>3. u[s[v].tunnel] = s[s[v].tunnel]
    BY <1>2, <2>2
  <2> QED
    BY <2>1, <2>3 DEF ServiceOK
<1>9. Validate(u) <=> \A h \in HostId : u[h] # None => ChainOK(u, h)
  BY <1>5, <1>6, <1>7, <1>8 DEF Validate, HostOK
<1>10. Validate(u) <=> \A h \in E : ChainOK(u, h)
  BY <1>1, <1>3, <1>4, <1>9
<1> QED
  BY <1>10 DEF u

\* Other groups do not change whether a group can be imported.
LEMMA CanImportSame ==
    ASSUME ConfigOK, NEW s, Sound(s), NEW D, NEW g, Part(s, D), Part(s, g), D \cap g = {},
           Validate(ApplySelected(s, D))
    PROVE  CanImport(ApplySelected(s, D), g) <=> CanImport(s, g)
<1> DEFINE t == ApplySelected(s, D)
           E == D \cup g
<1>1. /\ D \in SUBSET Aliases /\ g \in SUBSET Aliases /\ D \subseteq HostId /\ g \subseteq HostId
      /\ HostsOf(s) \cap E = {} /\ HostsOf(s) \subseteq HostId /\ s \in Settings
  BY ImportableFacts DEF Part, HostsOf, Aliases, Sound
<1>2. /\ HostsOf(t) = HostsOf(s) \cup D
      /\ \A h \in HostsOf(s) \ D : t[h] = s[h]
  BY <1>1, ApplySettings
<1>3. Part(s, E)
  BY ClosedSets DEF Part
<1>4. ApplySelected(t, g) = ApplySelected(s, E)
  BY <1>1, ApplyTwice
<1>5. Validate(ApplySelected(s, E)) <=> Validate(ApplySelected(s, g))
  <2>1. \A h \in D : ChainOK(ApplySelected(s, D), h)
    BY ValidPart
  <2>2. \A h \in D : ChainOK(ApplySelected(s, E), h)
    BY <1>3, <2>1, SameRoute
  <2>3. \A h \in g : ChainOK(ApplySelected(s, g), h) <=> ChainOK(ApplySelected(s, E), h)
    BY <1>3, SameRoute
  <2> QED
    BY <1>3, <2>2, <2>3, ValidPart
<1>6. \A a \in g : Range(config[a].jumps) \subseteq g \cup HostsOf(s)
  <2> TAKE a \in g
  <2>1. Range(config[a].jumps) \subseteq Importable(s) \cup HostsOf(s)
    BY ImportableFacts DEF Part
  <2> QED
    BY <2>1 DEF Part, Closed
<1> HIDE DEF t
<1>7. \A a \in g : s[a] = None /\ t[a] = None
  BY <1>1, <1>2, HostsElim
<1>8. RoutesAgree(t, g) <=> RoutesAgree(s, g)
  <2>1. \A h \in D : Through(g, h) = {}
    BY CrossFree DEF Part
  <2>2. \A h \in HostsOf(s) : t[h] = s[h]
    BY <1>1, <1>2
  <2>3. (\A h \in HostsOf(t) \ g : Through(g, h) \subseteq {t[h].jump})
            <=> \A h \in HostsOf(s) \ g : Through(g, h) \subseteq {s[h].jump}
    BY <1>2, <2>1, <2>2
  <2> QED
    BY <2>3 DEF RoutesAgree, Rerouted
<1>9. CanImport(t, g) <=> CanImport(s, g)
  <2>1. \A a \in g : Range(config[a].jumps) \subseteq g \cup HostsOf(t)
    BY <1>2, <1>6
  <2> QED
    BY <1>4, <1>5, <1>6, <1>7, <1>8, <2>1 DEF CanImport
<1> QED
  BY <1>9 DEF t

\* Lists that agree lead to every new host through one host.
LEMMA AgreeJump ==
    ASSUME ConfigOK, NEW s, NEW sel \in SUBSET Aliases, RoutesAgree(s, sel), NEW h \in sel
    PROVE  Through(sel, h) \subseteq {Jump(sel, h)}
<1> DEFINE T == Through(sel, h)
<1>1. T \subseteq HostId /\ IsFiniteSet(HostId) /\ Cardinality(T) <= 1
  BY ThroughHops, ImportAssumption DEF RoutesAgree, Rerouted
<1>2. Jump(sel, h) = IF T = {} THEN None ELSE CHOOSE x \in T : TRUE
  BY DEF Jump
<1> HIDE DEF T
<1>3. IsFiniteSet(T)
  BY <1>1, FS_Subset
<1>4. ASSUME NEW x \in T, NEW y \in T, x # y
      PROVE  FALSE
  <2>1. {x, y} \subseteq T /\ IsFiniteSet({x, y})
    BY FS_Subset, <1>3
  <2>2. Cardinality({x, y}) = 2
    <3>1. {x, y} = {x} \cup {y} /\ IsFiniteSet({x}) /\ Cardinality({x}) = 1 /\ y \notin {x}
      BY <1>4, FS_Singleton
    <3>2. Cardinality({x} \cup {y}) = 1 + 1
      BY <3>1, FS_AddElement
    <3> QED
      BY <3>1, <3>2
  <2>3. Cardinality({x, y}) <= Cardinality(T)
    BY <1>3, <2>1, FS_Subset
  <2>4. Cardinality(T) \in Nat
    BY <1>3, FS_CardinalityType
  <2> QED
    BY <1>1, <2>2, <2>3, <2>4
<1> QED
  BY <1>2, <1>4 DEF T

----------------------------------------------------------------------------
(* The invariant.                                                          *)

\* The config is read once: what depends on it stays as it is.
LEMMA Frame ==
    ASSUME config' = config
    PROVE  /\ Aliases' = Aliases
           /\ \A s : Importable(s)' = Importable(s)
           /\ \A s, t : Closed(s, t)' <=> Closed(s, t)
           /\ \A s : Groups(s)' = Groups(s)
           /\ \A sel, h : Through(sel, h)' = Through(sel, h)
           /\ \A s, sel : ApplySelected(s, sel)' = ApplySelected(s, sel)
           /\ \A s, sel : CanImport(s, sel)' <=> CanImport(s, sel)
<1>1. Aliases' = Aliases
  BY DEF Aliases
<1>2. \A s : Importable(s)' = Importable(s)
  BY <1>1 DEF Importable
<1>3. \A s, t : Closed(s, t)' <=> Closed(s, t)
  BY <1>2 DEF Closed
<1>4. \A s : Groups(s)' = Groups(s)
  BY <1>2, <1>3 DEF Groups
<1>5. \A sel, h : Through(sel, h)' = Through(sel, h)
  BY DEF Through, Before
<1>6. \A s, sel : ApplySelected(s, sel)' = ApplySelected(s, sel)
  BY <1>5 DEF ApplySelected, Rerouted
<1>7. \A s, sel : RoutesAgree(s, sel)' <=> RoutesAgree(s, sel)
  BY <1>5 DEF RoutesAgree, Rerouted
<1>8. \A s, sel : CanImport(s, sel)' <=> CanImport(s, sel)
  BY <1>6, <1>7 DEF CanImport
<1> QED
  BY <1>1, <1>2, <1>3, <1>4, <1>5, <1>6, <1>8

\* The same for the settings that the start began with.
LEMMA SameBase ==
    ASSUME config' = config, base' = base
    PROVE  /\ Aliases' = Aliases
           /\ Importable(base)' = Importable(base)
           /\ Groups(base)' = Groups(base)
           /\ \A t : Closed(base, t)' <=> Closed(base, t)
           /\ \A g : CanImport(base, g)' <=> CanImport(base, g)
           /\ \A g : ApplySelected(base, g)' = ApplySelected(base, g)
           /\ HostsOf(base)' = HostsOf(base)
           /\ Validate(base)' <=> Validate(base)
<1>1. HostsOf(base)' = HostsOf(base)
  BY DEF HostsOf, Present
<1>2. Validate(base)' <=> Validate(base)
  OBVIOUS
<1> QED
  BY <1>1, <1>2, Frame

\* What the invariant says of the settings.
LEMMA Facts ==
    ASSUME Inv
    PROVE  /\ ConfigOK /\ Sound(saved) /\ saved # None
           /\ base # None => /\ Sound(base) /\ Part(base, Imported)
                             /\ HostsOf(base) \subseteq HostsOf(saved)
                             /\ HostsOf(saved) = HostsOf(base) \cup Imported
<1>1. ConfigOK
  BY DEF Inv, TypeOK, ConfigOK
<1>2. Sound(saved) /\ saved # None
  BY ImportAssumption DEF Inv, TypeOK, ParsedInv, Sound
<1>3. ASSUME base # None
      PROVE  /\ Sound(base) /\ Part(base, Imported)
             /\ HostsOf(base) \subseteq HostsOf(saved)
             /\ HostsOf(saved) = HostsOf(base) \cup Imported
  <2>1. Sound(base) /\ Part(base, Imported)
    BY <1>3 DEF Inv, TypeOK, BaseInv, Sound, Part
  <2>2. Imported \in SUBSET Aliases
    BY <2>1, ImportableFacts DEF Part
  <2>3. HostsOf(ApplySelected(base, Imported)) = HostsOf(base) \cup Imported
    BY <1>1, <2>1, <2>2, ApplySettings DEF Sound
  <2>4. saved = ApplySelected(base, Imported)
    BY <1>3 DEF Inv, BaseInv
  <2> QED
    BY <2>1, <2>3, <2>4
<1> QED
  BY <1>1, <1>2, <1>3

\* As long as nothing is saved, what was imported is only concerned by failures.
LEMMA BaseKept ==
    ASSUME Inv, UNCHANGED <<file, config, base, saved>>, failed' \cap Imported \subseteq failed
    PROVE  BaseInv' /\ ParsedInv' /\ HostsOf(saved)' = HostsOf(saved) /\ Imported' = Imported
<1>1. HostsOf(saved)' = HostsOf(saved) /\ HostsOf(base)' = HostsOf(base)
  BY DEF HostsOf, Present
<1>2. Imported' = Imported
  BY <1>1 DEF Imported
<1>3. ParsedInv'
  BY <1>1 DEF Inv, ParsedInv
<1>4. BaseInv'
  <2> SUFFICES ASSUME base' # None
               PROVE  BaseInv'
    BY DEF BaseInv
  <2>1. /\ Validate(base) /\ \A h \in HostsOf(base) : base[h].name = h
        /\ Imported \subseteq Importable(base)
        /\ Closed(base, Imported)
        /\ saved = ApplySelected(base, Imported)
        /\ \A g \in Groups(base) : g \subseteq Imported => CanImport(base, g) /\ g \cap failed = {}
    BY DEF Inv, BaseInv
  <2>2. \A g \in Groups(base) : g \subseteq Imported => CanImport(base, g) /\ g \cap failed' = {}
    BY <2>1
  <2>3. (\A h \in HostsOf(base) : base[h].name = h)'
    BY <1>1, <2>1
  <2>4. (\A g \in Groups(base) : g \subseteq Imported => CanImport(base, g) /\ g \cap failed = {})'
    BY <1>2, <2>2, SameBase
  <2>5. (Imported \subseteq Importable(base))' /\ Closed(base, Imported)' /\ Validate(base)'
    BY <1>2, <2>1, SameBase
  <2>6. (saved = ApplySelected(base, Imported))'
    BY <1>2, <2>1, SameBase
  <2> QED
    BY <2>3, <2>4, <2>5, <2>6 DEF BaseInv
<1> QED
  BY <1>1, <1>2, <1>3, <1>4

\* The group at hand, once its queue is empty.
LEMMA WholeGroup ==
    ASSUME Inv, phase = "grow", queue = {}
    PROVE  /\ selected \in Groups(base) /\ Part(base, selected) /\ base # None
           /\ selected \cap HostsOf(saved) = {} /\ selected \subseteq Aliases
           /\ selected \cap Imported = {} /\ selected \cap failed = {}
           /\ visited = Tried \cup selected
           /\ \A g \in Groups(base) : g \subseteq visited => g \subseteq Tried \/ g = selected
           /\ CanImport(saved, selected) <=> CanImport(base, selected)
<1>1. /\ base # None /\ visited \subseteq eligible /\ selected \subseteq visited
      /\ eligible \subseteq Aliases \ known /\ eligible \subseteq Importable(base)
      /\ Closed(base, known) /\ Importable(base) \subseteq eligible \cup known
      /\ \A a \in selected : Neighbors(a) \subseteq selected
      /\ (eligible \ Tried) \cap HostsOf(saved) = {} /\ failed \subseteq Tried
  BY DEF Inv, TypeOK, PhaseInv, RunInv, GrowInv, TriedInv
<1>2. PICK a \in selected :
         \A t \in SUBSET Importable(base) : a \in t /\ Closed(base, t) => selected \subseteq t
  BY DEF Inv, GrowInv
<1>3. Closed(base, selected)
  <2> SUFFICES ASSUME NEW x \in Importable(base), NEW y \in Importable(base),
                      y \in Range(config[x].jumps)
               PROVE  x \in selected <=> y \in selected
    BY DEF Closed
  <2>1. x \in known <=> y \in known
    BY <1>1 DEF Closed
  <2>2. ASSUME x \in selected
        PROVE  y \in selected
    <3>1. y \in eligible
      BY <1>1, <2>1, <2>2
    <3>2. y \in Neighbors(x)
      BY <3>1 DEF Neighbors
    <3> QED
      BY <1>1, <2>2, <3>2
  <2>3. ASSUME y \in selected
        PROVE  x \in selected
    <3>1. x \in eligible
      BY <1>1, <2>1, <2>3
    <3>2. x \in Neighbors(y)
      BY <3>1 DEF Neighbors
    <3> QED
      BY <1>1, <2>3, <3>2
  <2> QED
    BY <2>2, <2>3
<1>4. Part(base, selected)
  BY <1>1, <1>3 DEF Part
<1>5. selected \in Groups(base)
  BY <1>2, <1>4, GroupIntro DEF Part
<1>6. /\ selected \cap HostsOf(saved) = {} /\ selected \subseteq Aliases
      /\ selected \cap Imported = {} /\ selected \cap failed = {}
      /\ visited = Tried \cup selected
  BY <1>1 DEF Tried, Imported
<1>7. ASSUME NEW g \in Groups(base), g \subseteq visited, ~(g \subseteq Tried)
      PROVE  g = selected
  <2>1. g \cap selected # {}
    BY <1>6, <1>7
  <2>2. g \subseteq selected
    BY <1>3, <2>1, GroupFacts
  <2>3. Closed(base, g)
    BY GroupFacts
  <2>4. selected \subseteq g
    BY <1>5, <2>1, <2>3, GroupFacts
  <2> QED
    BY <2>2, <2>4
<1>8. CanImport(saved, selected) <=> CanImport(base, selected)
  <2>1. saved = ApplySelected(base, Imported) /\ Validate(saved)
    BY <1>1 DEF Inv, BaseInv, TypeOK
  <2>2. ConfigOK /\ Sound(base) /\ Part(base, Imported) /\ Imported \cap selected = {}
    BY <1>1, <1>6, Facts
  <2>3. CanImport(ApplySelected(base, Imported), selected) <=> CanImport(base, selected)
    BY <1>4, <2>1, <2>2, CanImportSame
  <2> QED
    BY <2>1, <2>3
<1> QED
  BY <1>1, <1>4, <1>5, <1>6, <1>7, <1>8

----------------------------------------------------------------------------
(* The steps of a start.                                                   *)

LEMMA StartStep ==
    ASSUME Inv, Start
    PROVE  Inv'
<1> DEFINE H == HostsOf(saved)
<1>1. /\ phase = "down" /\ phase' = "prune"
      /\ known' = H
      /\ eligible' = {a \in Aliases \ H : config[a].usable}
      /\ skipped' = {a \in Aliases \ H : ~config[a].usable}
      /\ base' = IF base = None THEN saved ELSE base
      /\ UNCHANGED <<file, config, saved, queue, visited, selected, failed>>
      /\ queue = {} /\ visited = {} /\ selected = {} /\ failed = {}
  BY DEF Start, Inv, PhaseInv
<1>2. base' # None /\ base' \in Settings /\ Sound(saved) /\ ConfigOK
  BY <1>1, Facts DEF Inv, TypeOK, Sound
<1>3. HostsOf(saved)' = H /\ Aliases' = Aliases /\ H \subseteq HostId
  BY <1>1, Frame DEF HostsOf, Present
<1>4. TypeOK'
  <2>1. ConfigOK'
    BY <1>1, <1>2 DEF ConfigOK
  <2>2. (saved \in Settings /\ Validate(saved) /\ file \in Files)'
    BY <1>1 DEF Inv, TypeOK
  <2> HIDE DEF H
  <2>3. /\ known' \subseteq HostId /\ eligible' \subseteq Aliases' \ known'
        /\ skipped' \subseteq Aliases' \ known'
    BY <1>1, <1>3
  <2> QED
    BY <1>1, <1>2, <2>1, <2>2, <2>3 DEF TypeOK, ConfigOK
<1>5. ParsedInv' /\ PhaseInv'
  BY <1>1, <1>2, <1>3 DEF Inv, ParsedInv, PhaseInv
<1>6. BaseInv' /\ HostsOf(base)' \subseteq H /\ Closed(base, H)'
  <2>1. CASE base # None
    <3>1. base' = base
      BY <1>1, <2>1
    <3>2. BaseInv'
      BY <1>1, <3>1, BaseKept
    <3>3. HostsOf(base)' \subseteq H
      BY <2>1, <3>1, Facts, SameBase, <1>1
    <3>4. Closed(base, H)
      <4>1. Closed(base, Imported) /\ H = HostsOf(base) \cup Imported
        BY <2>1, Facts DEF Part
      <4> HIDE DEF H
      <4>2. \A a \in Importable(base) : a \notin HostsOf(base)
        BY ImportableFacts
      <4> QED
        BY <4>1, <4>2 DEF Closed
    <3>5. H' = H
      BY <1>3
    <3>6. Closed(base, H)'
      BY <1>1, <3>1, <3>4, <3>5, SameBase
    <3> QED
      BY <3>2, <3>3, <3>6
  <2>2. CASE base = None
    <3>1. base' = saved
      BY <1>1, <2>2
    <3>2. HostsOf(base)' = H
      BY <3>1 DEF HostsOf, Present
    <3>3. Imported' = {}
      BY <1>3, <3>2 DEF Imported
    <3>4. /\ Importable(base)' = Importable(saved) /\ Groups(base)' = Groups(saved)
          /\ \A t : Closed(base, t)' <=> Closed(saved, t)
          /\ \A g : ApplySelected(base, g)' = ApplySelected(saved, g)
      BY <1>1, <3>1, Frame
    <3>5. \A g \in Groups(saved) : ~(g \subseteq {})
      BY GroupFacts
    <3>6. ApplySelected(saved, {}) = saved
      BY <1>2, ApplyNothing DEF Sound
    <3>7. Closed(saved, {}) /\ Closed(saved, H)
      BY ImportableFacts DEF Closed
    <3>8. Validate(base)' /\ (\A h \in HostsOf(base) : base[h].name = h)'
      BY <1>2, <3>1, <3>2 DEF Sound
    <3>9. (saved = ApplySelected(base, Imported))'
      BY <1>1, <3>3, <3>4, <3>6
    <3>10. (\A g \in Groups(base) : g \subseteq Imported => CanImport(base, g) /\ g \cap failed = {})'
      BY <3>3, <3>4, <3>5
    <3>11. (Imported \subseteq Importable(base))' /\ Closed(base, Imported)'
      BY <3>3, <3>4, <3>7
    <3>12. Closed(base, H)'
      <4>1. H' = H
        BY <1>3
      <4> QED
        BY <3>4, <3>7, <4>1
    <3> QED
      BY <3>2, <3>8, <3>9, <3>10, <3>11, <3>12 DEF BaseInv
  <2> QED
    BY <2>1, <2>2
<1>7. RunInv'
  <2>1. Importable(base') \subseteq eligible' \cup known'
    <3>1. HostsOf(base') \subseteq H
      BY <1>6
    <3>2. \A a \in Importable(base') : a \in Aliases /\ config[a].usable
      BY ImportableFacts
    <3> HIDE DEF H
    <3> QED
      BY <1>1, <3>2
  <2>2. Importable(base)' = Importable(base')
    BY <1>1, Frame
  <2>3. (skipped = Aliases \ (HostsOf(saved) \cup (eligible \ Tried)))'
    <3>1. Tried' = {}
      BY <1>1 DEF Tried
    <3>2. skipped' = Aliases \ (H \cup eligible')
      BY <1>1
    <3> HIDE DEF H
    <3> QED
      BY <1>3, <3>1, <3>2
  <2>4. Closed(base, known)'
    <3>1. H' = known'
      BY <1>1, <1>3
    <3> HIDE DEF H
    <3> QED
      BY <1>6, <3>1
  <2>5. (\A a \in eligible : config[a].usable)'
    BY <1>1
  <2> HIDE DEF H
  <2> QED
    BY <1>1, <1>3, <1>6, <2>1, <2>2, <2>3, <2>4, <2>5 DEF RunInv
<1>8. GrowInv' /\ TriedInv' /\ ImportIsComplete'
  BY <1>1 DEF GrowInv, TriedInv, ImportIsComplete
<1> QED
  BY <1>4, <1>5, <1>6, <1>7, <1>8 DEF Inv

LEMMA StartNoImportStep ==
    ASSUME Inv, StartNoImport
    PROVE  Inv'
<1>1. /\ phase = "down" /\ phase' = "up" /\ base' = None
      /\ UNCHANGED <<file, config, saved, known, eligible, queue, visited, selected, skipped, failed>>
  BY DEF StartNoImport, runVars
<1>2. HostsOf(saved)' = HostsOf(saved) /\ Aliases' = Aliases
  BY <1>1, Frame DEF HostsOf, Present
<1>3. TypeOK' /\ ParsedInv' /\ PhaseInv'
  BY <1>1, <1>2 DEF Inv, TypeOK, ParsedInv, PhaseInv
<1>4. BaseInv' /\ RunInv' /\ GrowInv' /\ TriedInv' /\ ImportIsComplete'
  BY <1>1 DEF BaseInv, RunInv, GrowInv, TriedInv, ImportIsComplete
<1> QED
  BY <1>3, <1>4 DEF Inv

LEMMA PruneStep ==
    ASSUME Inv, NEW a \in HostId, Prune(a)
    PROVE  Inv'
<1>1. /\ phase = "prune" /\ a \in eligible /\ HopMissing(a)
      /\ eligible' = eligible \ {a} /\ skipped' = skipped \cup {a}
      /\ UNCHANGED <<file, config, saved, phase, known, queue, visited, selected, failed, base>>
      /\ visited = {} /\ base # None
  BY DEF Prune, Inv, PhaseInv
<1>2. /\ HostsOf(base) \subseteq known /\ known = HostsOf(saved)
      /\ Closed(base, known)
      /\ Importable(base) \subseteq eligible \cup known
      /\ \A b \in eligible : config[b].usable
      /\ skipped = Aliases \ (HostsOf(saved) \cup (eligible \ Tried))
  BY <1>1 DEF Inv, RunInv
<1>3. BaseInv' /\ ParsedInv' /\ HostsOf(saved)' = HostsOf(saved)
  BY <1>1, BaseKept
<1>4. Aliases' = Aliases /\ a \in Aliases \ known
  BY <1>1, Frame DEF Inv, TypeOK
<1>5. TypeOK'
  <2>1. ConfigOK'
    BY <1>1, Facts DEF ConfigOK
  <2>2. queue = {}
    BY <1>1 DEF Inv, PhaseInv
  <2> QED
    BY <1>1, <1>4, <2>1, <2>2 DEF Inv, TypeOK, ConfigOK
<1>6. PhaseInv'
  BY <1>1 DEF Inv, PhaseInv
<1>7. a \notin Importable(base)
  <2> SUFFICES ASSUME a \in Importable(base)
               PROVE  FALSE
    OBVIOUS
  <2>1. Range(config[a].jumps) \subseteq Importable(base) \cup HostsOf(base)
    BY ImportableFacts
  <2> QED
    BY <1>1, <1>2, <2>1 DEF HopMissing
<1>8. RunInv'
  <2>1. Tried = {} /\ Tried' = {}
    BY <1>1 DEF Tried
  <2>2. (skipped = Aliases \ (HostsOf(saved) \cup (eligible \ Tried)))'
    BY <1>1, <1>2, <1>3, <1>4, <2>1
  <2>3. /\ Closed(base, known)' /\ HostsOf(base)' = HostsOf(base)
        /\ Importable(base)' = Importable(base)
    BY <1>1, <1>2, SameBase
  <2> QED
    BY <1>1, <1>2, <1>3, <1>7, <2>2, <2>3 DEF RunInv
<1>9. GrowInv' /\ TriedInv' /\ ImportIsComplete'
  BY <1>1 DEF GrowInv, TriedInv, ImportIsComplete
<1> QED
  BY <1>3, <1>5, <1>6, <1>8, <1>9 DEF Inv

LEMMA PruneDoneStep ==
    ASSUME Inv, PruneDone
    PROVE  Inv'
<1>1. /\ phase = "prune" /\ phase' = "groups"
      /\ \A a \in eligible : ~HopMissing(a)
      /\ UNCHANGED <<file, config, saved, known, eligible, queue, visited, selected, skipped, failed, base>>
      /\ visited = {} /\ selected = {} /\ queue = {} /\ failed = {} /\ base # None
  BY DEF PruneDone, runVars, Inv, PhaseInv
<1>2. /\ HostsOf(base) \subseteq known /\ known = HostsOf(saved)
      /\ Closed(base, known)
      /\ Importable(base) \subseteq eligible \cup known
      /\ \A b \in eligible : config[b].usable
      /\ skipped = Aliases \ (HostsOf(saved) \cup (eligible \ Tried))
  BY <1>1 DEF Inv, RunInv
<1>3. BaseInv' /\ ParsedInv' /\ HostsOf(saved)' = HostsOf(saved) /\ Imported' = Imported
  BY <1>1, BaseKept
<1>4. Aliases' = Aliases /\ eligible \subseteq Aliases \ known
  BY <1>1, Frame DEF Inv, TypeOK
<1>5. TypeOK' /\ PhaseInv'
  BY <1>1, <1>4 DEF Inv, TypeOK, PhaseInv
<1>6. eligible \subseteq Importable(base)
  <2> DEFINE t == eligible \cup Imported
  <2>1. Imported \subseteq Importable(base) /\ HostsOf(saved) = HostsOf(base) \cup Imported
    BY <1>1, Facts DEF Part
  <2>2. t \subseteq {a \in Aliases \ HostsOf(base) : config[a].usable}
    BY <1>2, <1>4, <2>1, ImportableFacts
  <2>3. ASSUME NEW a \in t
        PROVE  Range(config[a].jumps) \subseteq t \cup HostsOf(base)
    <3>1. CASE a \in eligible
      BY <1>1, <1>2, <2>1, <3>1 DEF HopMissing
    <3>2. CASE a \in Imported
      <4>1. Range(config[a].jumps) \subseteq Importable(base) \cup HostsOf(base)
        BY <2>1, <3>2, ImportableFacts
      <4> QED
        BY <1>2, <2>1, <4>1
    <3> QED
      BY <3>1, <3>2
  <2> HIDE DEF t
  <2>4. t \subseteq Importable(base)
    BY <2>2, <2>3, ImportableFacts
  <2> QED
    BY <2>4 DEF t
<1>7. Tried = {} /\ Tried' = {}
  BY <1>1 DEF Tried
<1>8. RunInv'
  <2>1. (skipped = Aliases \ (HostsOf(saved) \cup (eligible \ Tried)))'
    BY <1>1, <1>2, <1>3, <1>4, <1>7
  <2>2. /\ Closed(base, known)' /\ HostsOf(base)' = HostsOf(base)
        /\ Importable(base)' = Importable(base)
    BY <1>1, <1>2, SameBase
  <2> QED
    BY <1>1, <1>2, <1>3, <1>6, <2>1, <2>2 DEF RunInv
<1>9. GrowInv' /\ ImportIsComplete'
  BY <1>1 DEF GrowInv, ImportIsComplete
<1>10. TriedInv'
  <2>1. \A g \in Groups(base) : ~(g \subseteq {})
    BY GroupFacts
  <2>2. (\A g \in Groups(base) : g \subseteq Tried => g \subseteq Imported \/ ~CanImport(base, g) \/ g \cap failed # {})'
    BY <1>1, <1>7, <2>1, SameBase
  <2>3. ((eligible \ Tried) \cap HostsOf(saved) = {})'
    BY <1>1, <1>2, <1>3, <1>4, <1>7
  <2> QED
    BY <1>1, <1>7, <2>2, <2>3 DEF TriedInv
<1> QED
  BY <1>3, <1>5, <1>8, <1>9, <1>10 DEF Inv

\* What stays while a group is looked for.
LEMMA GroupFrame ==
    ASSUME Inv, phase \in {"groups", "grow"}, phase' \in {"groups", "grow"}, Tried' = Tried,
           UNCHANGED <<file, config, saved, known, eligible, skipped, failed, base>>
    PROVE  ParsedInv' /\ BaseInv' /\ RunInv' /\ TriedInv' /\ ImportIsComplete'
<1>1. BaseInv' /\ ParsedInv' /\ HostsOf(saved)' = HostsOf(saved) /\ Imported' = Imported
  BY BaseKept
<1>2. /\ Aliases' = Aliases /\ HostsOf(base)' = HostsOf(base)
      /\ Importable(base)' = Importable(base) /\ Groups(base)' = Groups(base)
      /\ Closed(base, known)' <=> Closed(base, known)
      /\ \A g : CanImport(base, g)' <=> CanImport(base, g)
  BY SameBase
<1>3. RunInv'
  BY <1>1, <1>2 DEF Inv, RunInv
<1>4. \A a : Neighbors(a)' = Neighbors(a)
  BY DEF Neighbors
<1>5. TriedInv'
  <2>1. /\ \A a \in Tried : Neighbors(a) \subseteq Tried
        /\ (eligible \ Tried) \cap HostsOf(saved) = {}
        /\ failed \subseteq Tried
        /\ \A g \in Groups(base) :
              g \subseteq Tried => g \subseteq Imported \/ ~CanImport(base, g) \/ g \cap failed # {}
    BY DEF Inv, TriedInv
  <2>2. (\A a \in Tried : Neighbors(a) \subseteq Tried)'
    BY <1>4, <2>1
  <2>3. (\A g \in Groups(base) :
            g \subseteq Tried => g \subseteq Imported \/ ~CanImport(base, g) \/ g \cap failed # {})'
    BY <1>1, <1>2, <2>1
  <2> QED
    BY <1>1, <2>1, <2>2, <2>3 DEF TriedInv
<1>6. ImportIsComplete'
  BY DEF ImportIsComplete
<1> QED
  BY <1>1, <1>3, <1>5, <1>6

LEMMA GroupBeginsStep ==
    ASSUME Inv, NEW a \in HostId, GroupBegins(a)
    PROVE  Inv'
<1>1. /\ phase = "groups" /\ phase' = "grow" /\ a \in eligible \ visited
      /\ queue' = {a} /\ selected' = {} /\ selected = {}
      /\ UNCHANGED <<file, config, saved, known, eligible, visited, skipped, failed, base>>
  BY DEF GroupBegins, Inv, PhaseInv
<1>2. Tried' = Tried
  BY <1>1 DEF Tried
<1>3. ParsedInv' /\ BaseInv' /\ RunInv' /\ TriedInv' /\ ImportIsComplete'
  BY <1>1, <1>2, GroupFrame
<1>4. Aliases' = Aliases
  BY <1>1, Frame
<1>5. TypeOK' /\ PhaseInv'
  BY <1>1, <1>4 DEF Inv, TypeOK, PhaseInv
<1>6. GrowInv'
  BY <1>1 DEF GrowInv
<1> QED
  BY <1>3, <1>5, <1>6 DEF Inv

LEMMA GroupGrowsStep ==
    ASSUME Inv, NEW a \in HostId, GroupGrows(a)
    PROVE  Inv'
<1>1. /\ phase = "grow" /\ phase' = "grow" /\ a \in queue
      /\ visited' = visited \cup {a} /\ selected' = selected \cup {a}
      /\ queue' = (queue \cup (Neighbors(a) \ visited)) \ {a}
      /\ UNCHANGED <<file, config, saved, known, eligible, skipped, failed, base>>
  BY DEF GroupGrows, NotYet
<1>2. /\ queue \cap visited = {} /\ selected \subseteq visited
      /\ queue \subseteq eligible /\ visited \subseteq eligible
      /\ eligible \subseteq Aliases \ known /\ eligible \subseteq Importable(base)
      /\ \A b \in selected : Neighbors(b) \subseteq selected \cup queue
      /\ \A b \in Tried : Neighbors(b) \subseteq Tried
  BY <1>1 DEF Inv, TypeOK, GrowInv, TriedInv, RunInv
<1>3. Tried' = Tried
  BY <1>1, <1>2 DEF Tried
<1>4. ParsedInv' /\ BaseInv' /\ RunInv' /\ TriedInv' /\ ImportIsComplete'
  BY <1>1, <1>3, GroupFrame
<1>5. Aliases' = Aliases /\ (\A b : Neighbors(b)' = Neighbors(b)) /\ Neighbors(a) \subseteq eligible
  BY <1>1, Frame DEF Neighbors
<1>6. TypeOK' /\ PhaseInv'
  <2>1. /\ (queue \subseteq eligible /\ visited \subseteq eligible /\ selected \subseteq visited)'
        /\ ConfigOK'
    BY <1>1, <1>2, <1>5, Facts DEF ConfigOK
  <2> QED
    BY <1>1, <1>5, <2>1 DEF Inv, TypeOK, PhaseInv, ConfigOK
<1>7. GrowInv'
  <2>1. queue' \cap visited' = {}
    BY <1>1, <1>2
  <2>2. Neighbors(a) \cap Tried = {}
    <3> SUFFICES ASSUME NEW b \in Neighbors(a), b \in Tried
                 PROVE  FALSE
      OBVIOUS
    <3>1. a \in Neighbors(b)
      BY <1>1, <1>2 DEF Neighbors
    <3>2. a \in visited
      BY <1>2, <3>1 DEF Tried
    <3> QED
      BY <1>1, <1>2, <3>2
  <2>3. \A b \in selected' : Neighbors(b) \subseteq selected' \cup queue'
    BY <1>1, <1>2, <2>2 DEF Tried
  <2>4. PICK x \in selected \cup queue :
           \A t \in SUBSET Importable(base) :
               x \in t /\ Closed(base, t) => selected \cup queue \subseteq t
    BY <1>1 DEF Inv, GrowInv
  <2>5. ASSUME NEW t \in SUBSET Importable(base), x \in t, Closed(base, t)
        PROVE  selected' \cup queue' \subseteq t
    <3>1. selected \cup queue \subseteq t /\ a \in t
      BY <1>1, <2>4, <2>5
    <3>2. \A b \in Neighbors(a) : b \in Importable(base) /\ (b \in Range(config[a].jumps) \/ a \in Range(config[b].jumps))
      BY <1>2 DEF Neighbors
    <3>3. Neighbors(a) \subseteq t
      BY <2>5, <3>1, <3>2 DEF Closed
    <3> QED
      BY <1>1, <3>1, <3>3
  <2>6. (\E y \in selected \cup queue :
            \A t \in SUBSET Importable(base) : y \in t /\ Closed(base, t) => selected \cup queue \subseteq t)'
    <3>1. x \in selected' \cup queue'
      BY <1>1
    <3>2. Importable(base)' = Importable(base) /\ \A t : Closed(base, t)' <=> Closed(base, t)
      BY <1>1, SameBase
    <3> QED
      BY <2>5, <3>1, <3>2
  <2>7. (\A b \in selected : Neighbors(b) \subseteq selected \cup queue)'
    BY <1>5, <2>3
  <2> QED
    BY <2>1, <2>6, <2>7 DEF GrowInv
<1> QED
  BY <1>4, <1>6, <1>7 DEF Inv

\* A group that was tried, whatever the outcome.
LEMMA GroupEnds ==
    ASSUME Inv, phase = "grow", queue = {}, phase' = "groups", selected' = {},
           UNCHANGED <<file, config, known, eligible, queue, visited, base>>,
           failed \subseteq failed', failed' \subseteq failed \cup selected,
           Imported \subseteq Imported', HostsOf(saved)' \subseteq HostsOf(saved) \cup selected,
           selected \subseteq Imported' \/ ~CanImport(base, selected) \/ selected \cap failed' # {}
    PROVE  PhaseInv' /\ GrowInv' /\ TriedInv' /\ ImportIsComplete'
<1>1. /\ selected \in Groups(base) /\ base # None /\ visited = Tried \cup selected
      /\ \A g \in Groups(base) : g \subseteq visited => g \subseteq Tried \/ g = selected
  BY WholeGroup
<1>2. PhaseInv' /\ GrowInv' /\ ImportIsComplete'
  BY <1>1 DEF PhaseInv, GrowInv, ImportIsComplete
<1>3. Tried' = visited
  BY DEF Tried
<1>4. /\ \A a \in Tried : Neighbors(a) \subseteq Tried
      /\ \A a \in selected : Neighbors(a) \subseteq selected
      /\ (eligible \ Tried) \cap HostsOf(saved) = {}
      /\ failed \subseteq Tried
      /\ \A g \in Groups(base) :
            g \subseteq Tried => g \subseteq Imported \/ ~CanImport(base, g) \/ g \cap failed # {}
  BY DEF Inv, TriedInv, GrowInv
<1>5. \A a : Neighbors(a)' = Neighbors(a)
  BY DEF Neighbors
<1>6. (\A a \in Tried : Neighbors(a) \subseteq Tried)'
  BY <1>1, <1>3, <1>4, <1>5
<1>7. ((eligible \ Tried) \cap HostsOf(saved) = {})' /\ failed' \subseteq Tried'
  BY <1>1, <1>3, <1>4
<1>8. (\A g \in Groups(base) :
          g \subseteq Tried => g \subseteq Imported \/ ~CanImport(base, g) \/ g \cap failed # {})'
  <2>1. \A g \in Groups(base) :
           g \subseteq visited => g \subseteq Imported' \/ ~CanImport(base, g) \/ g \cap failed' # {}
    BY <1>1, <1>4
  <2>2. Groups(base)' = Groups(base) /\ \A g : CanImport(base, g)' <=> CanImport(base, g)
    BY SameBase
  <2> QED
    BY <1>3, <2>1, <2>2
<1>9. TriedInv'
  BY <1>6, <1>7, <1>8 DEF TriedInv
<1> QED
  BY <1>2, <1>9

LEMMA GroupSavedStep ==
    ASSUME Inv, GroupSaved
    PROVE  Inv'
<1>1. /\ phase = "grow" /\ queue = {} /\ CanImport(saved, selected)
      /\ saved' = ApplySelected(saved, selected)
      /\ phase' = "groups" /\ selected' = {}
      /\ UNCHANGED <<file, config, known, eligible, queue, visited, skipped, failed, base>>
  BY DEF GroupSaved
<1>2. /\ selected \in Groups(base) /\ Part(base, selected) /\ base # None
      /\ selected \cap HostsOf(saved) = {} /\ selected \subseteq Aliases
      /\ selected \cap Imported = {} /\ selected \cap failed = {}
      /\ visited = Tried \cup selected
      /\ CanImport(base, selected)
  BY <1>1, WholeGroup
<1>3. /\ ConfigOK /\ Sound(saved) /\ Sound(base) /\ Part(base, Imported)
      /\ HostsOf(base) \subseteq HostsOf(saved) /\ HostsOf(saved) = HostsOf(base) \cup Imported
  BY <1>2, Facts
<1>4. /\ saved' \in Settings
      /\ HostsOf(saved') = HostsOf(saved) \cup selected
      /\ \A h \in selected : saved'[h].name = h
      /\ \A h \in HostsOf(saved) \ selected : saved'[h] = saved[h]
  BY <1>1, <1>2, <1>3, ApplySettings DEF Sound
<1>5. /\ HostsOf(saved)' = HostsOf(saved) \cup selected /\ HostsOf(base)' = HostsOf(base)
      /\ Aliases' = Aliases
  BY <1>1, <1>4, Frame DEF HostsOf, Present
<1>6. Imported' = Imported \cup selected
  <2>1. selected \cap HostsOf(base) = {}
    BY <1>2, <1>3
  <2> QED
    BY <1>5, <2>1 DEF Imported
<1>7. ParsedInv'
  BY <1>1, <1>3, <1>4, <1>5 DEF Inv, ParsedInv, Sound
<1>8. TypeOK'
  <2>1. Validate(saved')
    BY <1>1 DEF CanImport
  <2>2. ConfigOK'
    BY <1>1, <1>3 DEF ConfigOK
  <2> QED
    BY <1>1, <1>4, <1>5, <2>1, <2>2 DEF Inv, TypeOK, ConfigOK
<1>9. BaseInv'
  <2>1. saved' = ApplySelected(base, Imported \cup selected)
    <3>1. saved = ApplySelected(base, Imported)
      BY <1>2 DEF Inv, BaseInv
    <3>2. ApplySelected(ApplySelected(base, Imported), selected) = ApplySelected(base, Imported \cup selected)
      BY <1>2, <1>3, ApplyTwice DEF Sound
    <3> QED
      BY <1>1, <3>1, <3>2
  <2>2. Part(base, Imported \cup selected)
    BY <1>2, <1>3, ClosedSets DEF Part
  <2>3. ASSUME NEW g \in Groups(base), g \subseteq Imported \cup selected
        PROVE  CanImport(base, g) /\ g \cap failed = {}
    <3>1. CASE g \cap selected = {}
      BY <1>2, <2>3, <3>1 DEF Inv, BaseInv
    <3>2. CASE g \cap selected # {}
      <4>1. g \subseteq selected
        BY <1>2, <3>2, GroupFacts DEF Part
      <4>2. Closed(base, g)
        BY GroupFacts
      <4>3. selected \subseteq g
        BY <1>2, <3>2, <4>2, GroupFacts
      <4> QED
        BY <1>2, <4>1, <4>3
    <3> QED
      BY <3>1, <3>2
  <2>4. /\ Importable(base)' = Importable(base) /\ Groups(base)' = Groups(base)
        /\ \A t : Closed(base, t)' <=> Closed(base, t)
        /\ \A g : CanImport(base, g)' <=> CanImport(base, g)
        /\ \A g : ApplySelected(base, g)' = ApplySelected(base, g)
        /\ Validate(base)' <=> Validate(base)
    BY <1>1, SameBase
  <2>5. (saved = ApplySelected(base, Imported))'
    BY <1>6, <2>1, <2>4
  <2>6. (Imported \subseteq Importable(base))' /\ Closed(base, Imported)' /\ Validate(base)'
    BY <1>3, <1>6, <2>2, <2>4 DEF Part, Sound
  <2>7. (\A g \in Groups(base) : g \subseteq Imported => CanImport(base, g) /\ g \cap failed = {})'
    BY <1>1, <1>6, <2>3, <2>4
  <2>8. (\A h \in HostsOf(base) : base[h].name = h)'
    BY <1>1, <1>3, <1>5 DEF Sound
  <2> QED
    BY <2>5, <2>6, <2>7, <2>8 DEF BaseInv
<1>10. RunInv'
  <2>1. /\ HostsOf(base) \subseteq known /\ known \subseteq HostsOf(saved)
        /\ Closed(base, known)
        /\ Importable(base) \subseteq eligible \cup known
        /\ \A a \in eligible : config[a].usable
        /\ skipped = Aliases \ (HostsOf(saved) \cup (eligible \ Tried))
        /\ eligible \subseteq Importable(base)
        /\ visited \subseteq eligible
    BY <1>1 DEF Inv, RunInv, TypeOK
  <2>2. Tried' = visited
    BY <1>1 DEF Tried
  <2>3. (skipped = Aliases \ (HostsOf(saved) \cup (eligible \ Tried)))'
    <3>1. HostsOf(saved) \cup (eligible \ Tried) = HostsOf(saved) \cup selected \cup (eligible \ visited)
      BY <1>2, <2>1 DEF Tried
    <3> QED
      BY <1>1, <1>5, <2>1, <2>2, <3>1
  <2>4. /\ Closed(base, known)' /\ Importable(base)' = Importable(base)
    BY <1>1, <2>1, SameBase
  <2> QED
    BY <1>1, <1>5, <2>1, <2>3, <2>4 DEF RunInv
<1>11. PhaseInv' /\ GrowInv' /\ TriedInv' /\ ImportIsComplete'
  BY <1>1, <1>5, <1>6, GroupEnds
<1> QED
  BY <1>7, <1>8, <1>9, <1>10, <1>11 DEF Inv

\* A group that was not saved.
LEMMA GroupSkipped ==
    ASSUME Inv, phase = "grow", queue = {}, phase' = "groups", selected' = {},
           UNCHANGED <<file, config, saved, known, eligible, queue, visited, base>>,
           skipped' = skipped \cup selected,
           failed' = failed \/ failed' = failed \cup selected,
           ~CanImport(base, selected) \/ failed' = failed \cup selected
    PROVE  Inv'
<1>1. /\ selected \in Groups(base) /\ base # None
      /\ selected \cap HostsOf(saved) = {} /\ selected \subseteq Aliases
      /\ selected \cap Imported = {}
      /\ visited = Tried \cup selected
  BY WholeGroup
<1>2. BaseInv' /\ ParsedInv' /\ HostsOf(saved)' = HostsOf(saved) /\ Imported' = Imported
  BY <1>1, BaseKept
<1>3. selected # {}
  BY <1>1, GroupFacts
<1>4. PhaseInv' /\ GrowInv' /\ TriedInv' /\ ImportIsComplete'
  <2>1. failed \subseteq failed' /\ failed' \subseteq failed \cup selected
    OBVIOUS
  <2>2. ~CanImport(base, selected) \/ selected \cap failed' # {}
    BY <1>3
  <2> QED
    BY <1>2, <2>1, <2>2, GroupEnds
<1>5. Aliases' = Aliases /\ HostsOf(base)' = HostsOf(base) /\ Importable(base)' = Importable(base)
  BY SameBase
<1>6. /\ HostsOf(base) \subseteq known /\ known \subseteq HostsOf(saved)
      /\ Closed(base, known)
      /\ Importable(base) \subseteq eligible \cup known
      /\ \A a \in eligible : config[a].usable
      /\ skipped = Aliases \ (HostsOf(saved) \cup (eligible \ Tried))
      /\ eligible \subseteq Importable(base)
      /\ selected \subseteq visited /\ visited \subseteq eligible /\ eligible \subseteq Aliases \ known
      /\ failed \subseteq skipped /\ skipped \subseteq Aliases \ known
  BY DEF Inv, RunInv, TypeOK
<1>7. TypeOK'
  <2>1. ConfigOK'
    BY Facts DEF ConfigOK
  <2>2. skipped' \subseteq Aliases' \ known' /\ failed' \subseteq skipped'
    BY <1>5, <1>6
  <2> QED
    BY <1>5, <1>6, <2>1, <2>2 DEF Inv, TypeOK, ConfigOK
<1>8. RunInv'
  <2>1. Tried' = visited
    BY DEF Tried
  <2>2. (skipped = Aliases \ (HostsOf(saved) \cup (eligible \ Tried)))'
    <3> DEFINE H == HostsOf(saved)
    <3>1. ASSUME NEW x
          PROVE  x \in skipped \cup selected <=> x \in Aliases /\ x \notin H /\ (x \notin eligible \/ x \in visited)
      BY <1>1, <1>6
    <3>2. skipped \cup selected = Aliases \ (H \cup (eligible \ visited))
      BY <3>1
    <3> QED
      BY <1>2, <1>5, <2>1, <3>2
  <2>3. Closed(base, known)'
    BY <1>6, SameBase
  <2> QED
    BY <1>2, <1>5, <1>6, <2>2, <2>3 DEF RunInv
<1> QED
  BY <1>2, <1>4, <1>7, <1>8 DEF Inv

LEMMA GroupRefusedStep ==
    ASSUME Inv, GroupRefused
    PROVE  Inv'
<1>1. /\ phase = "grow" /\ queue = {} /\ ~CanImport(saved, selected)
      /\ skipped' = skipped \cup selected /\ failed' = failed
      /\ phase' = "groups" /\ selected' = {}
      /\ UNCHANGED <<file, config, saved, known, eligible, queue, visited, base>>
  BY DEF GroupRefused
<1>2. ~CanImport(base, selected)
  BY <1>1, WholeGroup
<1> QED
  BY <1>1, <1>2, GroupSkipped

LEMMA GroupFailsStep ==
    ASSUME Inv, GroupFails
    PROVE  Inv'
BY GroupSkipped DEF GroupFails

LEMMA GroupsDoneStep ==
    ASSUME Inv, GroupsDone
    PROVE  Inv'
<1>1. /\ phase = "groups" /\ eligible \subseteq visited /\ phase' = "up"
      /\ known' = {} /\ eligible' = {} /\ visited' = {}
      /\ UNCHANGED <<file, config, saved, queue, selected, skipped, failed, base>>
      /\ queue = {} /\ selected = {} /\ base # None /\ Tried = visited
  BY DEF GroupsDone, Inv, PhaseInv, Tried
<1>2. BaseInv' /\ ParsedInv' /\ HostsOf(saved)' = HostsOf(saved)
  BY <1>1, BaseKept
<1>3. Aliases' = Aliases
  BY <1>1, Frame
<1>4. TypeOK' /\ PhaseInv'
  BY <1>1, <1>3 DEF Inv, TypeOK, PhaseInv
<1>5. RunInv' /\ GrowInv' /\ TriedInv'
  BY <1>1 DEF RunInv, GrowInv, TriedInv
<1>6. /\ HostsOf(base) \subseteq known /\ known \subseteq HostsOf(saved)
      /\ Closed(base, known) /\ Importable(base) \subseteq eligible \cup known
      /\ skipped = Aliases \ (HostsOf(saved) \cup (eligible \ Tried))
      /\ \A g \in Groups(base) :
            g \subseteq Tried => g \subseteq Imported \/ ~CanImport(base, g) \/ g \cap failed # {}
      /\ Imported \subseteq Importable(base) /\ Closed(base, Imported)
      /\ saved = ApplySelected(base, Imported)
      /\ \A g \in Groups(base) : g \subseteq Imported => CanImport(base, g) /\ g \cap failed = {}
  BY <1>1 DEF Inv, RunInv, TriedInv, BaseInv
<1> DEFINE fit == {g \in Groups(base) : CanImport(base, g) /\ g \cap failed = {}}
<1>7. UNION fit = Imported
  <2>1. ASSUME NEW a \in Imported
        PROVE  a \in UNION fit
    <3>1. PICK g \in Groups(base) : a \in g
      BY <1>6, GroupOf
    <3>2. g \subseteq Imported
      BY <1>6, <3>1, GroupFacts
    <3> QED
      BY <1>6, <3>1, <3>2
  <2>2. ASSUME NEW g \in fit
        PROVE  g \subseteq Imported
    <3>1. g \in Groups(base) /\ CanImport(base, g) /\ g \cap failed = {}
      OBVIOUS
    <3>2. g \subseteq Importable(base) /\ (g \subseteq known \/ g \cap known = {})
      BY <1>6, <3>1, GroupFacts
    <3>3. CASE g \subseteq known
      <4>1. \A a \in Importable(base) : a \notin HostsOf(base)
        BY ImportableFacts
      <4> QED
        BY <1>6, <3>2, <3>3, <4>1 DEF Imported
    <3>4. CASE g \cap known = {}
      BY <1>1, <1>6, <3>1, <3>2, <3>4
    <3> QED
      BY <3>2, <3>3, <3>4
  <2> HIDE DEF fit
  <2> QED
    BY <2>1, <2>2
<1>8. skipped = {a \in Aliases : saved[a] = None}
  <2>1. Aliases \subseteq HostId
    BY DEF Aliases
  <2>2. eligible \ Tried = {}
    BY <1>1
  <2> QED
    BY <1>6, <2>1, <2>2, HostsElim
<1>9. ImportIsComplete'
  <2> DEFINE fit1 == {g \in Groups(base') : CanImport(base', g) /\ g \cap failed' = {}}
  <2>1. fit1 = fit
    BY <1>1
  <2>2. {g \in Groups(base) : CanImport(base, g) /\ g \cap failed = {}}' = fit
    BY <1>1, SameBase
  <2>3. ApplySelected(base, UNION fit) = saved
    BY <1>6, <1>7
  <2> HIDE DEF fit
  <2>4. ApplySelected(base, UNION {g \in Groups(base) : CanImport(base, g) /\ g \cap failed = {}})' = saved'
    BY <1>1, <2>2, <2>3, SameBase
  <2>5. skipped' = {a \in Aliases : saved[a] = None}'
    BY <1>1, <1>3, <1>8
  <2> QED
    BY <2>4, <2>5 DEF ImportIsComplete
<1> QED
  BY <1>2, <1>4, <1>5, <1>9 DEF Inv

----------------------------------------------------------------------------
(* The running program.                                                    *)

\* Whatever the user does, a start is over.
LEMMA Edited ==
    ASSUME Inv, phase = "up", base' = None, skipped' = {}, failed' = {},
           UNCHANGED <<file, config, phase, known, eligible, queue, visited, selected>>,
           saved' \in Settings, Validate(saved'), \A h \in HostsOf(saved') : saved'[h].name = h
    PROVE  Inv'
<1>1. HostsOf(saved)' = HostsOf(saved') /\ Aliases' = Aliases
  BY Frame DEF HostsOf, Present
<1>2. ConfigOK'
  BY Facts DEF ConfigOK
<1>3. TypeOK'
  BY <1>1, <1>2 DEF Inv, TypeOK, ConfigOK
<1>4. ParsedInv' /\ PhaseInv'
  BY <1>1 DEF Inv, ParsedInv, PhaseInv
<1>5. BaseInv' /\ RunInv' /\ GrowInv' /\ TriedInv' /\ ImportIsComplete'
  BY DEF BaseInv, RunInv, GrowInv, TriedInv, ImportIsComplete
<1> QED
  BY <1>3, <1>4, <1>5 DEF Inv

LEMMA SelectionImportedStep ==
    ASSUME Inv, SelectionImported
    PROVE  Inv'
<1>1. /\ phase = "up" /\ base' = None /\ skipped' = {} /\ failed' = {}
      /\ UNCHANGED <<file, config, phase, known, eligible, queue, visited, selected>>
  BY DEF SelectionImported
<1>2. PICK sel \in SUBSET Aliases : CanImport(saved, sel) /\ saved' = ApplySelected(saved, sel)
  BY DEF SelectionImported
<1>3. ConfigOK /\ Sound(saved)
  BY Facts
<1>4. /\ saved' \in Settings
      /\ HostsOf(saved') = HostsOf(saved) \cup sel
      /\ \A h \in sel : saved'[h].name = h
      /\ \A h \in HostsOf(saved) \ sel : saved'[h] = saved[h]
  BY <1>2, <1>3, ApplySettings DEF Sound
<1>5. Validate(saved')
  BY <1>2 DEF CanImport
<1>6. \A h \in HostsOf(saved') : saved'[h].name = h
  BY <1>3, <1>4 DEF Sound
<1> QED
  BY <1>1, <1>4, <1>5, <1>6, Edited

LEMMA HostEditedStep ==
    ASSUME Inv, HostEdited
    PROVE  Inv'
<1>1. /\ phase = "up" /\ base' = None /\ skipped' = {} /\ failed' = {}
      /\ UNCHANGED <<file, config, phase, known, eligible, queue, visited, selected>>
      /\ Validate(saved')
  BY DEF HostEdited
<1>2. PICK h \in HostId :
         \/ \E j \in HostId \cup {None} :
               saved' = [saved EXCEPT ![IdentityFile[h]] = [path |-> "file"],
                             ![h] = [name |-> h, key |-> IdentityFile[h], jump |-> j]]
         \/ saved' = [saved EXCEPT ![h] = None]
  BY DEF HostEdited
<1>3. Sound(saved) /\ saved \in Settings
  BY Facts DEF Sound
<1>4. /\ saved = [i \in Item |-> saved[i]]
      /\ \A i \in KeyId : saved[i] \in KeyRec \cup {None}
      /\ \A i \in HostId : saved[i] \in HostRec \cup {None}
      /\ \A i \in TunnelId : saved[i] \in TunnelRec \cup {None}
      /\ \A i \in ServiceId : saved[i] \in ServiceRec \cup {None}
  BY <1>3, SettingsElim
<1>5. IdentityFile[h] \in KeyId /\ h \in Item /\ IdentityFile[h] \in Item /\ h \notin KeyId
  BY ImportAssumption, ItemAssumption DEF Item
<1>6. /\ saved' = [i \in Item |-> saved'[i]]
      /\ \A i \in Item \ {h, IdentityFile[h]} : saved'[i] = saved[i]
      /\ saved'[IdentityFile[h]] = saved[IdentityFile[h]] \/ saved'[IdentityFile[h]] = [path |-> "file"]
      /\ \/ saved'[h] = None
         \/ \E j \in HostId \cup {None} : saved'[h] = [name |-> h, key |-> IdentityFile[h], jump |-> j]
  <2>1. CASE saved' = [saved EXCEPT ![h] = None]
    BY <1>4, <1>5, <2>1
  <2>2. CASE \E j \in HostId \cup {None} :
               saved' = [saved EXCEPT ![IdentityFile[h]] = [path |-> "file"],
                             ![h] = [name |-> h, key |-> IdentityFile[h], jump |-> j]]
    <3>1. PICK j \in HostId \cup {None} :
               saved' = [saved EXCEPT ![IdentityFile[h]] = [path |-> "file"],
                             ![h] = [name |-> h, key |-> IdentityFile[h], jump |-> j]]
      BY <2>2
    <3> DEFINE r == [name |-> h, key |-> IdentityFile[h], jump |-> j]
               k == [path |-> "file"]
    <3>2. saved' = [saved EXCEPT ![IdentityFile[h]] = k, ![h] = r]
      BY <3>1
    <3> HIDE DEF r, k
    <3>3. /\ saved' = [i \in Item |-> saved'[i]]
          /\ \A i \in Item \ {h, IdentityFile[h]} : saved'[i] = saved[i]
          /\ saved'[IdentityFile[h]] = k /\ saved'[h] = r
      BY <1>4, <1>5, <3>2
    <3> QED
      BY <3>3 DEF r, k
  <2> QED
    BY <1>2, <2>1, <2>2
<1>7. /\ [path |-> "file"] \in KeyRec
      /\ \A j \in HostId \cup {None} : [name |-> h, key |-> IdentityFile[h], jump |-> j] \in HostRec
  <2>1. \A x \in HostId, y \in KeyId, z \in HostId \cup {None} : [name |-> x, key |-> y, jump |-> z] \in HostRec
    BY ImportAssumption DEF HostRec
  <2> QED
    BY <1>5, <2>1 DEF KeyRec, Path
<1>8. saved' \in Settings
  <2>1. \A i \in KeyId : saved'[i] \in KeyRec \cup {None}
    BY <1>4, <1>5, <1>6, <1>7 DEF Item
  <2>2. \A i \in HostId : i \in Item /\ i # IdentityFile[h]
    BY <1>5, ItemAssumption DEF Item
  <2>3. \A i \in HostId : saved'[i] \in HostRec \cup {None}
    BY <1>4, <1>6, <1>7, <2>2
  <2>4. \A i \in TunnelId \cup ServiceId : i \in Item /\ i # IdentityFile[h] /\ i # h
    BY <1>5, ItemAssumption DEF Item
  <2>5. /\ \A i \in TunnelId : saved'[i] \in TunnelRec \cup {None}
        /\ \A i \in ServiceId : saved'[i] \in ServiceRec \cup {None}
    BY <1>4, <1>6, <2>4
  <2> QED
    BY <1>6, <2>1, <2>3, <2>5, SettingsIntro
<1>9. \A g \in HostsOf(saved') : saved'[g].name = g
  <2> TAKE g \in HostsOf(saved')
  <2>1. g \in HostId /\ saved'[g] # None /\ g \in Item /\ g # IdentityFile[h]
    BY <1>5, ItemAssumption DEF HostsOf, Present, Item
  <2>2. CASE g = h
    <3>1. PICK j : saved'[g] = [name |-> h, key |-> IdentityFile[h], jump |-> j]
      BY <1>6, <2>1, <2>2
    <3> QED
      BY <2>2, <3>1
  <2>3. CASE g # h
    <3>1. saved'[g] = saved[g]
      BY <1>6, <2>1, <2>3
    <3> QED
      BY <1>3, <2>1, <3>1, HostsElim DEF Sound
  <2> QED
    BY <2>2, <2>3
<1> QED
  BY <1>1, <1>8, <1>9, Edited

LEMMA KilledStep ==
    ASSUME Inv, Killed
    PROVE  Inv'
<1>1. /\ phase # "down" /\ phase' = "down"
      /\ base' = None \/ base' = base
      /\ known' = {} /\ eligible' = {} /\ queue' = {} /\ visited' = {} /\ selected' = {}
      /\ skipped' = {} /\ failed' = {}
      /\ UNCHANGED <<file, config, saved>>
  BY DEF Killed
<1>2. HostsOf(saved)' = HostsOf(saved) /\ Aliases' = Aliases
  BY <1>1, Frame DEF HostsOf, Present
<1>3. TypeOK' /\ ParsedInv' /\ PhaseInv'
  BY <1>1, <1>2 DEF Inv, TypeOK, ParsedInv, PhaseInv
<1>4. BaseInv'
  <2>1. CASE base' = None
    BY <2>1 DEF BaseInv
  <2>2. CASE base' = base
    BY <1>1, <2>2, BaseKept
  <2> QED
    BY <1>1, <2>1, <2>2
<1>5. RunInv' /\ GrowInv' /\ TriedInv' /\ ImportIsComplete'
  BY <1>1 DEF RunInv, GrowInv, TriedInv, ImportIsComplete
<1> QED
  BY <1>3, <1>4, <1>5 DEF Inv

----------------------------------------------------------------------------
(* Theorems.                                                               *)

LEMMA InitInv ==
    ASSUME Init
    PROVE  Inv
<1>1. saved = Empty /\ saved \in Settings /\ HostsOf(saved) = {}
  BY EmptySettings DEF Init, HostsOf, Present, Empty
<1>2. Validate(saved)
  <2>1. \A i \in Item : saved[i] = None
    BY <1>1 DEF Empty
  <2> QED
    BY <2>1 DEF Validate, Item
<1>3. ConfigOK
  BY ParseCandidates DEF Init, ConfigOK
<1>4. TypeOK
  BY <1>1, <1>2, <1>3 DEF Init, TypeOK, ConfigOK
<1>5. ParsedInv /\ PhaseInv
  BY <1>1 DEF Init, ParsedInv, PhaseInv
<1>6. BaseInv /\ RunInv /\ GrowInv /\ TriedInv /\ ImportIsComplete
  BY DEF Init, BaseInv, RunInv, GrowInv, TriedInv, ImportIsComplete
<1> QED
  BY <1>4, <1>5, <1>6 DEF Inv

LEMMA StutterStep ==
    ASSUME Inv, UNCHANGED vars
    PROVE  Inv'
<1>1. UNCHANGED <<file, config, saved, phase, known, eligible, queue, visited, selected, skipped, failed, base>>
  BY DEF vars, runVars
<1>2. HostsOf(saved)' = HostsOf(saved) /\ Aliases' = Aliases /\ Tried' = Tried
  BY <1>1, Frame DEF HostsOf, Present, Tried
<1>3. BaseInv' /\ ParsedInv' /\ Imported' = Imported
  BY <1>1, BaseKept
<1>4. ConfigOK'
  BY <1>1, Facts DEF ConfigOK
<1>5. TypeOK' /\ PhaseInv'
  BY <1>1, <1>2, <1>4 DEF Inv, TypeOK, PhaseInv, ConfigOK
<1>6. /\ HostsOf(base)' = HostsOf(base) /\ Importable(base)' = Importable(base)
      /\ Groups(base)' = Groups(base)
      /\ \A t : Closed(base, t)' <=> Closed(base, t)
      /\ \A g : CanImport(base, g)' <=> CanImport(base, g)
      /\ \A g : ApplySelected(base, g)' = ApplySelected(base, g)
  BY <1>1, SameBase
<1>7. \A a : Neighbors(a)' = Neighbors(a)
  BY <1>1 DEF Neighbors
<1>8. RunInv' /\ GrowInv'
  BY <1>1, <1>2, <1>6, <1>7 DEF Inv, RunInv, GrowInv
<1>9. TriedInv'
  BY <1>1, <1>2, <1>3, <1>6, <1>7 DEF Inv, TriedInv
<1>10. ImportIsComplete'
  <2> DEFINE fit == {g \in Groups(base) : CanImport(base, g) /\ g \cap failed = {}}
  <2>1. fit' = fit
    BY <1>1, <1>6
  <2>2. {a \in Aliases : saved[a] = None}' = {a \in Aliases : saved[a] = None}
    BY <1>1, <1>2
  <2>3. ApplySelected(base, UNION fit)' = ApplySelected(base, UNION fit)
    <3> HIDE DEF fit
    <3> QED
      BY <1>6, <2>1
  <2> QED
    BY <1>1, <2>2, <2>3 DEF Inv, ImportIsComplete
<1> QED
  BY <1>3, <1>5, <1>8, <1>9, <1>10 DEF Inv

\* The inductive invariant holds at every moment.
THEOREM Invariance == Spec => []Inv
<1>1. Init => Inv
  BY InitInv
<1>2. Inv /\ [Next]_vars => Inv'
  <2> SUFFICES ASSUME Inv, [Next]_vars
               PROVE  Inv'
    OBVIOUS
  <2>1. CASE Start
    BY <2>1, StartStep
  <2>2. CASE StartNoImport
    BY <2>2, StartNoImportStep
  <2>3. CASE ImportStep
    <3>1. CASE \E a \in HostId : Prune(a) \/ GroupBegins(a) \/ GroupGrows(a)
      BY <3>1, PruneStep, GroupBeginsStep, GroupGrowsStep
    <3>2. CASE PruneDone \/ GroupSaved \/ GroupRefused \/ GroupFails \/ GroupsDone
      BY <3>2, PruneDoneStep, GroupSavedStep, GroupRefusedStep, GroupFailsStep, GroupsDoneStep
    <3> QED
      BY <2>3, <3>1, <3>2 DEF ImportStep
  <2>4. CASE SelectionImported
    BY <2>4, SelectionImportedStep
  <2>5. CASE HostEdited
    BY <2>5, HostEditedStep
  <2>6. CASE Killed
    BY <2>6, KilledStep
  <2>7. CASE UNCHANGED vars
    BY <2>7, StutterStep
  <2> QED
    BY <2>1, <2>2, <2>3, <2>4, <2>5, <2>6, <2>7 DEF Next
<1> QED
  BY <1>1, <1>2, PTL DEF Spec

\* The store only ever has valid settings, and the sets of AutoImport are
\* what their names say, for every config.
THEOREM TypeCorrect == Spec => []TypeOK
<1>1. Inv => TypeOK
  BY DEF Inv
<1> QED
  BY <1>1, Invariance, PTL

\* A start that got to its end has saved exactly the groups that fit, and
\* reports the other aliases: order, kills and other groups do not matter.
THEOREM Completeness == Spec => []ImportIsComplete
<1>1. Inv => ImportIsComplete
  BY DEF Inv
<1> QED
  BY <1>1, Invariance, PTL

\* No part of a group is ever saved without the rest.
THEOREM WholeGroups == Spec => []GroupsWhole
<1>1. Inv => GroupsWhole
  <2> SUFFICES ASSUME Inv, base # None, NEW g \in Groups(base)
               PROVE  g \subseteq HostsOf(saved) \/ g \cap HostsOf(saved) = {}
    BY DEF GroupsWhole
  <2>1. Closed(base, Imported) /\ HostsOf(saved) = HostsOf(base) \cup Imported
    BY Facts DEF Part
  <2>2. g \subseteq Importable(base) /\ (g \subseteq Imported \/ g \cap Imported = {})
    BY <2>1, GroupFacts
  <2>3. \A a \in Importable(base) : a \notin HostsOf(base)
    BY ImportableFacts
  <2> QED
    BY <2>1, <2>2, <2>3
<1> QED
  BY <1>1, Invariance, PTL

\* An imported host is reached as its ProxyJump list says, and an import at
\* a start leaves the records that exist as they are.
THEOREM RoutesKept == Spec => []RoutesFollowConfig
<1>1. Inv => RoutesFollowConfig
  <2> SUFFICES ASSUME Inv, base # None
               PROVE  /\ \A a \in Imported : \A h \in HostsOf(saved) : Before(a, h) \subseteq {saved[h].jump}
                      /\ \A i \in Present(base) : saved[i] = base[i]
    BY DEF RoutesFollowConfig, Imported
  <2>1. /\ ConfigOK /\ Sound(base) /\ Part(base, Imported)
        /\ HostsOf(saved) = HostsOf(base) \cup Imported
    BY Facts
  <2>2. Imported \in SUBSET Aliases /\ \A a \in Imported : a \notin HostsOf(base)
    BY <2>1, ImportableFacts DEF Part
  <2>3. saved = ApplySelected(base, Imported)
    BY DEF Inv, BaseInv
  <2>4. /\ \A i \in Present(base) \ Imported : saved[i] = base[i]
        /\ \A h \in Imported : saved[h].jump = Jump(Imported, h)
        /\ \A h \in HostsOf(base) \ Imported : saved[h] = base[h]
    BY <2>1, <2>2, <2>3, ApplySettings DEF Sound
  <2>5. \A i \in Present(base) : saved[i] = base[i]
    <3>1. \A i \in Present(base) : i \notin Imported
      BY <2>2 DEF HostsOf, Aliases
    <3> QED
      BY <2>4, <3>1
  <2>6. ASSUME NEW a \in Imported, NEW h \in HostsOf(saved)
        PROVE  Before(a, h) \subseteq {saved[h].jump}
    <3>1. PICK g \in Groups(base) : a \in g
      BY <2>1, GroupOf DEF Part
    <3>2. Part(base, g) /\ g \subseteq Imported
      BY <2>1, <3>1, GroupFacts DEF Part
    <3>3. RoutesAgree(base, g)
      BY <3>2 DEF Inv, BaseInv, CanImport
    <3>4. Before(a, h) \subseteq Through(g, h)
      BY <3>1 DEF Through
    <3>5. CASE h \in g
      <4>1. Through(g, h) \subseteq {Jump(g, h)}
        BY <2>1, <2>2, <3>2, <3>3, <3>5, AgreeJump
      <4>2. Jump(Imported, h) = Jump(g, h)
        BY <2>1, <3>2, <3>5, ThroughPart DEF Part
      <4> QED
        BY <2>4, <3>2, <3>4, <3>5, <4>1, <4>2
    <3>6. CASE h \in Imported \ g
      <4>1. Part(base, Imported \ g)
        BY <2>1, <3>2, ClosedSets DEF Part
      <4>2. Through(g, h) = {}
        BY <2>1, <3>2, <3>6, <4>1, CrossFree DEF Part
      <4> QED
        BY <3>4, <4>2
    <3>7. CASE h \in HostsOf(base)
      <4>1. h \notin g /\ h \notin Imported
        BY <2>2, <3>2, <3>7
      <4>2. Through(g, h) \subseteq {base[h].jump}
        BY <3>3, <3>7, <4>1 DEF RoutesAgree, Rerouted
      <4> QED
        BY <2>4, <3>4, <3>7, <4>1, <4>2
    <3> QED
      BY <2>1, <3>5, <3>6, <3>7
  <2> QED
    BY <2>5, <2>6
<1> QED
  BY <1>1, Invariance, PTL
=============================================================================
