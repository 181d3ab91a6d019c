-------------------------- MODULE DeskStateProofs --------------------------
(***************************************************************************)
(* Facts about the operators of DeskState, for the proofs about TeamSync,  *)
(* Desk and StartupImport.  Every operator makes settings of settings;     *)
(* what FollowPort makes are settings only if they are valid, which is why *)
(* the lemma about Applied assumes it.  AppliedKeeps is the reason why     *)
(* personal settings survive a sync, AppliesUnless why a sync is refused.  *)
(***************************************************************************)
EXTENDS DeskState, WellFoundedInduction, TLAPS

Rec == KeyRec \cup HostRec \cup TunnelRec \cup ServiceRec \cup {None}

\* A function on the items with records of the right kind is settings.
LEMMA SettingsIntro ==
    ASSUME NEW s, s = [i \in Item |-> s[i]],
           \A i \in KeyId : s[i] \in KeyRec \cup {None},
           \A i \in HostId : s[i] \in HostRec \cup {None},
           \A i \in TunnelId : s[i] \in TunnelRec \cup {None},
           \A i \in ServiceId : s[i] \in ServiceRec \cup {None}
    PROVE  s \in Settings
<1>1. \A i \in Item : s[i] \in Rec
  BY DEF Item, Rec
<1>2. s \in [Item -> Rec]
  BY <1>1
<1> QED
  BY <1>2 DEF Settings, Rec

\* Settings are functions on the items with records of the right kind.
LEMMA SettingsElim ==
    ASSUME NEW s \in Settings
    PROVE  /\ s = [i \in Item |-> s[i]]
           /\ \A i \in KeyId : s[i] \in KeyRec \cup {None}
           /\ \A i \in HostId : s[i] \in HostRec \cup {None}
           /\ \A i \in TunnelId : s[i] \in TunnelRec \cup {None}
           /\ \A i \in ServiceId : s[i] \in ServiceRec \cup {None}
  BY DEF Settings

\* The kinds of records have different ids.
LEMMA Kinds ==
    /\ KeyId \cap HostId = {} /\ KeyId \cap TunnelId = {} /\ KeyId \cap ServiceId = {}
    /\ HostId \cap TunnelId = {} /\ HostId \cap ServiceId = {}
    /\ TunnelId \cap ServiceId = {}
  BY ItemAssumption

\* No record is None, and None is no id.
LEMMA NotNone ==
    /\ None \notin Item
    /\ None \notin KeyRec /\ None \notin HostRec
    /\ None \notin TunnelRec /\ None \notin ServiceRec
  BY ItemAssumption

\* No records are settings.
LEMMA EmptySettings == Empty \in Settings
  BY SettingsIntro DEF Empty, Item

\* Records of either side are records.
LEMMA OverlaySettings ==
    ASSUME NEW l \in Settings, NEW f \in Settings
    PROVE  Overlay(l, f) \in Settings
<1>1. /\ \A i \in KeyId : Overlay(l, f)[i] \in KeyRec \cup {None}
      /\ \A i \in HostId : Overlay(l, f)[i] \in HostRec \cup {None}
      /\ \A i \in TunnelId : Overlay(l, f)[i] \in TunnelRec \cup {None}
      /\ \A i \in ServiceId : Overlay(l, f)[i] \in ServiceRec \cup {None}
  BY SettingsElim DEF Overlay, Item
<1>2. Overlay(l, f) = [i \in Item |-> Overlay(l, f)[i]]
  BY DEF Overlay
<1> QED
  BY <1>1, <1>2, SettingsIntro

\* Keys as they are known here are keys.
LEMMA LocalKeysSettings ==
    ASSUME NEW l \in Settings, NEW f \in Settings
    PROVE  WithLocalKeys(l, f) \in Settings
<1>1. /\ \A i \in KeyId : WithLocalKeys(l, f)[i] \in KeyRec \cup {None}
      /\ \A i \in HostId : WithLocalKeys(l, f)[i] \in HostRec \cup {None}
      /\ \A i \in TunnelId : WithLocalKeys(l, f)[i] \in TunnelRec \cup {None}
      /\ \A i \in ServiceId : WithLocalKeys(l, f)[i] \in ServiceRec \cup {None}
  BY SettingsElim, Kinds DEF WithLocalKeys, Item
<1>2. WithLocalKeys(l, f) = [i \in Item |-> WithLocalKeys(l, f)[i]]
  BY DEF WithLocalKeys
<1> QED
  BY <1>1, <1>2, SettingsIntro

\* Part of some settings.
LEMMA SelectionSettings ==
    ASSUME NEW s \in Settings, NEW ids
    PROVE  Selection(s, ids) \in Settings
<1>1. \A i \in Item : Selection(s, ids)[i] \in {s[i], None}
  BY DEF Selection
<1>2. /\ \A i \in KeyId : Selection(s, ids)[i] \in KeyRec \cup {None}
      /\ \A i \in HostId : Selection(s, ids)[i] \in HostRec \cup {None}
      /\ \A i \in TunnelId : Selection(s, ids)[i] \in TunnelRec \cup {None}
      /\ \A i \in ServiceId : Selection(s, ids)[i] \in ServiceRec \cup {None}
  BY <1>1, SettingsElim DEF Item
<1>3. Selection(s, ids) = [i \in Item |-> Selection(s, ids)[i]]
  BY DEF Selection
<1> QED
  BY <1>2, <1>3, SettingsIntro

\* A feed is settings.
LEMMA FeedSettings ==
    ASSUME NEW s \in Settings, NEW ids \in SUBSET KeyId
    PROVE  Feed(s, ids) \in Settings
<1> DEFINE sel == Selection(s, Existing(s, ids))
<1>1. sel \in Settings
  BY SelectionSettings
<1>2. Existing(s, ids) \subseteq KeyId /\ [path |-> "local-key-preserved"] \in KeyRec
  BY DEF Existing, KeyRec, Path
<1>3. Feed(s, ids) = [i \in Item |-> IF i \in Existing(s, ids)
                          THEN [path |-> "local-key-preserved"] ELSE sel[i]]
  BY DEF Feed
<1> HIDE DEF sel
<1>4. /\ \A i \in KeyId : Feed(s, ids)[i] \in KeyRec \cup {None}
      /\ \A i \in HostId : Feed(s, ids)[i] \in HostRec \cup {None}
      /\ \A i \in TunnelId : Feed(s, ids)[i] \in TunnelRec \cup {None}
      /\ \A i \in ServiceId : Feed(s, ids)[i] \in ServiceRec \cup {None}
  BY <1>1, <1>2, <1>3, SettingsElim, Kinds DEF Item
<1>5. Feed(s, ids) = [i \in Item |-> Feed(s, ids)[i]]
  BY <1>3
<1> QED
  BY <1>4, <1>5, SettingsIntro

\* One record more, or another one.
LEMMA PutSettings ==
    ASSUME NEW s \in Settings, NEW i, NEW v,
           \/ i \in KeyId /\ v \in KeyRec
           \/ i \in HostId /\ v \in HostRec
           \/ i \in TunnelId /\ v \in TunnelRec
           \/ i \in ServiceId /\ v \in ServiceRec
    PROVE  Put(s, i, v) \in Settings
<1>1. /\ s = [j \in Item |-> s[j]] /\ i \in Item
  BY SettingsElim DEF Item
<1>2. \A j \in Item : Put(s, i, v)[j] = IF j = i THEN v ELSE s[j]
  BY <1>1 DEF Put
<1>3. /\ \A j \in KeyId : Put(s, i, v)[j] \in KeyRec \cup {None}
      /\ \A j \in HostId : Put(s, i, v)[j] \in HostRec \cup {None}
      /\ \A j \in TunnelId : Put(s, i, v)[j] \in TunnelRec \cup {None}
      /\ \A j \in ServiceId : Put(s, i, v)[j] \in ServiceRec \cup {None}
  BY <1>2, SettingsElim, Kinds DEF Item
<1>4. Put(s, i, v) = [j \in Item |-> Put(s, i, v)[j]]
  BY <1>1 DEF Put
<1> QED
  BY <1>3, <1>4, SettingsIntro

\* A tunnel with its web links.
LEMMA PutTunnelSettings ==
    ASSUME NEW s \in Settings, NEW t \in TunnelId, NEW v \in TunnelRec,
           NEW links \in SUBSET ServiceId
    PROVE  PutTunnel(s, t, v, links) \in Settings
<1> DEFINE new == PutTunnel(s, t, v, links)
<1>1. [tunnel |-> t, port |-> v.port] \in ServiceRec
  BY DEF ServiceRec, TunnelRec
<1>2. \A i \in Item : new[i] = IF i = t THEN v
                              ELSE IF i \in links THEN [tunnel |-> t, port |-> v.port]
                              ELSE IF i \in ServiceId /\ s[i] # None /\ s[i].tunnel = t
                                THEN None ELSE s[i]
  BY DEF PutTunnel
<1>3. new = [i \in Item |-> new[i]]
  BY DEF PutTunnel
<1> HIDE DEF new
<1>4. /\ \A i \in KeyId : new[i] \in KeyRec \cup {None}
      /\ \A i \in HostId : new[i] \in HostRec \cup {None}
      /\ \A i \in TunnelId : new[i] \in TunnelRec \cup {None}
      /\ \A i \in ServiceId : new[i] \in ServiceRec \cup {None}
  BY <1>1, <1>2, SettingsElim, Kinds DEF Item
<1>5. new \in Settings
  BY <1>3, <1>4, SettingsIntro
<1> QED
  BY <1>5 DEF new

\* What is left without a record.
LEMMA RemoveSettings ==
    ASSUME NEW s \in Settings, NEW x
    PROVE  Remove(s, x) \in Settings
<1>1. \A i \in Item : Remove(s, x)[i] \in {s[i], None}
  BY DEF Remove
<1>2. /\ \A i \in KeyId : Remove(s, x)[i] \in KeyRec \cup {None}
      /\ \A i \in HostId : Remove(s, x)[i] \in HostRec \cup {None}
      /\ \A i \in TunnelId : Remove(s, x)[i] \in TunnelRec \cup {None}
      /\ \A i \in ServiceId : Remove(s, x)[i] \in ServiceRec \cup {None}
  BY <1>1, SettingsElim DEF Item
<1>3. Remove(s, x) = [i \in Item |-> Remove(s, x)[i]]
  BY DEF Remove
<1> QED
  BY <1>2, <1>3, SettingsIntro

\* What ApplyFeed leaves, kind by kind.
LEMMA AppliedValue ==
    ASSUME NEW l \in Settings, NEW f \in Settings, NEW managed
    PROVE  LET o == Overlay(l, WithLocalKeys(l, f))
               a == Applied(l, managed, f) IN
           /\ o \in Settings
           /\ a = [i \in Item |-> a[i]]
           /\ \A i \in Item : i \notin ServiceId \cap Gone(managed, f) => a[i] = o[i]
           /\ \A i \in ServiceId \cap Gone(managed, f) :
                 a[i] = IF o[i] # None
                          THEN [tunnel |-> o[i].tunnel, port |-> o[o[i].tunnel].port]
                          ELSE None
<1> DEFINE o == Overlay(l, WithLocalKeys(l, f))
<1>1. o \in Settings
  BY LocalKeysSettings, OverlaySettings
<1>2. Applied(l, managed, f) = FollowPort(o, Gone(managed, f))
  BY DEF Applied
<1> HIDE DEF o
<1>3. \A i \in Item : i \notin ServiceId \cap Gone(managed, f) =>
          FollowPort(o, Gone(managed, f))[i] = o[i]
  BY DEF FollowPort
<1>4. \A i \in ServiceId \cap Gone(managed, f) :
          FollowPort(o, Gone(managed, f))[i] =
              IF o[i] # None THEN [tunnel |-> o[i].tunnel, port |-> o[o[i].tunnel].port]
                             ELSE None
  BY DEF FollowPort, Item
<1>5. FollowPort(o, Gone(managed, f)) = [i \in Item |-> FollowPort(o, Gone(managed, f))[i]]
  BY DEF FollowPort
<1> QED
  BY <1>1, <1>2, <1>3, <1>4, <1>5 DEF o

\* If it is valid, the links that follow a port find their tunnel.
LEMMA AppliedSettings ==
    ASSUME NEW l \in Settings, NEW f \in Settings, NEW managed,
           Validate(Applied(l, managed, f))
    PROVE  Applied(l, managed, f) \in Settings
<1> DEFINE o == Overlay(l, WithLocalKeys(l, f))
           a == Applied(l, managed, f)
           gone == Gone(managed, f)
<1>1. /\ o \in Settings
      /\ a = [i \in Item |-> a[i]]
      /\ \A i \in Item : i \notin ServiceId \cap gone => a[i] = o[i]
      /\ \A i \in ServiceId \cap gone :
            a[i] = IF o[i] # None
                     THEN [tunnel |-> o[i].tunnel, port |-> o[o[i].tunnel].port]
                     ELSE None
  BY AppliedValue
<1>2. \A v \in ServiceId : a[v] # None => a[a[v].tunnel] # None
  BY DEF Validate, ServiceOK
<1> HIDE DEF o, a, gone
<1>3. /\ \A i \in KeyId : a[i] \in KeyRec \cup {None}
      /\ \A i \in HostId : a[i] \in HostRec \cup {None}
      /\ \A i \in TunnelId : a[i] \in TunnelRec \cup {None} /\ a[i] = o[i]
  BY <1>1, SettingsElim, Kinds DEF Item
<1>4. ASSUME NEW i \in ServiceId PROVE a[i] \in ServiceRec \cup {None}
  <2>1. CASE i \notin gone \/ o[i] = None
    BY <2>1, <1>1, SettingsElim DEF Item
  <2>2. CASE i \in gone /\ o[i] # None
    <3>1. o[i] \in ServiceRec /\ o[i].tunnel \in TunnelId
      BY <2>2, <1>1, SettingsElim DEF ServiceRec
    <3>2. a[i] = [tunnel |-> o[i].tunnel, port |-> o[o[i].tunnel].port]
      BY <2>2, <1>1
    <3>3. a[i] # None => a[o[i].tunnel] # None
      BY <1>2, <3>2
    <3>4. a[i] # None => o[o[i].tunnel] \in TunnelRec
      BY <3>1, <3>3, <1>1, <1>3, SettingsElim
    <3>5. a[i] # None => o[o[i].tunnel].port \in Port
      BY <3>4 DEF TunnelRec
    <3> QED
      BY <3>1, <3>2, <3>5 DEF ServiceRec
  <2> QED
    BY <2>1, <2>2
<1>5. a \in Settings
  BY <1>1, <1>3, <1>4, SettingsIntro
<1> QED
  BY <1>5 DEF a

\* Web links lead to tunnels that exist.
LinksBound(s) == \A v \in ServiceId : s[v] # None => s[s[v].tunnel] # None

\* ApplyFeed removes nothing, moves no key and leaves alone what it does not
\* manage.
LEMMA AppliedKeeps ==
    ASSUME NEW l \in Settings, NEW f \in Settings, NEW managed,
           LinksBound(l), NEW i \in Item, l[i] # None
    PROVE  /\ Applied(l, managed, f)[i] # None
           /\ i \in KeyId \/ (f[i] = None /\ i \notin managed) =>
                 Applied(l, managed, f)[i] = l[i]
<1> DEFINE o == Overlay(l, WithLocalKeys(l, f))
           a == Applied(l, managed, f)
           gone == Gone(managed, f)
<1>1. /\ o \in Settings
      /\ \A j \in Item : j \notin ServiceId \cap gone => a[j] = o[j]
      /\ \A j \in ServiceId \cap gone :
            a[j] = IF o[j] # None
                     THEN [tunnel |-> o[j].tunnel, port |-> o[o[j].tunnel].port]
                     ELSE None
  BY AppliedValue
<1>2. \A j \in Item : l[j] # None =>
          /\ o[j] # None
          /\ (j \in KeyId \/ f[j] = None) => o[j] = l[j]
  BY DEF Overlay, WithLocalKeys
<1>3. gone \subseteq managed /\ \A j \in gone \cap Item : f[j] = None
  BY DEF Gone, Present
<1> HIDE DEF o, a, gone
<1>4. CASE i \in ServiceId \cap gone
  <2>1. o[i] = l[i] /\ f[i] = None /\ i \in managed /\ i \notin KeyId
    BY <1>2, <1>3, <1>4, Kinds
  <2>2. l[i] \in ServiceRec /\ l[i].tunnel \in TunnelId
    BY <1>4, SettingsElim DEF ServiceRec
  <2>3. l[l[i].tunnel] # None
    BY <1>4 DEF LinksBound
  <2>4. o[l[i].tunnel] \in TunnelRec
    BY <2>2, <2>3, <1>1, <1>2, SettingsElim DEF Item
  <2>5. a[i] \in ServiceRec
    <3>1. a[i] = [tunnel |-> l[i].tunnel, port |-> o[l[i].tunnel].port]
      BY <1>1, <1>4, <2>1
    <3>2. o[l[i].tunnel].port \in Port
      BY <2>4 DEF TunnelRec
    <3> QED
      BY <2>2, <3>1, <3>2 DEF ServiceRec
  <2> QED
    BY <2>1, <2>5, NotNone DEF a
<1>5. CASE i \notin ServiceId \cap gone
  <2>1. a[i] = o[i]
    BY <1>1, <1>5
  <2> QED
    BY <2>1, <1>2 DEF a
<1> QED
  BY <1>4, <1>5

\* Valid settings have no loose web links.
LEMMA ValidLinks ==
    ASSUME NEW s, Validate(s)
    PROVE  LinksBound(s)
  BY DEF Validate, ServiceOK, LinksBound

----------------------------------------------------------------------------
(* Routes.  The recursive definition has a solution: induction over the    *)
(* hops, as the least counterexample.                                      *)

\* A set of naturals has a least element.
LEMMA NatMin ==
    ASSUME NEW T \in SUBSET Nat, T # {}
    PROVE  \E x \in T : \A y \in T : x <= y
<1> DEFINE R == OpToRel(<, Nat)
<1>1. IsWellFoundedOn(R, Nat)
  BY NatLessThanWellFounded
<1>2. \A x, y \in Nat : <<y, x>> \in R <=> y < x
  BY DEF OpToRel
<1>3. T \subseteq Nat
  OBVIOUS
<1> HIDE DEF R
<1>4. PICK x \in T : \A y \in T : ~(<<y, x>> \in R)
  BY <1>1, <1>3, WFMin
<1>5. ASSUME NEW y \in T
      PROVE  x <= y
  <2>1. x \in Nat /\ y \in Nat
    BY <1>3, <1>4
  <2>2. ~(y < x)
    BY <1>2, <1>4, <2>1
  <2> QED
    BY <2>1, <2>2
<1> QED
  BY <1>4, <1>5

\* What holds of 0, and of n + 1 if it holds of n, holds of all naturals.
LEMMA NatSet ==
    ASSUME NEW T, 0 \in T, \A n \in Nat : n \in T => n + 1 \in T
    PROVE  \A n \in Nat : n \in T
<1> SUFFICES ASSUME NEW n \in Nat, n \notin T
             PROVE  FALSE
  OBVIOUS
<1> DEFINE U == {m \in Nat : m \notin T}
<1>1. PICK x \in U : \A y \in U : x <= y
  <2>1. U \in SUBSET Nat /\ U # {}
    OBVIOUS
  <2> HIDE DEF U
  <2> QED
    BY <2>1, NatMin
<1>2. x \in Nat /\ x # 0 /\ x \notin T
  BY <1>1
<1>3. x - 1 \in Nat /\ (x - 1) + 1 = x /\ ~(x <= x - 1)
  BY <1>2
<1>4. x - 1 \in T
  BY <1>1, <1>3
<1> QED
  BY <1>2, <1>3, <1>4

\* The host that follows x on a route.
Hop(s, x) == IF x \in HostId /\ s[x] # None THEN s[x].jump ELSE x

\* A solution of the recursive definition of a route, up to k.
IsRoute(s, h, k, r) == r = [n \in 0..k |-> IF n = 0 THEN h ELSE Hop(s, r[n - 1])]

\* There is one.
LEMMA RouteExists ==
    ASSUME NEW s, NEW h
    PROVE  \E r : IsRoute(s, h, MaxHops, r)
<1> DEFINE T == {k \in Nat : \E r : IsRoute(s, h, k, r)}
<1>1. 0 \in T
  <2> DEFINE r0 == [n \in 0..0 |-> h]
  <2>1. \A n \in 0..0 : n = 0
    OBVIOUS
  <2>2. IsRoute(s, h, 0, r0)
    BY <2>1 DEF IsRoute
  <2> QED
    BY <2>2
<1>2. ASSUME NEW k \in Nat, k \in T
      PROVE  k + 1 \in T
  <2>1. PICK r : IsRoute(s, h, k, r)
    BY <1>2
  <2> DEFINE q == [n \in 0..(k + 1) |-> IF n = k + 1 THEN Hop(s, r[k]) ELSE r[n]]
  <2> HIDE DEF Hop
  <2>2. ASSUME NEW n \in 0..(k + 1)
        PROVE  q[n] = IF n = 0 THEN h ELSE Hop(s, q[n - 1])
    <3>1. CASE n = k + 1
      <4>1. n # 0 /\ n - 1 = k /\ k \in 0..(k + 1) /\ k # k + 1
        BY <3>1
      <4>2. q[n] = Hop(s, r[k]) /\ q[k] = r[k]
        BY <3>1, <4>1
      <4> QED
        BY <4>1, <4>2
    <3>2. CASE n = 0
      <4>1. 0 \in 0..k /\ n # k + 1
        BY <3>2
      <4>2. q[n] = r[0]
        BY <3>2, <4>1
      <4>3. r[0] = h
        BY <2>1, <4>1 DEF IsRoute
      <4> QED
        BY <3>2, <4>2, <4>3
    <3>3. CASE n # 0 /\ n # k + 1
      <4>1. n \in 0..k /\ n - 1 \in 0..(k + 1) /\ n - 1 # k + 1
        BY <3>3
      <4>2. q[n] = r[n] /\ q[n - 1] = r[n - 1]
        BY <3>3, <4>1
      <4>3. r[n] = Hop(s, r[n - 1])
        BY <2>1, <3>3, <4>1 DEF IsRoute
      <4> QED
        BY <3>3, <4>2, <4>3
    <3> QED
      BY <3>1, <3>2, <3>3
  <2>3. IsRoute(s, h, k + 1, q)
    <3>1. q = [n \in 0..(k + 1) |-> q[n]]
      OBVIOUS
    <3> HIDE DEF q
    <3> QED
      BY <2>2, <3>1 DEF IsRoute
  <2> QED
    BY <2>3
<1>3. MaxHops \in T
  <2> HIDE DEF T
  <2>1. \A n \in Nat : n \in T
    BY <1>1, <1>2, NatSet
  <2> QED
    BY <2>1, HopAssumption
<1> QED
  BY <1>3

\* A route begins with the host, and hop follows hop.
LEMMA RouteSteps ==
    ASSUME NEW s, NEW h
    PROVE  /\ Route(s, h)[0] = h
           /\ \A n \in 1..MaxHops : Route(s, h)[n] = Hop(s, Route(s, h)[n - 1])
<1>1. IsRoute(s, h, MaxHops, Route(s, h))
  <2>1. \E r : IsRoute(s, h, MaxHops, r)
    BY RouteExists
  <2>2. Route(s, h) = CHOOSE r : IsRoute(s, h, MaxHops, r)
    BY DEF Route, Hop, IsRoute
  <2> QED
    BY <2>1, <2>2
<1>2. 0 \in 0..MaxHops /\ \A n \in 1..MaxHops : n \in 0..MaxHops /\ n # 0
  BY HopAssumption
<1> QED
  BY <1>1, <1>2 DEF IsRoute

\* Two settings that agree on some hosts, and whose routes do not leave them,
\* have the same routes there.
LEMMA RouteAgree ==
    ASSUME NEW s, NEW t, NEW X,
           \A x \in X : Hop(s, x) = Hop(t, x) /\ Hop(s, x) \in X,
           NEW h \in X
    PROVE  \A n \in 0..MaxHops : Route(s, h)[n] = Route(t, h)[n] /\ Route(s, h)[n] \in X
<1> DEFINE T == {n \in Nat : n \in 0..MaxHops => Route(s, h)[n] = Route(t, h)[n] /\ Route(s, h)[n] \in X}
<1>1. 0 \in T
  BY RouteSteps
<1>2. ASSUME NEW n \in Nat, n \in T
      PROVE  n + 1 \in T
  <2> SUFFICES ASSUME n + 1 \in 0..MaxHops
               PROVE  Route(s, h)[n + 1] = Route(t, h)[n + 1] /\ Route(s, h)[n + 1] \in X
    OBVIOUS
  <2>1. n \in 0..MaxHops /\ n + 1 \in 1..MaxHops /\ (n + 1) - 1 = n
    BY HopAssumption
  <2>2. /\ Route(s, h)[n + 1] = Hop(s, Route(s, h)[n])
        /\ Route(t, h)[n + 1] = Hop(t, Route(t, h)[n])
    BY <2>1, RouteSteps
  <2> QED
    BY <1>2, <2>1, <2>2
<1>3. \A n \in Nat : n \in T
  <2> HIDE DEF T
  <2> QED
    BY <1>1, <1>2, NatSet
<1> QED
  BY <1>3, HopAssumption

\* A host with a route has no jump host or one that exists.
LEMMA RouteLeads ==
    ASSUME NEW s, NEW h \in HostId, s[h] # None, ChainOK(s, h), None \notin HostId
    PROVE  s[h].jump = None \/ (s[h].jump \in HostId /\ s[s[h].jump] # None)
<1> SUFFICES ASSUME s[h].jump # None, ~(s[h].jump \in HostId /\ s[s[h].jump] # None)
             PROVE  FALSE
  OBVIOUS
<1> DEFINE j == s[h].jump
           T == {n \in Nat : n \in 1..MaxHops => Route(s, h)[n] = j}
<1>1. Hop(s, h) = j /\ Hop(s, j) = j
  BY DEF Hop
<1> HIDE DEF j
<1>2. 0 \in T
  OBVIOUS
<1>3. ASSUME NEW n \in Nat, n \in T
      PROVE  n + 1 \in T
  <2> SUFFICES ASSUME n + 1 \in 1..MaxHops
               PROVE  Route(s, h)[n + 1] = j
    OBVIOUS
  <2>1. (n + 1) - 1 = n /\ (n = 0 \/ n \in 1..MaxHops)
    BY HopAssumption
  <2>2. Route(s, h)[n + 1] = Hop(s, Route(s, h)[n])
    BY <2>1, RouteSteps
  <2>3. Route(s, h)[n] = h \/ Route(s, h)[n] = j
    BY <1>3, <2>1, RouteSteps
  <2> QED
    BY <1>1, <2>2, <2>3
<1>4. \A n \in Nat : n \in T
  <2> HIDE DEF T
  <2> QED
    BY <1>2, <1>3, NatSet
<1>5. \A n \in 0..MaxHops : Route(s, h)[n] \in {h, j}
  <2> TAKE n \in 0..MaxHops
  <2>1. n = 0 \/ n \in 1..MaxHops
    BY HopAssumption
  <2> QED
    BY <1>4, <2>1, RouteSteps
<1> QED
  BY <1>5 DEF ChainOK, j

----------------------------------------------------------------------------
(* When a feed can be applied.                                             *)

\* No records are valid.
LEMMA EmptyValid == Validate(Empty)
<1>1. \A i \in Item : Empty[i] = None
  BY DEF Empty
<1> QED
  BY <1>1 DEF Validate, Item

\* What SignFeed answers is valid: it is a selection, with other paths.
LEMMA FeedValid ==
    ASSUME NEW s \in Settings, NEW scope \in SUBSET KeyId, FeedOK(s, scope)
    PROVE  Validate(Feed(s, scope))
<1> DEFINE ids == Existing(s, scope)
           u == Selection(s, ids)
           f == Feed(s, scope)
<1>1. ids \subseteq KeyId /\ \A k \in ids : s[k] # None
  BY DEF Existing
<1>2. \A i \in Item : f[i] = IF i \in ids THEN [path |-> "local-key-preserved"] ELSE u[i]
  BY DEF Feed
<1>3. u \in Settings /\ [path |-> "local-key-preserved"] \in KeyRec
  BY SelectionSettings DEF KeyRec, Path
<1>4. \A k \in ids : u[k] = s[k]
  BY <1>1 DEF Selection, Item
<1> HIDE DEF u, f
<1>5. /\ \A i \in HostId \cup TunnelId \cup ServiceId : f[i] = u[i]
      /\ \A i \in Item : f[i] # None <=> u[i] # None
  <2>1. \A i \in HostId \cup TunnelId \cup ServiceId : i \in Item /\ i \notin ids
    BY <1>1, Kinds DEF Item
  <2> QED
    BY <1>1, <1>2, <1>3, <1>4, <2>1, NotNone
<1>6. Validate(u)
  <2>1. CASE ids # {}
    BY <2>1 DEF FeedOK, CanSelect, u
  <2>2. CASE ids = {}
    <3>1. \A i \in Item : u[i] = None
      BY <2>2 DEF u, Selection, SharedHosts, SharedTunnels, SharedServices
    <3> QED
      BY <3>1 DEF Validate, Item
  <2> QED
    BY <2>1, <2>2
<1>7. \A h \in HostId : ChainOK(u, h) => ChainOK(f, h)
  <2> TAKE h \in HostId
  <2> DEFINE X == HostId \cup {None}
  <2>1. ASSUME NEW x \in X
        PROVE  Hop(u, x) = Hop(f, x) /\ Hop(u, x) \in X
    <3>1. CASE x \in HostId /\ u[x] # None
      <4>1. u[x] \in HostRec
        BY <1>3, <3>1, SettingsElim
      <4>2. u[x].jump \in X
        BY <4>1 DEF HostRec
      <4> QED
        BY <1>5, <3>1, <4>2 DEF Hop
    <3>2. CASE ~(x \in HostId /\ u[x] # None)
      BY <1>5, <3>2 DEF Hop
    <3> QED
      BY <3>1, <3>2
  <2>2. h \in X
    OBVIOUS
  <2> HIDE DEF X
  <2>3. \A n \in 0..MaxHops : Route(u, h)[n] = Route(f, h)[n]
    BY <2>1, <2>2, RouteAgree
  <2> QED
    BY <2>3 DEF ChainOK
<1>8. \A h \in HostId : f[h] # None => HostOK(f, h)
  <2> SUFFICES ASSUME NEW h \in HostId, f[h] # None
               PROVE  HostOK(f, h)
    OBVIOUS
  <2>1. HostOK(u, h) /\ u[h] = f[h] /\ u[h] \in HostRec
    BY <1>3, <1>5, <1>6, SettingsElim DEF Validate
  <2>2. u[h].key \in Item
    BY <2>1 DEF HostRec, Item
  <2> QED
    BY <1>5, <1>7, <2>1, <2>2 DEF HostOK
<1>9. \A t \in TunnelId : f[t] # None => f[f[t].host] # None
  <2> SUFFICES ASSUME NEW t \in TunnelId, f[t] # None
               PROVE  f[f[t].host] # None
    OBVIOUS
  <2>1. u[t] = f[t] /\ u[t] \in TunnelRec /\ u[u[t].host] # None
    BY <1>3, <1>5, <1>6, SettingsElim DEF Validate
  <2>2. u[t].host \in Item
    BY <2>1 DEF TunnelRec, Item
  <2> QED
    BY <1>5, <2>1, <2>2
<1>10. \A v \in ServiceId : f[v] # None => ServiceOK(f, v)
  <2> SUFFICES ASSUME NEW v \in ServiceId, f[v] # None
               PROVE  ServiceOK(f, v)
    OBVIOUS
  <2>1. u[v] = f[v] /\ u[v] \in ServiceRec /\ ServiceOK(u, v)
    BY <1>3, <1>5, <1>6, SettingsElim DEF Validate
  <2>2. u[v].tunnel \in TunnelId
    BY <2>1 DEF ServiceRec
  <2> QED
    BY <1>5, <2>1, <2>2 DEF ServiceOK
<1>11. Validate(f)
  BY <1>8, <1>9, <1>10 DEF Validate
<1> QED
  BY <1>11 DEF f

\* A valid feed can be applied to valid settings unless one of these is wrong:
\* its keys, its ids, the names, the ports of web links, the routes.
LEMMA AppliesUnless ==
    ASSUME NEW l \in Settings, NEW f \in Settings, NEW managed, Validate(l), Validate(f),
           KeysKnown(l, managed, f), NoClash(l, managed, f),
           \A g, h \in HostId :
               f[g] # None /\ f[h] = None /\ l[h] # None => f[g].name # l[h].name,
           \A v \in ServiceId \ managed : \A t \in TunnelId :
               l[v] # None /\ l[v].tunnel = t /\ f[t] # None => f[t].port = l[t].port,
           \A h \in HostId : l[h] # None => ChainOK(Overlay(l, WithLocalKeys(l, f)), h)
    PROVE  CanApply(l, managed, f)
<1> DEFINE o == Overlay(l, WithLocalKeys(l, f))
           a == Applied(l, managed, f)
           gone == Gone(managed, f)
<1>1. /\ o \in Settings
      /\ \A i \in Item : i \notin ServiceId \cap gone => a[i] = o[i]
      /\ \A i \in ServiceId \cap gone :
            a[i] = IF o[i] # None
                     THEN [tunnel |-> o[i].tunnel, port |-> o[o[i].tunnel].port]
                     ELSE None
  BY AppliedValue
<1>2. /\ \A i \in HostId \cup TunnelId \cup ServiceId : o[i] = IF f[i] # None THEN f[i] ELSE l[i]
      /\ \A k \in KeyId : o[k] = l[k]
  <2>1. \A i \in HostId \cup TunnelId \cup ServiceId : i \in Item /\ i \notin KeyId
    BY Kinds DEF Item
  <2>2. \A i \in Item : o[i] = IF WithLocalKeys(l, f)[i] # None THEN WithLocalKeys(l, f)[i] ELSE l[i]
    BY DEF Overlay
  <2>3. \A i \in Item : WithLocalKeys(l, f)[i] = IF i \in KeyId /\ f[i] # None THEN l[i] ELSE f[i]
    BY DEF WithLocalKeys
  <2>4. \A k \in KeyId : k \in Item
    BY DEF Item
  <2> HIDE DEF o
  <2> QED
    BY <2>1, <2>2, <2>3, <2>4
<1>3. gone \subseteq managed /\ \A i \in Item : i \in gone <=> i \in managed /\ f[i] = None
  BY DEF Gone, Present
<1>4. \A h \in HostId : l[h] # None => ChainOK(o, h)
  OBVIOUS
<1>5. \A k \in KeyId : f[k] # None => l[k] # None
  BY DEF KeysKnown
<1> HIDE DEF o, a, gone
<1>6. /\ \A i \in HostId \cup TunnelId : a[i] = IF f[i] # None THEN f[i] ELSE l[i]
      /\ \A k \in KeyId : a[k] = l[k]
      /\ \A i \in HostId : a[i] = o[i]
  <2>1. \A i \in KeyId \cup HostId \cup TunnelId : i \in Item /\ i \notin ServiceId
    BY Kinds DEF Item
  <2> QED
    BY <1>1, <1>2, <2>1
<1>7. ASSUME NEW h \in HostId, a[h] # None
      PROVE  ChainOK(a, h)
  <2>1. CASE l[h] # None
    <3> DEFINE X == HostId \cup {None}
    <3>1. ASSUME NEW x \in X
          PROVE  Hop(o, x) = Hop(a, x) /\ Hop(o, x) \in X
      <4>1. CASE x \in HostId /\ o[x] # None
        <5>1. o[x] \in HostRec
          BY <1>1, <4>1, SettingsElim
        <5>2. o[x].jump \in X
          BY <5>1 DEF HostRec
        <5> QED
          BY <1>6, <4>1, <5>2 DEF Hop
      <4>2. CASE ~(x \in HostId /\ o[x] # None)
        BY <1>6, <4>2 DEF Hop
      <4> QED
        BY <4>1, <4>2
    <3>2. h \in X
      OBVIOUS
    <3> HIDE DEF X
    <3>3. \A n \in 0..MaxHops : Route(o, h)[n] = Route(a, h)[n]
      BY <3>1, <3>2, RouteAgree
    <3> QED
      BY <1>4, <2>1, <3>3 DEF ChainOK
  <2>2. CASE l[h] = None
    <3> DEFINE X == {x \in HostId : f[x] # None} \cup {None}
    <3>1. ASSUME NEW x \in X
          PROVE  Hop(f, x) = Hop(a, x) /\ Hop(f, x) \in X
      <4>1. CASE x \in HostId /\ f[x] # None
        <5>1. ChainOK(f, x)
          BY <4>1 DEF Validate, HostOK
        <5>2. f[x].jump \in X
          BY <4>1, <5>1, RouteLeads, NotNone DEF Item
        <5> QED
          BY <1>6, <4>1, <5>2 DEF Hop
      <4>2. CASE x = None
        BY <4>2, NotNone DEF Hop, Item
      <4> QED
        BY <4>1, <4>2
    <3>2. h \in X /\ f[h] # None
      BY <1>6, <1>7, <2>2
    <3>3. ChainOK(f, h)
      BY <3>2 DEF Validate, HostOK
    <3> HIDE DEF X
    <3>4. \A n \in 0..MaxHops : Route(f, h)[n] = Route(a, h)[n]
      BY <3>1, <3>2, RouteAgree
    <3> QED
      BY <3>3, <3>4 DEF ChainOK
  <2> QED
    BY <2>1, <2>2
<1>8. ASSUME NEW h \in HostId, a[h] # None
      PROVE  HostOK(a, h)
  <2>1. \A g \in HostId : g # h /\ a[g] # None => a[g].name # a[h].name
    <3> SUFFICES ASSUME NEW g \in HostId, g # h, a[g] # None
                 PROVE  a[g].name # a[h].name
      OBVIOUS
    <3>1. CASE f[g] # None /\ f[h] # None
      BY <1>6, <3>1 DEF Validate, HostOK
    <3>2. CASE f[g] = None /\ f[h] = None
      BY <1>6, <1>8, <3>2 DEF Validate, HostOK
    <3>3. CASE f[g] # None /\ f[h] = None
      BY <1>6, <1>8, <3>3
    <3>4. CASE f[g] = None /\ f[h] # None
      BY <1>6, <3>4
    <3> QED
      BY <3>1, <3>2, <3>3, <3>4
  <2>2. a[a[h].key] # None
    <3>1. CASE f[h] # None
      <4>1. f[h] \in HostRec /\ f[f[h].key] # None
        BY <3>1, SettingsElim DEF Validate, HostOK
      <4>2. f[h].key \in KeyId
        BY <4>1 DEF HostRec
      <4> QED
        BY <1>5, <1>6, <3>1, <4>1, <4>2
    <3>2. CASE f[h] = None
      <4>1. l[h] # None /\ a[h] = l[h]
        BY <1>6, <1>8, <3>2
      <4>2. l[h] \in HostRec /\ l[l[h].key] # None
        BY <4>1, SettingsElim DEF Validate, HostOK
      <4>3. l[h].key \in KeyId
        BY <4>2 DEF HostRec
      <4> QED
        BY <1>6, <4>1, <4>2, <4>3
    <3> QED
      BY <3>1, <3>2
  <2> QED
    BY <1>7, <1>8, <2>1, <2>2 DEF HostOK
<1>9. ASSUME NEW t \in TunnelId, a[t] # None
      PROVE  a[a[t].host] # None
  <2>1. CASE f[t] # None
    <3>1. f[t] \in TunnelRec /\ f[f[t].host] # None
      BY <2>1, SettingsElim DEF Validate
    <3>2. f[t].host \in HostId
      BY <3>1 DEF TunnelRec
    <3> QED
      BY <1>6, <2>1, <3>1, <3>2
  <2>2. CASE f[t] = None
    <3>1. l[t] # None /\ a[t] = l[t]
      BY <1>6, <1>9, <2>2
    <3>2. l[t] \in TunnelRec /\ l[l[t].host] # None
      BY <3>1, SettingsElim DEF Validate
    <3>3. l[t].host \in HostId
      BY <3>2 DEF TunnelRec
    <3> QED
      BY <1>6, <3>1, <3>2, <3>3
  <2> QED
    BY <2>1, <2>2
<1>10. ASSUME NEW v \in ServiceId, a[v] # None
       PROVE  ServiceOK(a, v)
  <2>0. v \in Item
    BY DEF Item
  <2>1. CASE f[v] # None
    <3>1. a[v] = f[v]
      BY <1>1, <1>2, <1>3, <2>0, <2>1
    <3>2. f[v] \in ServiceRec /\ ServiceOK(f, v)
      BY <2>1, SettingsElim DEF Validate
    <3>3. f[v].tunnel \in TunnelId /\ f[f[v].tunnel] # None /\ f[v].port = f[f[v].tunnel].port
      BY <3>2 DEF ServiceRec, ServiceOK
    <3> QED
      BY <1>6, <3>1, <3>3 DEF ServiceOK
  <2>2. CASE f[v] = None
    <3>1. o[v] = l[v] /\ l[v] # None
      BY <1>1, <1>2, <1>10, <2>0, <2>2
    <3>2. l[v] \in ServiceRec /\ ServiceOK(l, v)
      BY <3>1, SettingsElim DEF Validate
    <3> DEFINE t == l[v].tunnel
    <3>3. t \in TunnelId /\ l[t] # None /\ l[v].port = l[t].port
      BY <3>2 DEF ServiceRec, ServiceOK
    <3>4. a[t] # None /\ a[t] = o[t]
      BY <1>2, <1>6, <3>3
    <3>5. CASE v \in managed
      <4>1. a[v] = [tunnel |-> t, port |-> o[t].port]
        BY <1>1, <1>3, <2>0, <2>2, <3>1, <3>5
      <4> HIDE DEF t
      <4>2. a[v].tunnel = t /\ a[v].port = o[t].port
        BY <4>1
      <4> QED
        BY <3>4, <4>2 DEF ServiceOK
    <3>6. CASE v \notin managed
      <4>1. a[v] = l[v]
        BY <1>1, <1>3, <2>0, <3>1, <3>6
      <4>2. a[t].port = l[t].port
        BY <1>6, <3>1, <3>3, <3>6
      <4> QED
        BY <3>3, <3>4, <4>1, <4>2 DEF ServiceOK
    <3> QED
      BY <3>5, <3>6
  <2> QED
    BY <2>1, <2>2
<1>11. Validate(a)
  BY <1>8, <1>9, <1>10 DEF Validate
<1> QED
  BY <1>11 DEF CanApply, a
=============================================================================
