----------------------------- MODULE DeskState -----------------------------
(***************************************************************************)
(* The saved settings of one desk and what is computed on them: validation *)
(* (src/internal/model/model.go, src/internal/database/store.go), the      *)
(* selection that is shared, and the ways in which foreign settings are    *)
(* merged into one's own (src/internal/provision, src/internal/web).       *)
(*                                                                         *)
(* The four lists of model.State are one function from record ids to       *)
(* records, None where there is no such record.  Of a record it keeps the  *)
(* fields that validation and the merges look at: a key's path, a host's   *)
(* name, key and jump host, a tunnel's host and local port, a service's    *)
(* tunnel and the port of its URL.  The code treats the lists one after    *)
(* the other and gives up on the first error, before anything is written,  *)
(* so the operators here treat the four kinds at once.                     *)
(***************************************************************************)
EXTENDS Integers

CONSTANTS
    KeyId, HostId, TunnelId, ServiceId,  \* record ids, one set per list
    Name,        \* host names
    Port,        \* local ports
    MaxHops,     \* hosts on a route at most (16)
    None         \* no record, the empty id

Item == KeyId \cup HostId \cup TunnelId \cup ServiceId

\* A file the user registered, one an installer wrote, and what a feed says.
Path == {"file", "bundle", "local-key-preserved"}

KeyRec == [path : Path]
HostRec == [name : Name, key : KeyId, jump : HostId \cup {None}]
TunnelRec == [host : HostId, port : Port]
ServiceRec == [tunnel : TunnelId, port : Port]

ASSUME ItemAssumption ==
    /\ None \notin Item \cup KeyRec \cup HostRec \cup TunnelRec \cup ServiceRec
    /\ KeyId \cap (HostId \cup TunnelId \cup ServiceId) = {}
    /\ HostId \cap (TunnelId \cup ServiceId) = {}
    /\ TunnelId \cap ServiceId = {}
ASSUME HopAssumption == MaxHops \in Nat \ {0}

\* The settings of a desk: every record is one of its list.
Settings ==
    {s \in [Item -> KeyRec \cup HostRec \cup TunnelRec \cup ServiceRec \cup {None}] :
        /\ \A i \in KeyId : s[i] \in KeyRec \cup {None}
        /\ \A i \in HostId : s[i] \in HostRec \cup {None}
        /\ \A i \in TunnelId : s[i] \in TunnelRec \cup {None}
        /\ \A i \in ServiceId : s[i] \in ServiceRec \cup {None}}

Empty == [i \in Item |-> None]

Present(s) == {i \in Item : s[i] # None}

----------------------------------------------------------------------------
(* Validation.                                                             *)

\* The host reached after n jumps from h: None past the last hop, and again
\* and again the missing host where a route leads nowhere.
Route(s, h) ==
    LET r[n \in 0..MaxHops] ==
            IF n = 0 THEN h
            ELSE IF r[n - 1] \in HostId /\ s[r[n - 1]] # None
                   THEN s[r[n - 1]].jump
                   ELSE r[n - 1]
    IN  r

\* Chain finds a route of at most MaxHops hosts: a cycle never ends.
ChainOK(s, h) == \E n \in 0..MaxHops : Route(s, h)[n] = None

\* The hosts Chain returns.
Hops(s, h) == {Route(s, h)[n] : n \in 0..MaxHops} \ {None}

\* What Validate asks of a host: a name of its own, a key and a route.
HostOK(s, h) ==
    /\ \A g \in HostId : g # h /\ s[g] # None => s[g].name # s[h].name
    /\ s[s[h].key] # None
    /\ ChainOK(s, h)

\* The URL of a service has the local port of its tunnel.
ServiceOK(s, v) == s[s[v].tunnel] # None /\ s[v].port = s[s[v].tunnel].port

Validate(s) ==
    /\ \A h \in HostId : s[h] # None => HostOK(s, h)
    /\ \A t \in TunnelId : s[t] # None => s[s[t].host] # None
    /\ \A v \in ServiceId : s[v] # None => ServiceOK(s, v)

----------------------------------------------------------------------------
(* What a set of keys shares.                                              *)

SharedHosts(s, ids) == {h \in HostId : s[h] # None /\ s[h].key \in ids}
SharedTunnels(s, ids) == {t \in TunnelId : s[t] # None /\ s[t].host \in SharedHosts(s, ids)}
SharedServices(s, ids) ==
    {v \in ServiceId : s[v] # None /\ s[v].tunnel \in SharedTunnels(s, ids)}

Selection(s, ids) ==
    [i \in Item |-> IF i \in ids \cup SharedHosts(s, ids) \cup SharedTunnels(s, ids)
                               \cup SharedServices(s, ids)
                      THEN s[i] ELSE None]

\* Select gives no error: some key, all of them there, and with every host
\* the keys of the hosts it is reached through.
CanSelect(s, ids) ==
    /\ ids # {}
    /\ \A k \in ids : s[k] # None
    /\ \A h \in SharedHosts(s, ids) :
          ChainOK(s, h) /\ \A g \in Hops(s, h) : s[g].key \in ids
    /\ Validate(Selection(s, ids))

\* The keys of a feed's scope that still exist.
Existing(s, scope) == {k \in scope : s[k] # None}

\* Whether SignFeed answers, and with what: no existing key is an empty state.
FeedOK(s, scope) == Existing(s, scope) = {} \/ CanSelect(s, Existing(s, scope))
Feed(s, scope) ==
    [i \in Item |-> IF i \in Existing(s, scope) THEN [path |-> "local-key-preserved"]
                      ELSE Selection(s, Existing(s, scope))[i]]

\* Whether RefreshBundle makes an installer, and with which records.
CanRefresh(s, chosen) == CanSelect(s, Existing(s, chosen))
Refreshed(s, chosen) == Selection(s, Existing(s, chosen))

----------------------------------------------------------------------------
(* ApplyFeed: local settings l, the items a subscription manages, a feed f.*)

\* The feed, each of its keys as it is known here.
WithLocalKeys(l, f) ==
    [i \in Item |-> IF i \in KeyId /\ f[i] # None THEN l[i] ELSE f[i]]

\* Every key of the feed is one the subscription brought.
KeysKnown(l, managed, f) ==
    \A k \in KeyId : f[k] # None => l[k] # None /\ k \in managed

\* Mutant: a personal record with the id of an incoming one is overwritten.
NoClashUnchecked(l, managed, f) == TRUE

\* Mutant: a record that differs is a conflict, as it is for an installer.
NoClashLikeMerge(l, managed, f) ==
    \A i \in Item : f[i] # None /\ l[i] # None => i \in managed /\ f[i] = l[i]

\* syncRecords finds no personal record with the id of an incoming one.
NoClash(l, managed, f) ==
    \A i \in Item : f[i] # None /\ l[i] # None => i \in managed

\* Records of f take the place of those of l or join them.
Overlay(l, f) == [i \in Item |-> IF f[i] # None THEN f[i] ELSE l[i]]

\* Mutant: web links the feed no longer has keep their port.
FollowPortNever(s, gone) == s

\* Web links the feed no longer has follow the port of their tunnel.
FollowPort(s, gone) ==
    [i \in Item |-> IF i \in ServiceId \cap gone /\ s[i] # None
                      THEN [tunnel |-> s[i].tunnel, port |-> s[s[i].tunnel].port]
                      ELSE s[i]]

\* Mutant: every managed item is called missing, those of the feed too.
GoneAll(managed, f) == managed

\* The managed items that the feed no longer has.
Gone(managed, f) == managed \ Present(f)

\* The settings ApplyFeed leaves, and whether Update commits them.
Applied(l, managed, f) ==
    FollowPort(Overlay(l, WithLocalKeys(l, f)), Gone(managed, f))

CanApply(l, managed, f) ==
    /\ KeysKnown(l, managed, f)
    /\ NoClash(l, managed, f)
    /\ Validate(Applied(l, managed, f))

----------------------------------------------------------------------------
(* merge and mergeRecords, of an installer's and of a backup's records.    *)

CanMerge(l, f) ==
    /\ \A i \in Item : f[i] # None /\ l[i] # None => f[i] = l[i]
    /\ Validate(Overlay(l, f))

----------------------------------------------------------------------------
(* What the handlers save and delete make of the settings.                 *)

\* Replace of a record, or append of a new one.
Put(s, i, v) == [s EXCEPT ![i] = v]

\* A tunnel saved together with its web links: the listed ones have its port,
\* the others of this tunnel are gone.
PutTunnel(s, t, v, links) ==
    [i \in Item |->
        IF i = t THEN v
        ELSE IF i \in links THEN [tunnel |-> t, port |-> v.port]
        ELSE IF i \in ServiceId /\ s[i] # None /\ s[i].tunnel = t THEN None
        ELSE s[i]]

\* A tunnel takes its web links with it; any other record goes alone.
Remove(s, x) ==
    [i \in Item |->
        IF i = x \/ (i \in ServiceId /\ s[i] # None /\ s[i].tunnel = x) THEN None
        ELSE s[i]]
=============================================================================
