---------------------------- MODULE ConfigParser ----------------------------
(***************************************************************************)
(* What Parse makes of an SSH config (src/internal/sshconfig/parser.go).   *)
(* A file is a sequence of lines with a key and a value.  The value of a   *)
(* Host line is a set of patterns, each with the aliases it matches, that  *)
(* of a ProxyJump line the hops, with None for one that is no plain alias, *)
(* that of a Port, HostName or IdentityFile line whether it is one that is *)
(* supported: a port, a name without tokens to expand.  Otherwise None is  *)
(* the value "none".  Lines without an effect on the result are left out,  *)
(* and a file that is no config is not parsed.                             *)
(***************************************************************************)
EXTENDS DeskState, Sequences

Pattern == [negative : BOOLEAN, literal : BOOLEAN, matching : SUBSET HostId]

\* The directives that an alias needs, those whose value is looked at, and
\* those that make it unusable.
Required == {"user", "identityfile"}
Checked == {"port", "hostname", "identityfile"}
Unsupported == {"proxycommand", "certificatefile", "identityagent", "include"}

Keys(f, keys) == {n \in 1..Len(f) : f[n].key \in keys}
Latest(ns) == CHOOSE n \in ns : \A m \in ns : m <= n
Earliest(ns) == CHOOSE n \in ns : \A m \in ns : n <= m

\* The Host or Match line that line n stands under, 0 for none.
Section(f, n) == Latest({m \in Keys(f, {"host", "match"}) : m < n} \cup {0})

\* matches: some pattern does and no negated one.
Matches(patterns, a) ==
    /\ \A p \in patterns : p.negative => a \notin p.matching
    /\ \E p \in patterns : ~p.negative /\ a \in p.matching

\* What stands under Host applies to the aliases it matches, what stands
\* before all to every alias, and what stands under Match is dropped.
Applies(f, n, a) ==
    LET s == Section(f, n)
    IN  s = 0 \/ (f[s].key = "host" /\ Matches(f[s].value, a))

\* The lines with the key that apply to a; the first one counts.
Directives(f, key, a) == {n \in Keys(f, {key}) : Applies(f, n, a)}
Given(f, key, a) == Directives(f, key, a) # {}
Value(f, key, a) == f[Earliest(Directives(f, key, a))].value

\* Names that stand on a Host line as they are.
AliasesOf(f) ==
    {a \in HostId : \E n \in Keys(f, {"host"}) : \E p \in f[n].value :
        p.literal /\ ~p.negative /\ a \in p.matching}

\* The hops of the first ProxyJump line.
Jumps(f, a) ==
    IF Given(f, "proxyjump", a) /\ Value(f, "proxyjump", a) # None
      THEN Value(f, "proxyjump", a) ELSE <<>>

\* Valid: what the file says of a is supported, and nothing in it is conditional.
Usable(f, a) ==
    /\ \A key \in Required : Given(f, key, a)
    /\ \A key \in Checked : Given(f, key, a) => Value(f, key, a)
    /\ \A i \in 1..Len(Jumps(f, a)) : Jumps(f, a)[i] # None
    /\ \A key \in Unsupported : Given(f, key, a) => Value(f, key, a) = None
    /\ Keys(f, {"match"}) = {}

\* The aliases of a file; of an unusable one nothing else is used.
Parse(f) ==
    [a \in HostId |->
        IF a \notin AliasesOf(f) THEN None
        ELSE [usable |-> Usable(f, a), jumps |-> IF Usable(f, a) THEN Jumps(f, a) ELSE <<>>]]

----------------------------------------------------------------------------
(* What ssh may make of the file: sections under Match apply or not, and   *)
(* an included file sets the hops or does not.                             *)

\* The lines that apply to a if the conditions in holds are true.
Read(f, a, holds) ==
    {n \in 1..Len(f) : Applies(f, n, a) \/ Section(f, n) \in holds}

\* Include lines that name a file.
Includes(f) == {n \in Keys(f, {"include"}) : f[n].value # None}

\* The hops ssh takes when it reads the lines ns, and the files included in
\* the lines sets say ProxyJump h: the first line that says something counts.
SSHJumps(f, ns, sets, h) ==
    LET jumps == ns \cap (Keys(f, {"proxyjump"}) \cup sets)
        first == Earliest(jumps)
    IN  IF jumps = {} THEN <<>>
        ELSE IF first \in sets THEN <<h>>
        ELSE IF f[first].value = None THEN <<>> ELSE f[first].value
=============================================================================
