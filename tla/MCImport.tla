------------------------------ MODULE MCImport ------------------------------
(* An instance of StartupImport for TLC.                                   *)
EXTENDS StartupImport

CONSTANTS a1, a2, a3

\* All aliases have the same key file.
OneKey == [h \in HostId |-> CHOOSE k \in KeyId : TRUE]

Line(key, value) == [key |-> key, value |-> value]
Alias(a) == [negative |-> FALSE, literal |-> TRUE, matching |-> {a}]
But(a) == [negative |-> TRUE, literal |-> FALSE, matching |-> {a}]
All == [negative |-> FALSE, literal |-> FALSE, matching |-> HostId]
Account == <<Line("user", TRUE), Line("identityfile", TRUE)>>

\* The lines of an alias: no entry, one that is not supported, or one with a
\* ProxyJump over at most two other hosts.
Entries(a) ==
    {<<>>, <<Line("host", {Alias(a)}), Line("proxyjump", <<None>>)>>} \cup
    {<<Line("host", {Alias(a)}), Line("proxyjump", jumps)>> :
        jumps \in {None} \cup {<<h>> : h \in HostId \ {a}} \cup
                  {p \in (HostId \ {a}) \X (HostId \ {a}) : p[1] # p[2]}}
TwoJumps ==
    {Account \o e[1] \o e[2] \o e[3] : e \in Entries(a1) \X Entries(a2) \X Entries(a3)}

\* Lines in any order, with sections of all kinds.
ThreeLines ==
    LET lines == {Line("host", {Alias(a1)}), Line("host", {Alias(a2), All, But(a1)}),
                  Line("match", None), Line("proxyjump", <<a2>>),
                  Line("include", "file"), Line("include", None),
                  Line("hostname", TRUE), Line("hostname", FALSE)}
    IN  {<<Line("host", {Alias(a1), Alias(a2)})>> \o Account \o f : f \in [1..3 -> lines]}

SomeFiles == TwoJumps \cup ThreeLines
=============================================================================
