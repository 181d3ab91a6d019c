------------------------------ MODULE HeldKeys ------------------------------
(***************************************************************************)
(* What a user relies on of the key files: for each SSH key, the content   *)
(* that its path leads to.  Whatever the program does with files on the    *)
(* way, that changes in whole steps only, a package or a key at a time.    *)
(***************************************************************************)
EXTENDS Naturals, Sequences

CONSTANTS KeyId, Raw, Package, PackageKeys, None, Torn

VARIABLES
    held,      \* the content of each key, as its path leads to it
    installed  \* packages that were installed

\* Only the given keys change.
Only(S) == \A k \in KeyId \ S : held'[k] = held[k]

\* All keys of a package at once, with the contents it carries.
Installs(p) ==
    LET keys == PackageKeys[p] IN
    /\ \A i \in DOMAIN keys : held'[keys[i].slot] = keys[i].raw
    /\ Only({keys[i].slot : i \in DOMAIN keys})
    /\ installed' = installed \cup {p}

\* A key is uploaded, saved by its path, or deleted.
Saves(k) ==
    /\ held'[k] \in Raw \cup {None}
    /\ Only({k})
    /\ UNCHANGED installed

\* A power failure spoils files.
Spoils ==
    /\ \A k \in KeyId : held'[k] \in {held[k], None, Torn}
    /\ UNCHANGED installed

Init == held = [k \in KeyId |-> None] /\ installed = {}

Next ==
    \/ \E p \in Package : Installs(p)
    \/ \E k \in KeyId : Saves(k)
    \/ Spoils

Spec == Init /\ [][Next]_<<held, installed>>
=============================================================================
