------------------------------ MODULE MCFiles ------------------------------
(***************************************************************************)
(* An instance of KeyFiles and SettingsFiles for TLC.  The two share the   *)
(* lock ops and no file, so a behaviour of one is checked while the other  *)
(* rests: scene says which.                                                *)
(***************************************************************************)
EXTENDS KeyFiles, SettingsFiles

CONSTANTS k1, k2, r1, r2, plain, own

VARIABLE scene

\* A plain package with two keys, one of a master with the first of them, and
\* one that this desk has made.
Carried == [p \in Package |->
    IF p = plain THEN <<[slot |-> k1, raw |-> r1], [slot |-> k2, raw |-> r2]>>
    ELSE <<[slot |-> k1, raw |-> r1]>>]

Source == [p \in Package |-> IF p = plain THEN "none" ELSE IF p = own THEN "self" ELSE "team"]

FilesInit ==
    /\ Init /\ SettingsInit
    /\ \/ scene = "keys" /\ \A q \in Place : disk[q] = Missing
       \/ scene = "settings" /\ files[OwnPath] = r1

\* A crash or files that stay, but not both in one behaviour.
OneFault == crashes' = 0 \/ ~unremoved'

FilesNext ==
    \/ scene = "keys" /\ Next /\ OneFault /\ UNCHANGED <<settingsVars, scene>>
    \/ scene = "settings" /\ SettingsNext /\ UNCHANGED <<vars, scene>>

FilesSpec == FilesInit /\ [][FilesNext]_<<vars, settingsVars, scene>>
=============================================================================
