------------------------------- MODULE MCDesk -------------------------------
(* Instances of Desk for TLC.                                              *)
EXTENDS Desk

CONSTANTS k1, h1, t1, v1

\* A key, a host, a tunnel and a web link; the tunnel on port p.
Link(p) == [i \in Item |->
    CASE i = k1 -> [path |-> "file"]
      [] i = h1 -> [name |-> CHOOSE n \in Name : TRUE, key |-> k1, jump |-> None]
      [] i = t1 -> [host |-> h1, port |-> p]
      [] i = v1 -> [tunnel |-> t1, port |-> p]
      [] OTHER -> None]

OneLink == Link(CHOOSE p \in Port : TRUE)

\* The master has its tunnel on any port, with or without the web link.
AnyPort == {Link(p) : p \in Port} \cup {Put(Link(p), v1, None) : p \in Port}

\* A backup from before the web link was made.
OldBackup == {Put(OneLink, v1, None)}

OldItems == {k1, h1, t1, v1}
=============================================================================
