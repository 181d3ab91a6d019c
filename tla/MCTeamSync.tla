----------------------------- MODULE MCTeamSync -----------------------------
(* Instances of TeamSync for TLC.                                          *)
EXTENDS TeamSync

CONSTANTS k1, h1, t1, v1

\* The master's first key and host.
OneHost == [i \in Item |->
    CASE i = k1 -> [path |-> "file"]
      [] i = h1 -> [name |-> CHOOSE n \in Name : TRUE, key |-> k1, jump |-> None]
      [] OTHER -> None]

\* The same with a tunnel and a web link.
OneLink == [i \in Item |->
    CASE i = t1 -> [host |-> h1, port |-> CHOOSE p \in Port : TRUE]
      [] i = v1 -> [tunnel |-> t1, port |-> CHOOSE p \in Port : TRUE]
      [] OTHER -> OneHost[i]]

NoSettings == Empty

(***************************************************************************)
(* The bound of the run team_links: bodies that stall and other addresses, *)
(* or further links, which no answer on its way mentions in the first      *)
(* case.  It is on what users do and holds up no poll.                     *)
(***************************************************************************)
Calm == ~stalled /\ url \in {None, Home}
FewLinks ==
    \A i \in ServiceId \ {v1} :
        /\ \A d \in Desk : saved[d][i] = None
        /\ \A p \in Poller : feed[p][i] = None

Bounded == Calm \/ FewLinks
=============================================================================
