----------------------------- MODULE MCHubManager -----------------------------
(***************************************************************************)
(* HubManager on small instances.  Hub h1 has port 1; h2 has ports 1 and   *)
(* 2; port 2 of h1 is the port number a request may name and the hub not   *)
(* have.                                                                   *)
(***************************************************************************)
EXTENDS HubManager, TLC

CONSTANTS h1, h2, l1, l2

MCPortsOf == [h \in Hubs |-> IF h = h1 THEN {1} ELSE Ports]

\* With port 1 only, h2 is a hub without it: what a refresh finds at a
\* location may have other ports than what it replaces.
DisjointPorts == [h \in Hubs |-> IF h = h1 THEN {1} ELSE Ports \ {1}]

\* One hub; one hub of each id.
OneHub == [l \in Locations |-> IF l = l1 THEN h1 ELSE None]
TwoHubs == [l \in Locations |-> IF l = l1 THEN h1 ELSE h2]

\* Two hubs of one model, and so with one id, and another hub.
Twins == [l \in Locations |-> IF l = l2 THEN h2 ELSE h1]

\* A lease that lasts a tick, and one without a deadline.
MCDurations == {1, None}
ShortOnly == {0}
NoDeadline == {None}

\* What the runs issue.
LeaseOps == {"hub_discover", "hub_status", "hub_port_reserve", "hub_port_release"}
EveryOp == AllOps

TaskSymmetry == Permutations(Tasks)
===============================================================================
