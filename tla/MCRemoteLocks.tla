---------------------------- MODULE MCRemoteLocks ----------------------------
(***************************************************************************)
(* RemoteLocks with three connections on two workers.                      *)
(***************************************************************************)
EXTENDS RemoteLocks

\* One request that writes the state, one that is handled by another's handler
\* and reads it, one that runs a command under no lock, and two that take the
\* lock of the hubs under that of the state, around a command.
RegistryRequests == {[method |-> "test_start"]}
LockingRequests ==
    {[method |-> "test_status", test |-> 1], [method |-> "network_status"],
     [method |-> "hub_status"], [method |-> "hub_port_reserve", power |-> TRUE]}
===============================================================================
