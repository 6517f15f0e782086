--------------------------- MODULE MCControlSession ---------------------------
(***************************************************************************)
(* ControlSession on small instances.  The length prefix has two bytes     *)
(* rather than four: enough for a read to be dropped inside it, between    *)
(* it and the payload, and inside the payload.                             *)
(***************************************************************************)
EXTENDS ControlSession, TLC

\* The kinds of command the runs combine.
StartTest == [method |-> "test_start"]
Results(t) == [method |-> "test_results", test |-> t]
AbortTest(t) == [method |-> "test_abort", test |-> t, reason |-> None]

TestCommands == {StartTest, Results(1), AbortTest(1)}
StartOrAsk == {StartTest, Results(1)}    \* the least that desyncs
MixedCommands == {StartTest, [method |-> "get_info"],
                  [method |-> "set_role", role |-> CHOOSE r \in DeviceRoles : TRUE]}

SessionSymmetry == Permutations(Sessions)
===============================================================================
