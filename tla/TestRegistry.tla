----------------------------- MODULE TestRegistry -----------------------------
(***************************************************************************)
(* The state a remote shares between its connections, apart from the USB   *)
(* hubs: its role and the tests it was told to run (RemoteState and the    *)
(* test handlers of src/bin/remote.rs).  A handler takes the state's lock  *)
(* once, so each is one atomic step.  Starting a test only records it: no  *)
(* code runs a test, and none ever leaves "running" but by an abort.       *)
(*                                                                         *)
(* Execute(r) is the step that handles request r, Answer(r) what it sends  *)
(* back; ControlSession says which requests come, and when.                *)
(***************************************************************************)
EXTENDS Naturals

CONSTANTS
    DeviceRoles,   \* uut, slave
    Reasons,       \* what an abort may give as its reason
    Commands,      \* the requests that are issued
    MaxTests,      \* bound on the tests started between two restarts
    MaxRestarts,   \* bound on the restarts of the remote
    None           \* the absent value (Rust's Option::None)

VARIABLES
    role,          \* RemoteState.role
    test_counter,  \* RemoteState.test_counter
    tests,         \* RemoteState.tests: id "test-<n>" is n
    restarts       \* the restarts of the remote so far

registry == <<role, test_counter, tests, restarts>>

TestId == 1..MaxTests

\* TestStatus; the handlers use only two of them.
TestStatus == {"queued", "running", "passed", "failed", "aborted", "cancelled"}

\* TestResultsData: `ended` is whether end_time is set.
Test == [status : TestStatus, ended : BOOLEAN, error : Reasons \cup {None}]

Requests ==
    [method : {"ping", "get_info", "test_start"}]
        \cup [method : {"set_role"}, role : DeviceRoles]
        \cup [method : {"test_results"}, test : TestId]
        \cup [method : {"test_abort", "test_cancel"}, test : TestId,
              reason : Reasons \cup {None}]

Answers == [pong : {TRUE}] \cup [role : DeviceRoles]
               \cup [test : TestId, status : TestStatus]
               \cup [missing : TestId]

ASSUME CommandsAssumption == Commands \subseteq Requests
ASSUME RegistryBounds == MaxTests \in Nat /\ MaxRestarts \in Nat
ASSUME RegistryNone == None \notin Test

-----------------------------------------------------------------------------
RegistryInit ==
    /\ role \in DeviceRoles
    /\ test_counter = 0
    /\ tests = [t \in TestId |-> None]
    /\ restarts = 0

StartedTest == [status |-> "running", ended |-> FALSE, error |-> None]

\* handle_test_start numbers the test with the incremented counter.
NextTestUncounted == IF test_counter = 0 THEN 1 ELSE test_counter   \* a mutant
NextTest == test_counter + 1

Start ==
    /\ test_counter < MaxTests
    /\ test_counter' = NextTest
    /\ tests' = [tests EXCEPT ![NextTest] = StartedTest]
    /\ UNCHANGED <<role, restarts>>

AbortRecordOnly(t, reason) ==                                    \* a mutant
    /\ tests' = IF tests[t] = None THEN tests
                ELSE [tests EXCEPT ![t] = [@ EXCEPT !.ended = TRUE,
                                                    !.error = reason]]
    /\ UNCHANGED <<role, test_counter, restarts>>

\* handle_test_abort, whatever the test's status; handle_test_cancel calls it.
Abort(t, reason) ==
    /\ tests' = IF tests[t] = None THEN tests
                ELSE [tests EXCEPT ![t] = [@ EXCEPT !.status = "aborted",
                                                    !.ended = TRUE,
                                                    !.error = reason]]
    /\ UNCHANGED <<role, test_counter, restarts>>

SetRole(r) ==
    /\ role' = r
    /\ UNCHANGED <<test_counter, tests, restarts>>

\* The methods that only read: ping, get_info, test_results.
Reads == {"ping", "get_info", "test_results"}

Execute(r) ==
    \/ r.method = "test_start" /\ Start
    \/ r.method \in {"test_abort", "test_cancel"} /\ Abort(r.test, r.reason)
    \/ r.method = "set_role" /\ SetRole(r.role)
    \/ r.method \in Reads /\ UNCHANGED registry

\* The answer about test t, whose status is s if the remote knows it.
About(t, s) ==
    IF tests[t] = None THEN [missing |-> t] ELSE [test |-> t, status |-> s]

\* What the handler of r, run in this state, sends back.
Answer(r) ==
    CASE r.method = "ping" -> [pong |-> TRUE]
      [] r.method = "get_info" -> [role |-> role]
      [] r.method = "set_role" -> [role |-> r.role]
      [] r.method = "test_start" -> [test |-> NextTest, status |-> "running"]
      [] r.method \in {"test_abort", "test_cancel"} -> About(r.test, "aborted")
      [] r.method = "test_results" -> About(r.test, tests[r.test].status)

\* The remote process ends and is started again, with the role it is given.
Restart ==
    /\ restarts < MaxRestarts
    /\ restarts' = restarts + 1
    /\ role' \in DeviceRoles
    /\ test_counter' = 0
    /\ tests' = [t \in TestId |-> None]

\* What the registry does between two restarts: one request after another,
\* each in one step.
HandleRequest == \E r \in Commands : Execute(r)
RegistrySpec == RegistryInit /\ [][HandleRequest]_registry

-----------------------------------------------------------------------------
(* Properties.                                                             *)

RegistryTypeOK ==
    /\ role \in DeviceRoles
    /\ test_counter \in 0..MaxTests
    /\ tests \in [TestId -> Test \cup {None}]
    /\ restarts \in 0..MaxRestarts

\* As long as the remote is not restarted, a test that was started stays
\* registered, and one that was ended by an abort is never running again:
\* no later start is given its number (handle_test_start).
NoTestReborn ==
    [][restarts' = restarts =>
           \A t \in TestId : tests[t] # None =>
               /\ tests'[t] # None
               /\ tests[t].ended => tests'[t].ended]_registry
===============================================================================
