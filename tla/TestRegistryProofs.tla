-------------------------- MODULE TestRegistryProofs --------------------------
(***************************************************************************)
(* Proofs about TestRegistry, for any requests and any number of tests:    *)
(* what each handler keeps, used where the handlers are composed with the  *)
(* sessions (ControlSessionProofs) and with the locks (RemoteLocksProofs), *)
(* and what follows for everything that implements the registry.           *)
(***************************************************************************)
EXTENDS TestRegistry, TLAPS

-----------------------------------------------------------------------------
(* The registry.                                                           *)

\* The handlers keep the registry's types (src/bin/remote.rs).
LEMMA ExecuteKeepsTypes ==
    ASSUME RegistryTypeOK, NEW r \in Requests, Execute(r)
    PROVE  RegistryTypeOK'
<1>1. CASE r.method = "test_start" /\ Start
  <2>1. NextTest \in TestId /\ NextTest \in 0..MaxTests
    BY <1>1, RegistryBounds DEF Start, NextTest, TestId, RegistryTypeOK
  <2>2. StartedTest \in Test \cup {None}
    BY DEF StartedTest, Test, TestStatus
  <2> QED
    BY <1>1, <2>1, <2>2 DEF Start, RegistryTypeOK
<1>2. CASE r.method \in {"test_abort", "test_cancel"} /\ Abort(r.test, r.reason)
  <2>1. r.test \in TestId /\ r.reason \in Reasons \cup {None}
    BY <1>2 DEF Requests
  <2>2. CASE tests[r.test] = None
    BY <1>2, <2>2 DEF Abort, RegistryTypeOK
  <2>3. CASE tests[r.test] # None
    <3>1. tests[r.test] \in Test
      BY <2>1, <2>3 DEF RegistryTypeOK
    <3>2. [tests[r.test] EXCEPT !.status = "aborted", !.ended = TRUE,
                                !.error = r.reason] \in Test
      BY <2>1, <3>1 DEF Test, TestStatus
    <3> QED
      BY <1>2, <2>1, <2>3, <3>2 DEF Abort, RegistryTypeOK
  <2> QED
    BY <2>2, <2>3
<1>3. CASE r.method = "set_role" /\ SetRole(r.role)
  <2>1. r.role \in DeviceRoles
    BY <1>3 DEF Requests
  <2> QED
    BY <1>3, <2>1 DEF SetRole, RegistryTypeOK
<1>4. CASE r.method \in Reads /\ UNCHANGED registry
  BY <1>4 DEF registry, RegistryTypeOK
<1> QED
  BY <1>1, <1>2, <1>3, <1>4 DEF Execute

\* What a handler answers is an answer.
LEMMA AnswersAreAnswers ==
    ASSUME RegistryTypeOK, NEW r \in Requests, Execute(r)
    PROVE  Answer(r) \in Answers
<1>1. CASE r.method = "ping"
  BY <1>1 DEF Answer, Answers
<1>2. CASE r.method = "get_info"
  BY <1>2 DEF Answer, Answers, RegistryTypeOK
<1>3. CASE r.method = "set_role"
  <2>1. r.role \in DeviceRoles
    BY <1>3 DEF Requests
  <2> QED
    BY <1>3, <2>1 DEF Answer, Answers
<1>4. CASE r.method = "test_start"
  <2>1. Start
    BY <1>4 DEF Execute, Reads
  <2>2. NextTest \in TestId
    BY <2>1, RegistryBounds DEF Start, NextTest, TestId, RegistryTypeOK
  <2>3. Answer(r) = [test |-> NextTest, status |-> "running"]
    BY <1>4 DEF Answer
  <2>4. [test |-> NextTest, status |-> "running"]
            \in [test : TestId, status : TestStatus]
    BY <2>2 DEF TestStatus
  <2> QED
    BY <2>3, <2>4 DEF Answers
<1>5. ASSUME r.method \in {"test_abort", "test_cancel", "test_results"}
      PROVE  Answer(r) \in Answers
  <2>1. r.test \in TestId
    BY <1>5 DEF Requests
  <2>2. \A st \in TestStatus : About(r.test, st) \in Answers
    BY <2>1 DEF About, Answers
  <2>3. CASE r.method = "test_results"
    <3>1. Answer(r) = About(r.test, tests[r.test].status)
      BY <2>3 DEF Answer
    <3>2. CASE tests[r.test] = None
      BY <2>1, <3>1, <3>2 DEF About, Answers
    <3>3. CASE tests[r.test] # None
      <4>1. tests[r.test] \in Test
        BY <2>1, <3>3 DEF RegistryTypeOK
      <4>2. tests[r.test].status \in TestStatus
        BY <4>1 DEF Test
      <4> QED
        BY <2>2, <3>1, <4>2
    <3> QED
      BY <3>2, <3>3
  <2>4. CASE r.method \in {"test_abort", "test_cancel"}
    <3>1. Answer(r) = About(r.test, "aborted")
      BY <2>4 DEF Answer
    <3> QED
      BY <2>2, <3>1 DEF TestStatus
  <2> QED
    BY <1>5, <2>3, <2>4
<1>6. r.method \in {"ping", "get_info", "set_role", "test_start",
                    "test_abort", "test_cancel", "test_results"}
  BY DEF Requests
<1> QED
  BY <1>1, <1>2, <1>3, <1>4, <1>5, <1>6

\* A restarted remote has the types again.
LEMMA RestartKeepsTypes ==
    ASSUME RegistryTypeOK, Restart
    PROVE  RegistryTypeOK'
  BY RegistryBounds DEF Restart, RegistryTypeOK

-----------------------------------------------------------------------------
(* The numbering of tests.                                                 *)

\* Only the numbers counted so far are taken.
TestsCounted == \A t \in TestId : tests[t] # None => t <= test_counter

\* What NoTestReborn says of the tests in one step.
TestsKept ==
    \A t \in TestId : tests[t] # None =>
        /\ tests'[t] # None
        /\ tests[t].ended => tests'[t].ended

\* No handler replaces the record of a test by that of a new one.
LEMMA ExecuteKeepsTests ==
    ASSUME RegistryTypeOK, TestsCounted, NEW r \in Commands, Execute(r)
    PROVE  TestsCounted' /\ TestsKept
<1>1. CASE Start
  <2>1. /\ test_counter \in Nat /\ test_counter' = test_counter + 1
        /\ tests' = [tests EXCEPT ![test_counter + 1] = StartedTest]
    BY <1>1, RegistryBounds DEF Start, NextTest, RegistryTypeOK
  <2>2. \A t \in TestId : t \in Nat /\ (t # test_counter + 1 => tests'[t] = tests[t])
    BY <2>1, RegistryBounds DEF RegistryTypeOK, TestId
  <2>3. \A t \in TestId : tests[t] # None => t <= test_counter /\ t # test_counter + 1
    BY <2>1, <2>2 DEF TestsCounted
  <2>4. TestsKept
    BY <2>2, <2>3 DEF TestsKept
  <2>5. TestsCounted'
    BY <2>1, <2>2, <2>3 DEF TestsCounted, TestId
  <2> QED
    BY <2>4, <2>5
<1>2. CASE r.method \in {"test_abort", "test_cancel"} /\ Abort(r.test, r.reason)
  <2>1. test_counter' = test_counter
    BY <1>2 DEF Abort
  <2>2. ASSUME NEW t \in TestId
        PROVE  /\ tests[t] = None => tests'[t] = None
               /\ tests[t] # None => /\ tests'[t] # None
                                     /\ tests[t].ended => tests'[t].ended
    <3>1. CASE tests' = tests
      BY <3>1
    <3>2. CASE tests[r.test] # None
      <4>1. tests' = [tests EXCEPT ![r.test] = [tests[r.test] EXCEPT
                          !.status = "aborted", !.ended = TRUE, !.error = r.reason]]
        BY <1>2, <3>2 DEF Abort
      <4>2. CASE t # r.test
        BY <4>1, <4>2 DEF RegistryTypeOK
      <4>3. CASE t = r.test
        <5>1. tests[t] \in Test
          BY <3>2, <4>3 DEF RegistryTypeOK
        <5> DEFINE rec == [tests[t] EXCEPT !.status = "aborted", !.ended = TRUE,
                                           !.error = r.reason]
        <5>2. tests'[t] = rec
          BY <4>1, <4>3 DEF RegistryTypeOK
        <5>3. rec.ended
          BY <5>1 DEF Test
        <5>4. rec # None
          <6>1. r.reason \in Reasons \cup {None}
            BY <1>2, CommandsAssumption DEF Requests
          <6>2. rec \in Test
            BY <5>1, <6>1 DEF Test, TestStatus
          <6> QED
            BY <6>2, RegistryNone
        <5> QED
          BY <3>2, <4>3, <5>2, <5>3, <5>4
      <4> QED
        BY <4>2, <4>3
    <3> QED
      BY <1>2, <3>1, <3>2 DEF Abort
  <2>3. TestsCounted'
    <3>1. \A t \in TestId : tests[t] = None => tests'[t] = None
      BY <2>2, Zenon
    <3> QED
      BY <2>1, <3>1 DEF TestsCounted
  <2>4. TestsKept
    BY <2>2 DEF TestsKept
  <2> QED
    BY <2>3, <2>4
<1>3. CASE tests' = tests /\ test_counter' = test_counter
  BY <1>3 DEF TestsCounted, TestsKept
<1> QED
  BY <1>1, <1>2, <1>3 DEF Execute, SetRole, registry

-----------------------------------------------------------------------------
(* What the registry does between two restarts.                            *)

LEMMA RegistryInitTypes == RegistryInit => RegistryTypeOK /\ TestsCounted
  BY RegistryBounds DEF RegistryInit, RegistryTypeOK, TestsCounted

LEMMA RegistryStep ==
    ASSUME RegistryTypeOK, TestsCounted, [HandleRequest]_registry
    PROVE  RegistryTypeOK' /\ TestsCounted' /\ TestsKept
<1>1. CASE UNCHANGED registry
  BY <1>1 DEF registry, RegistryTypeOK, TestsCounted, TestsKept
<1>2. ASSUME NEW r \in Commands, Execute(r)
      PROVE  RegistryTypeOK' /\ TestsCounted' /\ TestsKept
  <2>1. r \in Requests
    BY CommandsAssumption
  <2> QED
    BY <1>2, <2>1, ExecuteKeepsTypes, ExecuteKeepsTests
<1> QED
  BY <1>1, <1>2 DEF HandleRequest

\* Whatever handles its requests as the registry does gives no test a number
\* that is taken, and undoes no abort (handle_test_start, handle_test_abort).
THEOREM RegistryKeepsTests == RegistrySpec => []RegistryTypeOK /\ NoTestReborn
<1>1. RegistryTypeOK /\ TestsCounted /\ [HandleRequest]_registry =>
          [restarts' = restarts =>
              \A t \in TestId : tests[t] # None =>
                  /\ tests'[t] # None
                  /\ tests[t].ended => tests'[t].ended]_registry
  BY RegistryStep DEF TestsKept
<1> QED
  BY <1>1, RegistryInitTypes, RegistryStep, PTL DEF RegistrySpec, NoTestReborn
===============================================================================
