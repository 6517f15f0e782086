---------------------------- MODULE FreshnessProofs ----------------------------
(***************************************************************************)
(* What operators are told of the tests of a remote, by sessions of any    *)
(* number that time out and read the answers of earlier commands: an       *)
(* answer is no older than what had been told when its command was given.  *)
(***************************************************************************)
EXTENDS ControlSessionProofs

-----------------------------------------------------------------------------
(* Facts about tests.                                                      *)

\* What an answer about a test says.
Fact == [test : TestId, status : TestStatus]

\* The registry bears f out: the test is there, and ended if f says so.
Borne(f) ==
    /\ tests[f.test] # None
    /\ f.status = "aborted" => tests[f.test].status = "aborted"

\* The answer a is no older than f.
Respects(a, f) ==
    /\ a # [missing |-> f.test]
    /\ f.status = "aborted" => a # [test |-> f.test, status |-> "running"]

\* What an answer tells is the answer itself, if it is about a test.
LEMMA TellingIsFact ==
    ASSUME NEW a \in Answers, NEW f \in Telling(a)
    PROVE  f = a /\ f \in Fact
<1>1. f = a /\ "test" \in DOMAIN a
  BY DEF Telling
<1>2. CASE a \in [pong : {TRUE}]
  BY <1>1, <1>2
<1>3. CASE a \in [role : DeviceRoles]
  BY <1>1, <1>3
<1>4. CASE a \in [missing : TestId]
  BY <1>1, <1>4
<1>5. CASE a \in [test : TestId, status : TestStatus]
  BY <1>1, <1>5 DEF Fact
<1> QED
  BY <1>2, <1>3, <1>4, <1>5 DEF Answers

\* The record of a test that an abort writes.
LEMMA AbortedRecord ==
    ASSUME NEW rec \in Test, NEW reason \in Reasons \cup {None}, NEW new,
           new = [rec EXCEPT !.status = "aborted", !.ended = TRUE, !.error = reason]
    PROVE  new # None /\ new.status = "aborted"
<1>1. new \in Test /\ new.status = "aborted"
  BY DEF Test, TestStatus
<1> QED
  BY <1>1, RegistryNone

\* A handler leaves what was borne out borne out: no record is replaced, and
\* no aborted test gets another status (handle_test_start, handle_test_abort).
LEMMA ExecuteKeepsFacts ==
    ASSUME RegistryTypeOK, TestsCounted, NEW r \in Commands, Execute(r),
           NEW f \in Fact, Borne(f)
    PROVE  Borne(f)'
<1> DEFINE t == f.test
<1>1. /\ t \in TestId /\ t \in Nat /\ tests[t] \in Test
      /\ tests \in [TestId -> Test \cup {None}]
  BY DEF Fact, TestId, Borne, RegistryTypeOK
<1>2. CASE Start
  <2>1. tests' = [tests EXCEPT ![test_counter + 1] = StartedTest] /\ test_counter \in Nat
    BY <1>2 DEF Start, NextTest, RegistryTypeOK
  <2>2. t <= test_counter
    BY <1>1 DEF TestsCounted, Borne
  <2>3. t # test_counter + 1
    BY <1>1, <2>1, <2>2
  <2>4. tests'[t] = tests[t]
    BY <1>1, <2>1, <2>3
  <2> QED
    BY <2>4 DEF Borne
<1>3. CASE r.method \in {"test_abort", "test_cancel"} /\ Abort(r.test, r.reason)
  <2>1. r.test \in TestId /\ r.reason \in Reasons \cup {None}
    BY <1>3, CommandsAssumption DEF Requests
  <2> DEFINE Aborted(x) == [x EXCEPT !.status = "aborted", !.ended = TRUE,
                                     !.error = r.reason]
  <2>2. CASE r.test = t
    <3>1. tests'[t] = Aborted(tests[t])
      BY <1>1, <1>3, <2>2 DEF Abort, Borne
    <3>2. PICK new : new = tests'[t]
      OBVIOUS
    <3>3. new = [tests[t] EXCEPT !.status = "aborted", !.ended = TRUE, !.error = r.reason]
      BY <3>1, <3>2
    <3>4. new # None /\ new.status = "aborted"
      BY <1>1, <2>1, <3>3, AbortedRecord
    <3> QED
      BY <3>2, <3>4 DEF Borne
  <2>3. CASE r.test # t
    <3>1. tests'[t] = tests[t]
      BY <1>1, <1>3, <2>3 DEF Abort
    <3> QED
      BY <3>1 DEF Borne
  <2> QED
    BY <2>2, <2>3
<1>4. CASE tests' = tests
  BY <1>4 DEF Borne
<1> QED
  BY <1>2, <1>3, <1>4 DEF Execute, SetRole, registry

\* What a handler answers is borne out when it has run.
LEMMA AnswersAreBorne ==
    ASSUME RegistryTypeOK, NEW r \in Commands, Execute(r),
           NEW f \in Telling(Answer(r))
    PROVE  Borne(f)'
<1>1. r \in Requests /\ Answer(r) \in Answers
  BY CommandsAssumption, AnswersAreAnswers
<1>2. f = Answer(r) /\ f \in Fact
  BY <1>1, TellingIsFact
<1>3. f.test \in TestId /\ tests \in [TestId -> Test \cup {None}]
  BY <1>2 DEF Fact, RegistryTypeOK
<1>4. \A x \in TestId : f # [missing |-> x]
  <2>1. DOMAIN f = {"test", "status"}
    BY <1>2 DEF Fact
  <2>2. \A x : DOMAIN [missing |-> x] = {"missing"}
    OBVIOUS
  <2>3. {"test", "status"} # {"missing"}
    <3>1. "test" \in {"test", "status"} /\ "test" \notin {"missing"}
      OBVIOUS
    <3> QED
      BY <3>1
  <2> QED
    BY <2>1, <2>2, <2>3
<1>5. CASE r.method = "test_start"
  <2>1. f = [test |-> NextTest, status |-> "running"] /\ Start
    BY <1>2, <1>5 DEF Answer, Execute, Reads
  <2>2. f.test = NextTest /\ f.status # "aborted"
    BY <2>1
  <2>3. tests'[f.test] = StartedTest
    BY <1>3, <2>1, <2>2 DEF Start
  <2>4. StartedTest # None
    <3>1. StartedTest \in Test
      BY DEF StartedTest, Test, TestStatus
    <3> QED
      BY <3>1, RegistryNone
  <2> QED
    BY <2>2, <2>3, <2>4 DEF Borne
<1>6. CASE r.method \in {"test_abort", "test_cancel"}
  <2>1. f = About(r.test, "aborted") /\ Abort(r.test, r.reason) /\ r.test \in TestId
        /\ r.reason \in Reasons \cup {None}
    BY <1>1, <1>2, <1>6 DEF Answer, Execute, Reads, Requests
  <2>2. tests[r.test] # None /\ f = [test |-> r.test, status |-> "aborted"]
    BY <1>4, <2>1 DEF About
  <2>3. f.test = r.test
    BY <2>2
  <2>4. tests'[r.test] = [tests[r.test] EXCEPT !.status = "aborted", !.ended = TRUE,
                                               !.error = r.reason]
    BY <1>3, <2>1, <2>2 DEF Abort
  <2>5. tests[r.test] \in Test
    BY <1>3, <2>1, <2>2
  <2>6. PICK new : new = tests'[r.test]
    OBVIOUS
  <2>7. new = [tests[r.test] EXCEPT !.status = "aborted", !.ended = TRUE,
                                    !.error = r.reason]
    BY <2>4, <2>6
  <2>8. r.reason \in Reasons \cup {None}
    BY <2>1
  <2>9. new # None /\ new.status = "aborted"
    BY <2>5, <2>7, <2>8, AbortedRecord
  <2> QED
    BY <2>3, <2>6, <2>9 DEF Borne
<1>7. CASE r.method = "test_results"
  <2>1. f = About(r.test, tests[r.test].status) /\ tests' = tests /\ r.test \in TestId
    BY <1>1, <1>2, <1>7 DEF Answer, Execute, Reads, Requests, registry
  <2>2. tests[r.test] # None /\ f = [test |-> r.test, status |-> tests[r.test].status]
    BY <1>4, <2>1 DEF About
  <2>3. f.test = r.test /\ f.status = tests[r.test].status
    BY <2>2
  <2> QED
    BY <2>1, <2>2, <2>3 DEF Borne
<1>8. CASE r.method \in {"ping", "get_info", "set_role"}
  <2>1. \/ Answer(r) = [pong |-> TRUE]
        \/ \E x : Answer(r) = [role |-> x]
    BY <1>8 DEF Answer
  <2>2. "test" \notin DOMAIN Answer(r)
    BY <2>1
  <2> QED
    BY <2>2 DEF Telling
<1> QED
  BY <1>1, <1>5, <1>6, <1>7, <1>8 DEF Requests

\* What a handler answers is no older than a fact that is borne out when it
\* runs.
LEMMA AnswersRespect ==
    ASSUME RegistryTypeOK, TestsCounted, NEW r \in Commands, Execute(r),
           NEW f \in Fact, Borne(f)
    PROVE  Respects(Answer(r), f)
<1>1. /\ r \in Requests /\ f.test \in TestId /\ f.test \in Nat
      /\ tests \in [TestId -> Test \cup {None}]
  BY CommandsAssumption DEF Fact, TestId, RegistryTypeOK
<1>2. /\ \A x, y, z : [test |-> x, status |-> y] # [missing |-> z]
      /\ \A x, z : [role |-> x] # [missing |-> z]
      /\ \A z : [pong |-> TRUE] # [missing |-> z]
      /\ \A x, y, z : [role |-> x] # [test |-> y, status |-> z]
      /\ \A y, z : [pong |-> TRUE] # [test |-> y, status |-> z]
      /\ \A x, y : [missing |-> x].missing = x
  <2>1. /\ \A x, y : DOMAIN [test |-> x, status |-> y] = {"test", "status"}
        /\ \A x : DOMAIN [missing |-> x] = {"missing"}
        /\ \A x : DOMAIN [role |-> x] = {"role"}
        /\ DOMAIN [pong |-> TRUE] = {"pong"}
    OBVIOUS
  <2>2. /\ "missing" \notin {"test", "status"} /\ "missing" \notin {"role"}
        /\ "missing" \notin {"pong"} /\ "missing" \in {"missing"}
        /\ "test" \notin {"role"} /\ "test" \notin {"pong"} /\ "test" \in {"test", "status"}
    OBVIOUS
  <2>3. \A x : [missing |-> x].missing = x
    OBVIOUS
  <2> QED
    BY <2>1, <2>2, <2>3, Zenon
<1>3. CASE r.method = "test_start"
  <2>1. Answer(r) = [test |-> NextTest, status |-> "running"] /\ NextTest = test_counter + 1
    BY <1>3 DEF Answer, NextTest
  <2>2. f.test <= test_counter /\ test_counter \in Nat
    BY <1>1 DEF TestsCounted, Borne, RegistryTypeOK
  <2>3. f.test # NextTest
    BY <1>1, <2>1, <2>2
  <2>4. [test |-> NextTest, status |-> "running"] # [test |-> f.test, status |-> "running"]
    <3>1. \A x : [test |-> x, status |-> "running"].test = x
      OBVIOUS
    <3> QED
      BY <2>3, <3>1
  <2> QED
    BY <1>2, <2>1, <2>4 DEF Respects
<1>4. ASSUME r.method \in {"test_abort", "test_cancel", "test_results"}
      PROVE  Respects(Answer(r), f)
  <2> DEFINE st == IF r.method = "test_results" THEN tests[r.test].status ELSE "aborted"
  <2>1. Answer(r) = About(r.test, st)
    BY <1>4 DEF Answer
  <2>2. CASE r.test = f.test
    <3>1. Answer(r) = [test |-> f.test, status |-> st]
      BY <2>1, <2>2 DEF About, Borne
    <3>2. f.status = "aborted" => st = "aborted"
      BY <2>2 DEF Borne
    <3>3. f.status = "aborted" => Answer(r) # [test |-> f.test, status |-> "running"]
      <4>1. \A x, y : [test |-> x, status |-> y].status = y
        OBVIOUS
      <4> QED
        BY <3>1, <3>2, <4>1
    <3> QED
      BY <1>2, <3>1, <3>3 DEF Respects
  <2>3. CASE r.test # f.test
    <3>1. \/ Answer(r) = [missing |-> r.test]
          \/ Answer(r) = [test |-> r.test, status |-> st]
      BY <2>1 DEF About
    <3>2. /\ \A x, y : [test |-> x, status |-> y].test = x
          /\ \A x : [missing |-> x].missing = x
      OBVIOUS
    <3>3. Answer(r) # [missing |-> f.test]
      BY <1>2, <2>3, <3>1, <3>2
    <3>4. Answer(r) # [test |-> f.test, status |-> "running"]
      BY <1>2, <2>3, <3>1, <3>2
    <3> QED
      BY <3>3, <3>4 DEF Respects
  <2> QED
    BY <2>2, <2>3
<1>5. CASE r.method \in {"ping", "get_info", "set_role"}
  <2>1. \/ Answer(r) = [pong |-> TRUE]
        \/ \E x : Answer(r) = [role |-> x]
    BY <1>5 DEF Answer
  <2> QED
    BY <1>2, <2>1 DEF Respects
<1> QED
  BY <1>1, <1>3, <1>4, <1>5 DEF Requests

-----------------------------------------------------------------------------
(* The sessions.                                                           *)

\* Nothing has been told to a session, nor done for it, before it begins.
Untold ==
    \A s \in Sessions :
        /\ session[s] = "new" <=> handler[s] = "none"
        /\ session[s] = "new" => asOf[s] = {} /\ done[s] = <<>>

\* What operators were told since the remote started is borne out.
ToldBorne == told \subseteq Fact /\ \A f \in told : Borne(f)

\* So is every answer given on a connection the remote still has.
GivenBorne ==
    \A s \in Sessions : handler[s] # "closed" =>
        \A i \in 1..Len(done[s]) : \A f \in Telling(done[s][i]) : Borne(f)

\* What had been told when the last command was given has been told.
AsOfTold ==
    /\ asOf \in [Sessions -> SUBSET Fact]
    /\ \A s \in Sessions : handler[s] # "closed" => asOf[s] \subseteq told

\* The answer to the last command is no older than that.
LastRespects ==
    \A s \in Sessions :
        (handler[s] # "closed" /\ calls[s] # <<>> /\ Len(done[s]) = Len(calls[s])) =>
            \A f \in asOf[s] : Respects(done[s][Len(done[s])], f)

\* The last command, once over, failed or has that answer.
Returned ==
    \A s \in Sessions : (calls[s] # <<>> /\ ~Waiting(s)) =>
        \/ outcome[s][Len(calls[s])] \in Failures
        \/ /\ Len(done[s]) = Len(calls[s])
           /\ outcome[s][Len(calls[s])] = done[s][Len(calls[s])]

Fresh == Untold /\ ToldBorne /\ GivenBorne /\ AsOfTold /\ LastRespects

SInv == IInv /\ TestsCounted /\ Fresh /\ Returned

\* The invariant gives the property: a failure is no answer about a test.
LEMMA FreshEnough == SInv => FreshAnswers
<1> SUFFICES ASSUME SInv, NEW s \in Sessions,
                    session[s] = "open", handler[s] # "closed",
                    ~Waiting(s), calls[s] # <<>>,
                    NEW f \in asOf[s]
             PROVE  Respects(outcome[s][Len(calls[s])], f)
  BY DEF FreshAnswers, Respects
<1> DEFINE o == outcome[s][Len(calls[s])]
<1>1. CASE o \in Failures
  <2>1. DOMAIN o = {"failed"}
    BY <1>1 DEF Failures
  <2>2. /\ DOMAIN [missing |-> f.test] = {"missing"}
        /\ DOMAIN [test |-> f.test, status |-> "running"] = {"test", "status"}
    OBVIOUS
  <2>3. "failed" \in {"failed"} /\ "failed" \notin {"missing"} /\ "failed" \notin {"test", "status"}
    OBVIOUS
  <2> QED
    BY <2>1, <2>2, <2>3, Zenon DEF Respects
<1>2. CASE Len(done[s]) = Len(calls[s]) /\ o = done[s][Len(calls[s])]
  BY <1>2 DEF SInv, Fresh, LastRespects
<1> QED
  BY <1>1, <1>2 DEF SInv, Returned

\* A step that runs no request and gives no command; what it tells is borne
\* out, and it reopens no connection.
LEMMA StillFresh ==
    ASSUME Fresh, registry' = registry, done' = done, calls' = calls, asOf' = asOf,
           told \subseteq told', told' \subseteq Fact, \A f \in told' : Borne(f),
           \A z \in Sessions : /\ handler[z] = "closed" => handler'[z] = "closed"
                               /\ session'[z] = "new" <=> handler'[z] = "none"
                               /\ session'[z] = "new" => session[z] = "new"
    PROVE  Fresh'
<1>1. \A f : Borne(f)' <=> Borne(f)
  BY DEF registry, Borne
<1>2. Untold'
  BY DEF Fresh, Untold
<1>3. ToldBorne'
  BY <1>1 DEF ToldBorne
<1>4. GivenBorne'
  BY <1>1 DEF Fresh, GivenBorne
<1>5. AsOfTold'
  BY DEF Fresh, AsOfTold
<1>6. LastRespects'
  BY DEF Fresh, LastRespects, Respects
<1> QED
  BY <1>2, <1>3, <1>4, <1>5, <1>6 DEF Fresh

\* A step that ends no command and gives none.
LEMMA StillReturned ==
    ASSUME Returned, outcome' = outcome, calls' = calls, done' = done
    PROVE  Returned'
BY DEF Returned, Waiting

\* A command ends with a failure, or with the answer to the last command.
LEMMA EndReturned ==
    ASSUME IInv, Returned, NEW s \in Sessions, NEW o, Waiting(s), End(s, o),
           \/ o \in Failures
           \/ Len(done[s]) = Len(calls[s]) /\ o = done[s][Len(calls[s])]
    PROVE  Returned'
<1>1. calls' = calls /\ done' = done
  BY DEF End, remote
<1>2. ASSUME NEW z \in Sessions \ {s}
      PROVE  outcome'[z] = outcome[z]
  BY Ended
<1>3. Len(calls[s]) = Len(outcome[s]) + 1 /\ outcome'[s][Len(outcome[s]) + 1] = o
  <2>1. Len(outcome[s]) \in {Len(calls[s]), Len(calls[s]) - 1} /\ Len(calls[s]) \in Nat
    BY DEF IInv, TypeOK
  <2>2. Len(outcome[s]) < Len(calls[s])
    BY DEF Waiting
  <2> QED
    BY <2>1, <2>2, Ended
<1>4. outcome'[s][Len(calls[s])] = o
  BY <1>3
<1> SUFFICES ASSUME NEW z \in Sessions, calls[z] # <<>>, ~Waiting(z)'
             PROVE  \/ outcome'[z][Len(calls[z])] \in Failures
                    \/ /\ Len(done[z]) = Len(calls[z])
                       /\ outcome'[z][Len(calls[z])] = done[z][Len(calls[z])]
  BY <1>1 DEF Returned
<1>5. CASE z = s
  BY <1>4, <1>5
<1>6. CASE z # s
  BY <1>1, <1>2, <1>6 DEF Returned, Waiting
<1> QED
  BY <1>5, <1>6

\* No session, no test.
LEMMA InitFresh == Init => SInv
<1> SUFFICES ASSUME Init PROVE TestsCounted /\ Fresh /\ Returned
  BY InitInv DEF SInv
<1>1. TestsCounted
  BY DEF Init, RegistryInit, TestsCounted
<1>2. Fresh
  BY DEF Init, Fresh, Untold, ToldBorne, GivenBorne, AsOfTold, LastRespects
<1>3. Returned
  BY DEF Init, Returned
<1> QED
  BY <1>1, <1>2, <1>3

\* Connections come and go, bytes move, nothing is told.
LEMMA QuietFresh ==
    ASSUME SInv, NEW s \in Sessions,
           Connect(s) \/ Quit(s) \/ Respond(s) \/ Close(s) \/ ReadByte(s)
    PROVE  Fresh' /\ Returned'
<1>1. /\ registry' = registry /\ done' = done /\ calls' = calls
      /\ outcome' = outcome /\ told' = told /\ asOf' = asOf
  BY DEF Connect, Quit, Respond, Close, ReadByte, Keep, remote, history
<1>2. /\ session \in [Sessions -> {"new", "open", "gone"}]
      /\ handler \in [Sessions -> {"none", "reading", "replying", "closed"}]
      /\ \A z \in Sessions : session[z] = "new" <=> handler[z] = "none"
      /\ told \subseteq Fact /\ \A f \in told : Borne(f)
  BY DEF SInv, IInv, TypeOK, Fresh, Untold, ToldBorne
<1>3. \A z \in Sessions : /\ handler[z] = "closed" => handler'[z] = "closed"
                          /\ session'[z] = "new" <=> handler'[z] = "none"
                          /\ session'[z] = "new" => session[z] = "new"
  <2>1. CASE Connect(s)
    BY <1>2, <2>1 DEF Connect
  <2>2. CASE Quit(s)
    BY <1>2, <2>2 DEF Quit, remote
  <2>3. CASE Respond(s)
    BY <1>2, <2>3 DEF Respond
  <2>4. CASE Close(s)
    BY <1>2, <2>4 DEF Close
  <2>5. CASE ReadByte(s)
    BY <1>2, <2>5 DEF ReadByte, Keep, remote
  <2> QED
    BY <2>1, <2>2, <2>3, <2>4, <2>5
<1> QED
  BY <1>1, <1>2, <1>3, StillFresh, StillReturned DEF SInv

\* A command fails.
LEMMA FailedFresh ==
    ASSUME SInv, NEW s \in Sessions, Waiting(s),
           NEW why \in {"timeout", "broken", "lost"}, Failed(s, why)
    PROVE  Fresh' /\ Returned'
<1>1. End(s, [failed |-> why]) /\ told' = told /\ [failed |-> why] \in Failures
  BY DEF Failed, Failures
<1>2. /\ registry' = registry /\ done' = done /\ calls' = calls /\ asOf' = asOf
      /\ handler' = handler /\ session' = session
  BY <1>1 DEF End, remote
<1>3. /\ told \subseteq Fact /\ \A f \in told : Borne(f)
      /\ \A z \in Sessions : session[z] = "new" <=> handler[z] = "none"
  BY DEF SInv, Fresh, ToldBorne, Untold
<1>4. Fresh'
  BY <1>1, <1>2, <1>3, StillFresh DEF SInv
<1>5. Returned'
  BY <1>1, EndReturned DEF SInv
<1> QED
  BY <1>4, <1>5

\* read_message keeps a byte, or skips the answer of an earlier command.
LEMMA UnendedFresh ==
    ASSUME SInv, UNCHANGED <<remote, session, calls, outcome, history>>
    PROVE  Fresh' /\ Returned'
<1>1. /\ registry' = registry /\ done' = done /\ calls' = calls
      /\ outcome' = outcome /\ told' = told /\ asOf' = asOf
      /\ handler' = handler /\ session' = session
  BY DEF remote, history
<1>2. /\ told \subseteq Fact /\ \A f \in told : Borne(f)
      /\ \A z \in Sessions : session[z] = "new" <=> handler[z] = "none"
  BY DEF SInv, Fresh, ToldBorne, Untold
<1> QED
  BY <1>1, <1>2, StillFresh, StillReturned DEF SInv

\* An answer is told: it was given on a connection the remote still has, so
\* the registry bears it out; an answer of a remote that is gone tells nothing.
LEMMA ToldFresh ==
    ASSUME SInv, NEW s \in Sessions, Take(s), IsReplyTo(s, Bytes(s)[1].of),
           End(s, Bytes(s)[1].of.result),
           told' = IF handler[s] = "closed" THEN told
                   ELSE told \cup Telling(Bytes(s)[1].of.result)
    PROVE  Fresh' /\ Returned'
<1> DEFINE o == Bytes(s)[1].of.result
           n == Len(done[s])
<1>1. /\ n = Len(calls[s]) /\ n \in Nat \ {0} /\ o = done[s][n] /\ o \in Answers
  BY AnswerIsLast DEF SInv
<1>2. /\ registry' = registry /\ done' = done /\ calls' = calls /\ asOf' = asOf
      /\ handler' = handler /\ session' = session
  BY DEF End, remote
<1>3. /\ told \subseteq Fact /\ \A f \in told : Borne(f)
      /\ \A z \in Sessions : session[z] = "new" <=> handler[z] = "none"
  BY DEF SInv, Fresh, ToldBorne, Untold
<1>4. ASSUME handler[s] # "closed", NEW f \in Telling(o)
      PROVE  Borne(f) /\ f \in Fact
  <2>1. n \in 1..n
    BY <1>1
  <2>2. Borne(f)
    BY <1>1, <1>4, <2>1 DEF SInv, Fresh, GivenBorne
  <2> QED
    BY <1>1, <1>4, <2>2, TellingIsFact
<1>5. Waiting(s)
  BY DEF Take
<1> HIDE DEF o, n
<1>6. told' = IF handler[s] = "closed" THEN told ELSE told \cup Telling(o)
  BY DEF o
<1>7. told \subseteq told' /\ told' \subseteq Fact /\ \A f \in told' : Borne(f)
  BY <1>3, <1>4, <1>6
<1>8. Fresh'
  BY <1>2, <1>3, <1>7, StillFresh DEF SInv
<1>9. Len(done[s]) = Len(calls[s]) /\ o = done[s][Len(calls[s])] /\ End(s, o)
  BY <1>1 DEF o, n
<1>10. Returned'
  BY <1>5, <1>9, EndReturned DEF SInv
<1> QED
  BY <1>8, <1>10

\* The steps of read_message, and the ends of send_request_and_wait.
LEMMA ReadFresh ==
    ASSUME SInv, NEW s \in Sessions,
           ReadLength(s) \/ ReadMessage(s) \/ Timeout(s) \/ ReadLost(s)
    PROVE  Fresh' /\ Returned'
<1>1. CASE ReadLength(s)
  <2>1. Waiting(s)
    BY <1>1 DEF ReadLength, Take
  <2>2. Failed(s, "broken") \/ Keep(s)
    BY <1>1 DEF ReadLength
  <2> QED
    BY <2>1, <2>2, FailedFresh, UnendedFresh DEF Keep
<1>2. CASE ReadMessage(s)
  <2> DEFINE m == Bytes(s)[1].of
  <2>1. Take(s) /\ Waiting(s)
    BY <1>2 DEF ReadMessage, Take
  <2>2. \/ Failed(s, "broken")
        \/ /\ IsReplyTo(s, m) /\ End(s, m.result)
           /\ told' = IF handler[s] = "closed" THEN told
                      ELSE told \cup Telling(m.result)
        \/ UNCHANGED <<remote, session, calls, outcome, history>>
    BY <1>2, Zenon DEF ReadMessage
  <2> QED
    BY <2>1, <2>2, FailedFresh, ToldFresh, UnendedFresh
<1>3. CASE Timeout(s)
  BY <1>3, FailedFresh DEF Timeout
<1>4. CASE ReadLost(s)
  BY <1>4, FailedFresh DEF ReadLost
<1> QED
  BY <1>1, <1>2, <1>3, <1>4

\* A command is given: what was told until now is what it must respect.
LEMMA IssueFresh ==
    ASSUME SInv, NEW s \in Sessions, NEW r \in Commands, Issue(s, r)
    PROVE  Fresh' /\ Returned'
<1>1. /\ registry' = registry /\ done' = done /\ outcome' = outcome
      /\ handler' = handler /\ session' = session /\ told' = told
      /\ session[s] = "open" /\ ~Waiting(s)
  BY DEF Issue, remote
<1>2. /\ asOf' = [asOf EXCEPT ![s] = told]
      /\ calls' = [calls EXCEPT ![s] = Append(calls[s], r)]
  BY DEF Issue
<1>3. asOf \in [Sessions -> SUBSET Fact] /\ told \subseteq Fact
  BY DEF SInv, Fresh, AsOfTold, ToldBorne
<1>4. /\ asOf' \in [Sessions -> SUBSET Fact] /\ asOf'[s] = told
      /\ \A z \in Sessions \ {s} : asOf'[z] = asOf[z]
  BY <1>2, <1>3
<1>5. \A z \in Sessions \ {s} : calls'[z] = calls[z]
  BY <1>2 DEF SInv, IInv, TypeOK
<1>6. /\ Len(calls'[s]) = Len(calls[s]) + 1 /\ Len(calls[s]) \in Nat
      /\ Len(done[s]) \in Nat /\ Len(done[s]) <= Len(calls[s])
      /\ Len(outcome[s]) \in Nat /\ Len(outcome[s]) <= Len(calls[s])
  <2>1. /\ calls \in [Sessions -> Seq(Commands)]
        /\ Len(done[s]) \in Nat /\ Len(done[s]) <= Len(calls[s])
        /\ Len(outcome[s]) \in Nat /\ Len(outcome[s]) \in {Len(calls[s]), Len(calls[s]) - 1}
    BY DEF SInv, IInv, TypeOK
  <2>2. calls'[s] = Append(calls[s], r) /\ calls[s] \in Seq(Commands)
    BY <1>2, <2>1
  <2> QED
    BY <2>1, <2>2
<1>7. \A f : Borne(f)' <=> Borne(f)
  BY <1>1 DEF registry, Borne
<1>8. Untold'
  <2>1. session[s] # "new"
    BY <1>1
  <2> QED
    BY <1>1, <1>4, <2>1 DEF SInv, Fresh, Untold
<1>9. ToldBorne' /\ GivenBorne'
  BY <1>1, <1>7 DEF SInv, Fresh, ToldBorne, GivenBorne
<1>10. AsOfTold'
  BY <1>1, <1>4 DEF SInv, Fresh, AsOfTold
<1>11. LastRespects'
  <2>1. Len(done[s]) # Len(calls'[s])
    BY <1>6
  <2> QED
    BY <1>1, <1>4, <1>5, <2>1 DEF SInv, Fresh, LastRespects, Respects
<1>12. Returned'
  <2>1. Len(outcome[s]) < Len(calls'[s])
    BY <1>6
  <2> QED
    BY <1>1, <1>5, <2>1 DEF SInv, Returned, Waiting
<1> QED
  BY <1>8, <1>9, <1>10, <1>11, <1>12 DEF Fresh

\* A request is handled, one step on the registry: the answer is borne out
\* afterwards, and no older than what was borne out before (handle_request).
LEMMA HandleFresh ==
    ASSUME SInv, NEW s \in Sessions, Handle(s)
    PROVE  Fresh' /\ Returned'
<1> DEFINE n == Len(done[s])
           r == calls[s][n + 1]
           a == Answer(r)
<1>1. /\ handler[s] = "reading" /\ n < Len(calls[s])
      /\ Execute(r) /\ done' = [done EXCEPT ![s] = Append(done[s], a)]
      /\ handler' = [handler EXCEPT ![s] = "replying"]
      /\ session' = session /\ calls' = calls /\ outcome' = outcome
      /\ told' = told /\ asOf' = asOf
  BY DEF Handle, history
<1>2. /\ calls[s] \in Seq(Commands) /\ done[s] \in Seq(Answers) /\ n \in Nat
      /\ done \in [Sessions -> Seq(Answers)]
      /\ handler \in [Sessions -> {"none", "reading", "replying", "closed"}]
      /\ RegistryTypeOK /\ TestsCounted
  BY DEF SInv, IInv, TypeOK
<1>3. r \in Commands
  BY <1>1, <1>2
<1>4. a \in Answers
  BY <1>1, <1>2, <1>3, CommandsAssumption, AnswersAreAnswers
<1>5. \A f \in Fact : Borne(f) => Borne(f)'
  BY <1>1, <1>2, <1>3, ExecuteKeepsFacts
<1>6. \A f \in Telling(a) : Borne(f)'
  BY <1>1, <1>2, <1>3, AnswersAreBorne
<1>7. \A f \in Fact : Borne(f) => Respects(a, f)
  BY <1>1, <1>2, <1>3, AnswersRespect
<1> HIDE DEF a, r
<1>8. /\ Len(Append(done[s], a)) = n + 1 /\ Append(done[s], a)[n + 1] = a
      /\ \A i \in 1..n : Append(done[s], a)[i] = done[s][i]
  BY <1>2, <1>4
<1>9. /\ Len(done'[s]) = n + 1 /\ done'[s][n + 1] = a
      /\ \A i \in 1..n : done'[s][i] = done[s][i]
      /\ \A z \in Sessions \ {s} : done'[z] = done[z] /\ handler'[z] = handler[z]
      /\ handler'[s] = "replying"
  BY <1>1, <1>2, <1>8
<1>10. Untold'
  BY <1>1, <1>9 DEF SInv, Fresh, Untold
<1>11. ToldBorne'
  BY <1>1, <1>5 DEF SInv, Fresh, ToldBorne
<1>12. GivenBorne'
  <2> SUFFICES ASSUME NEW z \in Sessions, handler'[z] # "closed",
                      NEW i \in 1..Len(done'[z]), NEW f \in Telling(done'[z][i])
               PROVE  Borne(f)'
    BY DEF GivenBorne
  <2>1. ASSUME handler[z] # "closed", i \in 1..Len(done[z]), done'[z][i] = done[z][i]
        PROVE  Borne(f)'
    <3>1. Borne(f)
      BY <2>1 DEF SInv, Fresh, GivenBorne
    <3>2. done[z][i] \in Answers
      <4>1. done[z] \in Seq(Answers)
        BY <1>2
      <4> QED
        BY <2>1, <4>1
    <3>3. f \in Fact
      BY <2>1, <3>2, TellingIsFact
    <3> QED
      BY <1>5, <3>1, <3>3
  <2>2. CASE z # s
    BY <1>9, <2>1, <2>2
  <2>3. CASE z = s /\ i \in 1..n
    BY <1>1, <1>9, <2>1, <2>3
  <2>4. CASE z = s /\ i = n + 1
    BY <1>6, <1>9, <2>4
  <2> QED
    BY <1>2, <1>9, <2>2, <2>3, <2>4
<1>13. AsOfTold'
  BY <1>1, <1>9 DEF SInv, Fresh, AsOfTold
<1>14. LastRespects'
  <2> SUFFICES ASSUME NEW z \in Sessions, handler'[z] # "closed", calls[z] # <<>>,
                      Len(done'[z]) = Len(calls[z]), NEW f \in asOf[z]
               PROVE  Respects(done'[z][Len(done'[z])], f)
    BY <1>1 DEF LastRespects, Respects
  <2>1. CASE z # s
    BY <1>9, <2>1 DEF SInv, Fresh, LastRespects
  <2>2. CASE z = s
    <3>1. f \in told
      BY <1>1, <2>2 DEF SInv, Fresh, AsOfTold
    <3>2. f \in Fact /\ Borne(f)
      BY <3>1 DEF SInv, Fresh, ToldBorne
    <3> QED
      BY <1>7, <1>9, <2>2, <3>2
  <2> QED
    BY <2>1, <2>2
<1>15. Returned'
  <2> SUFFICES ASSUME NEW z \in Sessions, calls[z] # <<>>, ~Waiting(z)
               PROVE  \/ outcome[z][Len(calls[z])] \in Failures
                      \/ /\ Len(done'[z]) = Len(calls[z])
                         /\ outcome[z][Len(calls[z])] = done'[z][Len(calls[z])]
    BY <1>1 DEF Returned, Waiting
  <2>1. CASE z # s
    BY <1>9, <2>1 DEF SInv, Returned
  <2>2. CASE z = s
    <3>1. n # Len(calls[s])
      BY <1>1, <1>2
    <3> QED
      BY <2>2, <3>1 DEF SInv, Returned
  <2> QED
    BY <2>1, <2>2
<1> QED
  BY <1>10, <1>11, <1>12, <1>13, <1>14, <1>15 DEF Fresh

\* The remote is restarted: what was told is of another life of it.
LEMMA RemoteRestartFresh ==
    ASSUME SInv, RemoteRestart
    PROVE  TestsCounted' /\ Fresh' /\ Returned'
<1>1. /\ handler' = [z \in Sessions |-> IF handler[z] = "none" THEN "none" ELSE "closed"]
      /\ told' = {} /\ tests' = [t \in TestId |-> None]
      /\ done' = done /\ session' = session /\ calls' = calls
      /\ outcome' = outcome /\ asOf' = asOf
  BY DEF RemoteRestart, Restart
<1>2. ASSUME NEW z \in Sessions, handler'[z] # "closed"
      PROVE  session[z] = "new" /\ done[z] = <<>> /\ asOf[z] = {}
  BY <1>1, <1>2 DEF SInv, Fresh, Untold
<1>3. TestsCounted'
  BY <1>1 DEF TestsCounted
<1>4. Untold'
  BY <1>1 DEF SInv, Fresh, Untold
<1>5. ToldBorne'
  BY <1>1 DEF ToldBorne
<1>6. GivenBorne'
  <2> SUFFICES ASSUME NEW z \in Sessions, handler'[z] # "closed", NEW i \in 1..Len(done[z])
               PROVE  FALSE
    BY <1>1 DEF GivenBorne
  <2> QED
    BY <1>2
<1>7. AsOfTold'
  BY <1>1, <1>2 DEF SInv, Fresh, AsOfTold
<1>8. LastRespects'
  BY <1>1, <1>2 DEF LastRespects
<1>9. Returned'
  BY <1>1, StillReturned DEF SInv
<1> QED
  BY <1>3, <1>4, <1>5, <1>6, <1>7, <1>8, <1>9 DEF Fresh

\* Every step keeps what makes answers fresh.
LEMMA StepKeepsFresh == SInv /\ [Next]_vars => SInv'
<1> SUFFICES ASSUME SInv, [Next]_vars PROVE SInv'
  OBVIOUS
<1>1. IInv' /\ TestsCounted'
  BY StepKeepsInv, StepKeepsTests DEF SInv
<1>2. CASE UNCHANGED vars
  BY <1>1, <1>2, UnendedFresh DEF SInv, vars
<1>3. CASE RemoteRestart
  BY <1>1, <1>3, RemoteRestartFresh DEF SInv
<1>4. ASSUME NEW s \in Sessions,
             \/ Connect(s)
             \/ \E r \in Commands : Issue(s, r)
             \/ Timeout(s)
             \/ ReadByte(s) \/ ReadLength(s) \/ ReadMessage(s)
             \/ ReadLost(s)
             \/ Quit(s)
             \/ Handle(s) \/ Respond(s) \/ Close(s)
      PROVE  Fresh' /\ Returned'
  BY <1>4, QuietFresh, ReadFresh, IssueFresh, HandleFresh
<1> QED
  BY <1>1, <1>2, <1>3, <1>4 DEF Next, SInv

\* However many operators there are, and whatever answers of commands that
\* timed out still arrive: no answer about a test is older than what anyone
\* had been told of it when the command was given (handle_test_start,
\* handle_test_abort, handle_test_results, send_request_and_wait).
THEOREM AnswersStayFresh == Spec => []FreshAnswers
  BY InitFresh, StepKeepsFresh, FreshEnough, PTL DEF Spec
===============================================================================
