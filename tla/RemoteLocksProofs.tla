-------------------------- MODULE RemoteLocksProofs --------------------------
(***************************************************************************)
(* Proofs about RemoteLocks: types, that no handlers wait for one another  *)
(* in a circle, and that they act on the registry as if each ran alone,    *)
(* for any number of connections and worker threads and any requests.      *)
(***************************************************************************)
EXTENDS RemoteLocks, TestRegistryProofs, FiniteSetTheorems, WellFoundedInduction

-----------------------------------------------------------------------------
(* What may be left of a handler.                                          *)

\* A part in which the state is not locked: sections of the hubs that end with
\* the step after the lock, commands, and requests about role and tests.
StepOfHubPart(q, i) ==
    /\ q[i].op \notin {"number", "record"}
    /\ q[i].op = "lock" =>
           q[i].lock = "hubs" /\ i < Len(q) /\ q[i + 1].op = "leave"
    /\ q[i].op = "leave" => q[i].lock = "hubs"
    /\ q[i].op = "perform" =>
           /\ q[i].request.method # "test_start"
           /\ q[i].request \in Commands \/ q[i].request.method = "test_results"

HubPart(q) == \A i \in 1..Len(q) : StepOfHubPart(q, i)

\* The first step takes the lock of the state.
AsksState(q) == q # <<>> /\ Head(q).op = "lock" /\ Head(q).lock = "state"

\* A start of a test that has no number yet, or no record.
Unnumbered(q) == q = Starting \/ q = Tail(Starting)
Numbered(q) == \E n \in TestId : q = <<Record(n)>>

Left(q) ==
    \/ HubPart(q)
    \/ AsksState(q) /\ HubPart(Tail(q))
    \/ /\ Unnumbered(q) \/ Numbered(q)
       /\ \E r \in Commands : r.method = "test_start"

-----------------------------------------------------------------------------
(* The strengthening.                                                      *)

\* The guards of lock l that task t has.
Guards(t, l) == {g \in held[l] : g.task = t}

\* A task asks for the lock of the state with no guard, and leaves a section of
\* the hubs before it does anything else; a start that has begun has its guard.
TaskInv(t) ==
    /\ Left(todo[t])
    /\ place[t] = "reading" => todo[t] = <<>> /\ Guards(t, "state") = {}
    /\ AsksState(todo[t]) => Guards(t, "state") = {}
    /\ Guards(t, "hubs") # {} => todo[t] # <<>> /\ Head(todo[t]).op = "leave"
    /\ todo[t] = Tail(Starting) \/ Numbered(todo[t]) =>
           [task |-> t, mode |-> "write"] \in Guards(t, "state")

\* Guard g is what its task waits for.
Waits(g, l) ==
    /\ place[g.task] = "waiting"
    /\ todo[g.task] # <<>>
    /\ Head(todo[g.task]).op = "lock"
    /\ Head(todo[g.task]).lock = l
    /\ Head(todo[g.task]).mode = g.mode

\* No task is queued twice.
QueueInv(l) ==
    \A i \in 1..Len(queue[l]) :
        /\ Waits(queue[l][i], l)
        /\ \A j \in 1..Len(queue[l]) : i # j => queue[l][i].task # queue[l][j].task

\* A guard to write is the only one.
Exclusive(guards) == \A g, h \in guards : g.mode = "write" => g = h

LockTypes ==
    /\ place \in [Tasks -> {"reading", "ready", "running", "waiting"}]
    /\ todo \in [Tasks -> Seq(StepType)]
    /\ held \in [Locks -> SUBSET Guard]
    /\ queue \in [Locks -> Seq(Guard)]

LocksInv ==
    /\ LockTypes
    /\ \A t \in Tasks : TaskInv(t)
    /\ \A l \in Locks : QueueInv(l) /\ Exclusive(held[l])

\* The numbers that were given out and those that will be are the tests'.
Running == {t \in Tasks : place[t] = "running"}
Starts == {t \in Tasks : Unnumbered(todo[t])}

CountInv ==
    /\ RegistryTypeOK
    /\ Cardinality(Running) <= Workers
    /\ test_counter + Cardinality(Starts) <= MaxTests
    /\ \A t \in Tasks : \A n \in TestId : todo[t] = <<Record(n)>> => n = test_counter

IInv == LocksInv /\ CountInv

-----------------------------------------------------------------------------
(* Steps and programs.                                                     *)

LEMMA StepsAreSteps ==
    /\ \A l \in Locks, m \in {"read", "write"} : Lock(l, m) \in StepType
    /\ \A l \in Locks : Leave(l) \in StepType
    /\ \A l \in Locks, f \in {"end", "rollback"} : LeaveOrFail(l, f) \in StepType
    /\ \A f \in {"never", "end", "rollback"} : Run(f) \in StepType
    /\ \A r \in Requests : Perform(r) \in StepType
    /\ Number \in StepType
    /\ \A n \in TestId \cup {0} : Record(n) \in StepType
<1>1. \A l \in Locks, m \in {"read", "write"} : Lock(l, m) \in StepType
  BY DEF Lock, StepType
<1>2. \A l \in Locks : Leave(l) \in StepType
  BY DEF Leave, StepType
<1>3. \A l \in Locks, f \in {"end", "rollback"} : LeaveOrFail(l, f) \in StepType
  BY DEF LeaveOrFail, StepType
<1>4. \A f \in {"never", "end", "rollback"} : Run(f) \in StepType
  BY DEF Run, StepType
<1>5. \A r \in Requests : Perform(r) \in StepType
  BY DEF Perform, StepType
<1>6. Number \in StepType
  BY DEF Number, StepType
<1>7. \A n \in TestId \cup {0} : Record(n) \in StepType
  BY DEF Record, StepType
<1> QED
  BY <1>1, <1>2, <1>3, <1>4, <1>5, <1>6, <1>7

\* Parts after one another are a part.
LEMMA ConcatHubParts ==
    ASSUME NEW p \in Seq(StepType), NEW q \in Seq(StepType),
           HubPart(p), HubPart(q)
    PROVE  p \o q \in Seq(StepType) /\ HubPart(p \o q)
<1>1. /\ p \o q \in Seq(StepType)
      /\ Len(p \o q) = Len(p) + Len(q)
      /\ \A i \in 1..Len(p) : (p \o q)[i] = p[i]
      /\ \A i \in (Len(p) + 1)..(Len(p) + Len(q)) : (p \o q)[i] = q[i - Len(p)]
  OBVIOUS
<1> DEFINE s == p \o q
<1>2. SUFFICES ASSUME NEW i \in 1..Len(s)
               PROVE  StepOfHubPart(s, i)
  BY <1>1 DEF HubPart
<1>3. CASE i <= Len(p)
  <2>1. /\ i \in 1..Len(p) /\ s[i] = p[i]
        /\ i < Len(p) => s[i + 1] = p[i + 1] /\ i < Len(s)
    BY <1>1, <1>3
  <2>2. StepOfHubPart(p, i)
    BY <2>1 DEF HubPart
  <2> QED
    BY <2>1, <2>2 DEF StepOfHubPart
<1>4. CASE i > Len(p)
  <2>1. PICK j \in 1..Len(q) : j = i - Len(p)
    BY <1>1, <1>4
  <2>2. /\ s[i] = q[j]
        /\ j < Len(q) => s[i + 1] = q[j + 1] /\ i < Len(s)
    BY <1>1, <1>4, <2>1
  <2>3. StepOfHubPart(q, j)
    BY DEF HubPart
  <2> QED
    BY <2>2, <2>3 DEF StepOfHubPart
<1> QED
  BY <1>3, <1>4

LEMMA TailHubPart ==
    ASSUME NEW q \in Seq(StepType), q # <<>>, HubPart(q)
    PROVE  Tail(q) \in Seq(StepType) /\ HubPart(Tail(q))
<1>1. /\ Tail(q) \in Seq(StepType) /\ Len(Tail(q)) = Len(q) - 1
      /\ \A i \in 1..Len(Tail(q)) : Tail(q)[i] = q[i + 1]
  OBVIOUS
<1>2. ASSUME NEW i \in 1..Len(Tail(q))
      PROVE  StepOfHubPart(Tail(q), i)
  <2>1. i + 1 \in 1..Len(q) /\ Tail(q)[i] = q[i + 1]
            /\ (i + 1 < Len(q) => i < Len(Tail(q)) /\ Tail(q)[i + 1] = q[i + 2])
    BY <1>1
  <2>2. StepOfHubPart(q, i + 1)
    BY <2>1 DEF HubPart
  <2> QED
    BY <2>1, <2>2 DEF StepOfHubPart
<1> QED
  BY <1>1, <1>2 DEF HubPart

\* The handlers' parts.
LEMMA PartsOfHandlers ==
    ASSUME NEW q, NEW f \in {"end", "rollback"},
           \/ q = <<>> \/ q = Releasing \/ q = Reserving \/ q = Powering(f)
           \/ q = Refreshing \/ q = Configuring \/ q = ConfiguringRouted
           \/ q = NetworkReporting
    PROVE  q \in Seq(StepType) /\ HubPart(q)
<1>1. CASE q = <<>>
  BY <1>1 DEF HubPart
<1>2. CASE q = Releasing \/ q = Reserving
  <2>1. /\ q = <<Lock("hubs", "write"), LeaveOrFail("hubs", "end")>>
    BY <1>2 DEF Releasing, Reserving
  <2>2. q \in Seq(StepType)
    BY <2>1, StepsAreSteps DEF Locks
  <2> QED
    BY <2>1, <2>2 DEF HubPart, StepOfHubPart, Lock, LeaveOrFail
<1>3. CASE q = Powering(f)
  <2>1. q = <<Lock("hubs", "read"), LeaveOrFail("hubs", f), Run(f),
              Lock("hubs", "write"), Leave("hubs")>>
    BY <1>3 DEF Powering
  <2>2. /\ Lock("hubs", "read") \in StepType /\ Lock("hubs", "write") \in StepType
        /\ LeaveOrFail("hubs", f) \in StepType /\ Leave("hubs") \in StepType
        /\ Run(f) \in StepType
    BY StepsAreSteps DEF Locks
  <2>3. q \in Seq(StepType)
    BY <2>1, <2>2
  <2> QED
    BY <2>1, <2>3 DEF HubPart, StepOfHubPart, Lock, LeaveOrFail, Leave, Run
<1>4. CASE q = Refreshing
  <2>1. q = <<Lock("hubs", "read"), LeaveOrFail("hubs", "end"), Run("end"),
              Lock("hubs", "write"), Leave("hubs")>>
    BY <1>4 DEF Refreshing
  <2>2. /\ Lock("hubs", "read") \in StepType /\ Lock("hubs", "write") \in StepType
        /\ LeaveOrFail("hubs", "end") \in StepType /\ Leave("hubs") \in StepType
        /\ Run("end") \in StepType
    BY StepsAreSteps DEF Locks
  <2>3. q \in Seq(StepType)
    BY <2>1, <2>2
  <2> QED
    BY <2>1, <2>3 DEF HubPart, StepOfHubPart, Lock, LeaveOrFail, Leave, Run
<1>5. CASE q = Configuring \/ q = ConfiguringRouted \/ q = NetworkReporting
  <2>1. Run("never") \in StepType /\ Run("end") \in StepType
    BY StepsAreSteps
  <2>2. CASE q = <<Run("end"), Run("end")>>
    BY <2>1, <2>2 DEF HubPart, StepOfHubPart, Run
  <2>3. CASE q = <<Run("end"), Run("end"), Run("never")>>
    BY <2>1, <2>3 DEF HubPart, StepOfHubPart, Run
  <2>4. CASE q = <<Run("never")>>
    BY <2>1, <2>4 DEF HubPart, StepOfHubPart, Run
  <2> QED
    BY <1>5, <2>2, <2>3, <2>4 DEF Configuring, ConfiguringRouted, NetworkReporting
<1> QED
  BY <1>1, <1>2, <1>3, <1>4, <1>5

\* The handlers of requests about role and tests, after their lock.
LEMMA PerformPart ==
    ASSUME NEW r \in Requests, r.method # "test_start",
           r \in Commands \/ r.method = "test_results"
    PROVE  <<Perform(r)>> \in Seq(StepType) /\ HubPart(<<Perform(r)>>)
<1>1. Perform(r) \in StepType
  BY StepsAreSteps
<1>2. <<Perform(r)>> \in Seq(StepType)
  BY <1>1
<1> QED
  BY <1>2 DEF HubPart, StepOfHubPart, Perform

LEMMA StartingSteps ==
    /\ Starting = <<Lock("state", "write"), Number, Record(0)>>
    /\ Tail(Starting) = <<Number, Record(0)>>
    /\ Starting \in Seq(StepType) /\ Tail(Starting) \in Seq(StepType)
<1>1. /\ Lock("state", "write") \in StepType /\ Number \in StepType
      /\ Record(0) \in StepType
  BY StepsAreSteps DEF Locks
<1> QED
  BY <1>1 DEF Starting

\* A number is missing in a start only.
LEMMA NumberOnlyInStarts ==
    /\ \A n : ~HubPart(<<Record(n)>>)
    /\ ~HubPart(Starting) /\ ~HubPart(Tail(Starting))
    /\ AsksState(Starting) /\ ~AsksState(Tail(Starting))
    /\ \A n : ~AsksState(<<Record(n)>>)
    /\ \A q \in Seq(StepType) : HubPart(q) => ~AsksState(q)
<1>1. ASSUME NEW n
      PROVE  ~HubPart(<<Record(n)>>) /\ ~AsksState(<<Record(n)>>)
  BY DEF HubPart, StepOfHubPart, Record, AsksState
<1>2. ~HubPart(Starting) /\ AsksState(Starting)
  BY StartingSteps DEF HubPart, StepOfHubPart, Number, AsksState, Lock
<1>3. ~HubPart(Tail(Starting)) /\ ~AsksState(Tail(Starting))
  BY StartingSteps DEF HubPart, StepOfHubPart, Number, AsksState
<1>4. ASSUME NEW q \in Seq(StepType), HubPart(q), AsksState(q)
      PROVE  FALSE
  <2>1. 1 \in 1..Len(q) /\ q[1] = Head(q)
    BY <1>4 DEF AsksState
  <2> QED
    BY <1>4, <2>1 DEF HubPart, StepOfHubPart, AsksState
<1> QED
  BY <1>1, <1>2, <1>3, <1>4

\* A part under the state's lock.
LEMMA LockedPart ==
    ASSUME NEW q \in Seq(StepType), HubPart(q), NEW m \in {"read", "write"}
    PROVE  /\ <<Lock("state", m)>> \o q \in Seq(StepType)
           /\ Left(<<Lock("state", m)>> \o q)
           /\ ~Unnumbered(<<Lock("state", m)>> \o q)
           /\ ~Numbered(<<Lock("state", m)>> \o q)
<1> DEFINE s == <<Lock("state", m)>> \o q
<1>1. Lock("state", m) \in StepType
  BY StepsAreSteps DEF Locks
<1>2. s \in Seq(StepType) /\ s # <<>> /\ Head(s) = Lock("state", m) /\ Tail(s) = q
  BY <1>1
<1>3. AsksState(s)
  BY <1>2 DEF AsksState, Lock
<1>4. ~Unnumbered(s) /\ ~Numbered(s)
  BY <1>2, <1>3, NumberOnlyInStarts DEF Unnumbered, Numbered
<1> QED
  BY <1>2, <1>3, <1>4 DEF Left

\* Every handler is of the shape, and takes the lock of the state first if it
\* takes it at all (handle_request).
LEMMA ProgramsAreLeft ==
    ASSUME NEW r \in Commands \cup HubRequests
    PROVE  /\ Program(r) \in Seq(StepType)
           /\ Left(Program(r))
           /\ \/ Program(r) = Starting /\ r \in Commands /\ r.method = "test_start"
              \/ ~Unnumbered(Program(r)) /\ ~Numbered(Program(r))
<1>1. CASE r \in Commands
  <2>0. r \in Requests
    BY <1>1, CommandsAssumption
  <2>1. CASE r.method = "ping"
    <3>1. Program(r) = <<>>
      BY <2>1 DEF Program
    <3> QED
      BY <3>1, PartsOfHandlers, NumberOnlyInStarts DEF Left, Unnumbered, Numbered
  <2>2. CASE r.method = "test_start"
    <3>1. Program(r) = Starting
      BY <2>2 DEF Program
    <3> QED
      BY <1>1, <2>2, <3>1, StartingSteps DEF Left, Unnumbered
  <2>3. ASSUME r.method \in {"get_info", "test_results", "set_role",
                             "test_abort", "test_cancel"}
        PROVE  \E m \in {"read", "write"} :
                   Program(r) = <<Lock("state", m)>> \o <<Perform(r)>>
    <3>1. CASE r.method \in {"get_info", "test_results"}
      <4>1. Program(r) = Looking(r)
        BY <3>1 DEF Program
      <4>2. Looking(r) = <<Lock("state", "read")>> \o <<Perform(r)>>
        BY DEF Looking
      <4> QED
        BY <4>1, <4>2
    <3>2. CASE r.method \in {"set_role", "test_abort", "test_cancel"}
      <4>1. Program(r) = Changing(r)
        BY <3>2 DEF Program, Cancelling
      <4>2. Changing(r) = <<Lock("state", "write")>> \o <<Perform(r)>>
        BY DEF Changing
      <4> QED
        BY <4>1, <4>2
    <3> QED
      BY <2>3, <3>1, <3>2
  <2>4. CASE r.method \in {"get_info", "test_results", "set_role",
                           "test_abort", "test_cancel"}
    <3>1. PICK m \in {"read", "write"} :
              Program(r) = <<Lock("state", m)>> \o <<Perform(r)>>
      BY <2>3, <2>4
    <3>2. <<Perform(r)>> \in Seq(StepType) /\ HubPart(<<Perform(r)>>)
      BY <1>1, <2>0, <2>4, PerformPart
    <3> QED
      BY <3>1, <3>2, LockedPart
  <2>5. r.method \in {"ping", "get_info", "test_start", "set_role",
                      "test_results", "test_abort", "test_cancel"}
    BY <2>0 DEF Requests
  <2> QED
    BY <2>1, <2>2, <2>4, <2>5
<1>2. CASE r \in HubRequests
  <2>0. r \in HubMethods
    BY <1>2, LocksAssumption
  <2>1. CASE r.method \in {"network_configure", "network_status"}
    <3>1. Program(r) \in {Configuring, ConfiguringRouted, NetworkReporting}
      BY <2>1 DEF Program
    <3>2. Program(r) \in Seq(StepType) /\ HubPart(Program(r))
      BY <3>1, PartsOfHandlers
    <3> QED
      BY <3>2, NumberOnlyInStarts DEF Left, Unnumbered, Numbered
  <2>2. CASE r.method = "test_status"
    <3> DEFINE r1 == [r EXCEPT !.method = "test_results"]
    <3>1. r1 \in Requests /\ r1.method = "test_results"
      <4>1. r \in [method : {"test_status"}, test : TestId]
        BY <2>0, <2>2 DEF HubMethods
      <4>2. r1 \in [method : {"test_results"}, test : TestId]
        BY <4>1
      <4> QED
        BY <4>2 DEF Requests
    <3>2. Program(r) = Reporting(r1)
      BY <2>2 DEF Program
    <3>3. Reporting(r1) = <<Lock("state", "read")>> \o <<Perform(r1)>>
      BY DEF Reporting, Looking
    <3>4. <<Perform(r1)>> \in Seq(StepType) /\ HubPart(<<Perform(r1)>>)
      BY <3>1, PerformPart
    <3> HIDE DEF r1
    <3> QED
      BY <3>2, <3>3, <3>4, LockedPart
  <2>3. ASSUME NEW q, q \in Seq(StepType), HubPart(q),
               Program(r) = <<Lock("state", "read")>> \o q
        PROVE  Program(r) \in Seq(StepType) /\ Left(Program(r))
                   /\ ~Unnumbered(Program(r)) /\ ~Numbered(Program(r))
    BY <2>3, LockedPart
  <2>4. CASE r.method = "hub_list"
    <3> DEFINE q == <<Lock("hubs", "read"), Leave("hubs")>>
    <3>1. /\ Lock("hubs", "read") \in StepType /\ Leave("hubs") \in StepType
      BY StepsAreSteps DEF Locks
    <3>2. q \in Seq(StepType) /\ HubPart(q)
      BY <3>1 DEF HubPart, StepOfHubPart, Lock, Leave
    <3>3. Program(r) = <<Lock("state", "read")>> \o q
      BY <2>4 DEF Program, Listing
    <3> QED
      BY <2>3, <3>2, <3>3
  <2>5. CASE r.method = "hub_discover"
    <3> DEFINE q == <<Run("end"), Run("end"), Lock("hubs", "write"), Leave("hubs")>>
    <3>1. /\ Lock("hubs", "write") \in StepType /\ Leave("hubs") \in StepType
          /\ Run("end") \in StepType
      BY StepsAreSteps DEF Locks
    <3>2. q \in Seq(StepType) /\ HubPart(q)
      BY <3>1 DEF HubPart, StepOfHubPart, Lock, Leave, Run
    <3>3. Program(r) = <<Lock("state", "read")>> \o q
      BY <2>5 DEF Program, Discovering
    <3> QED
      BY <2>3, <3>2, <3>3
  <2>6. CASE r.method \in {"hub_status", "hub_port_power",
                           "hub_port_reserve", "hub_port_release"}
    <3>1. PICK q \in {Refreshing, Powering("end"), ReservingPowered, Reserving,
                      ReleasingPowered, Releasing} : Program(r) = UnderState(q)
      BY <2>6 DEF Program
    <3>2. /\ Reserving \in Seq(StepType) /\ HubPart(Reserving)
          /\ Releasing \in Seq(StepType) /\ HubPart(Releasing)
          /\ Powering("end") \in Seq(StepType) /\ HubPart(Powering("end"))
          /\ Powering("rollback") \in Seq(StepType) /\ HubPart(Powering("rollback"))
          /\ Refreshing \in Seq(StepType) /\ HubPart(Refreshing)
      BY PartsOfHandlers
    <3>3. /\ ReservingPowered \in Seq(StepType) /\ HubPart(ReservingPowered)
          /\ ReleasingPowered \in Seq(StepType) /\ HubPart(ReleasingPowered)
      BY <3>2, ConcatHubParts DEF ReservingPowered, ReleasingPowered
    <3>4. q \in Seq(StepType) /\ HubPart(q)
      BY <3>2, <3>3
    <3> QED
      BY <2>3, <3>1, <3>4 DEF UnderState
  <2>7. r.method \in {"network_configure", "network_status", "test_status",
                      "hub_list", "hub_discover", "hub_status", "hub_port_power",
                      "hub_port_reserve", "hub_port_release"}
    BY <2>0 DEF HubMethods
  <2> QED
    BY <2>1, <2>2, <2>3, <2>4, <2>5, <2>6, <2>7
<1> QED
  BY <1>1, <1>2

-----------------------------------------------------------------------------
(* What the first step says of the rest.                                   *)

LEMMA FirstSteps ==
    ASSUME NEW q \in Seq(StepType), Left(q), q # <<>>
    PROVE  /\ Head(q).op \in {"run", "perform", "leave"} =>
                  HubPart(q) /\ HubPart(Tail(q)) /\ Tail(q) \in Seq(StepType)
           /\ Head(q).op = "number" => q = Tail(Starting)
           /\ Head(q).op = "record" => Numbered(q)
           /\ Head(q).op = "lock" =>
                  \/ HubPart(q)
                  \/ AsksState(q) /\ HubPart(Tail(q))
                  \/ q = Starting
<1>1. CASE HubPart(q)
  <2>1. Head(q).op \notin {"number", "record"}
    <3>1. 1 \in 1..Len(q) /\ q[1] = Head(q)
      OBVIOUS
    <3> QED
      BY <1>1, <3>1 DEF HubPart, StepOfHubPart
  <2> QED
    BY <1>1, <2>1, TailHubPart
<1>2. CASE AsksState(q) /\ HubPart(Tail(q))
  BY <1>2 DEF AsksState
<1>3. CASE q = Starting
  BY <1>3, StartingSteps DEF Lock
<1>4. CASE q = Tail(Starting)
  BY <1>4, StartingSteps DEF Number
<1>5. CASE Numbered(q)
  BY <1>5 DEF Numbered, Record
<1> QED
  BY <1>1, <1>2, <1>3, <1>4, <1>5 DEF Left, Unnumbered

\* What is left of a handler that has taken the lock it asked for.
LEMMA AfterLock ==
    ASSUME NEW q \in Seq(StepType), Left(q), q # <<>>, Head(q).op = "lock"
    PROVE  /\ Tail(q) \in Seq(StepType)
           /\ Left(Tail(q))
           /\ ~AsksState(Tail(q))
           /\ ~Numbered(Tail(q))
           /\ Head(q).lock = "hubs" =>
                  HubPart(q) /\ Tail(q) # <<>> /\ Head(Tail(q)).op = "leave"
           /\ Head(q).lock = "state" => AsksState(q)
           /\ Tail(q) = Tail(Starting) =>
                  Head(q).lock = "state" /\ Head(q).mode = "write"
           /\ Unnumbered(Tail(q)) <=> Unnumbered(q)
<1>1. CASE HubPart(q)
  <2>1. Tail(q) \in Seq(StepType) /\ HubPart(Tail(q))
    BY <1>1, TailHubPart
  <2>2. 1 \in 1..Len(q) /\ StepOfHubPart(q, 1) /\ Head(q) = q[1]
    <3>1. 1 \in 1..Len(q) /\ Head(q) = q[1]
      OBVIOUS
    <3> QED
      BY <1>1, <3>1 DEF HubPart
  <2>3. Head(q).lock = "hubs" /\ Tail(q) # <<>> /\ Head(Tail(q)).op = "leave"
    <3>1. q[1].lock = "hubs" /\ 1 < Len(q) /\ q[2].op = "leave"
      BY <2>2 DEF StepOfHubPart
    <3>2. Tail(q) # <<>> /\ Head(Tail(q)) = q[2]
      BY <3>1
    <3> QED
      BY <2>2, <3>1, <3>2
  <2>4. /\ ~AsksState(Tail(q)) /\ ~Numbered(Tail(q))
        /\ ~Unnumbered(Tail(q)) /\ ~Unnumbered(q)
    BY <1>1, <2>1, NumberOnlyInStarts DEF Numbered, Unnumbered
  <2> QED
    BY <1>1, <2>1, <2>3, <2>4 DEF Left, Unnumbered
<1>2. CASE AsksState(q) /\ HubPart(Tail(q))
  <2>1. Tail(q) \in Seq(StepType)
    OBVIOUS
  <2>2. /\ ~AsksState(Tail(q)) /\ ~Numbered(Tail(q)) /\ ~Unnumbered(Tail(q))
    BY <1>2, <2>1, NumberOnlyInStarts DEF Numbered, Unnumbered
  <2>3. ~Unnumbered(q)
    BY <1>2, NumberOnlyInStarts DEF Unnumbered
  <2> QED
    BY <1>2, <2>1, <2>2, <2>3 DEF Left, Unnumbered, AsksState
<1>3. CASE q = Starting
  <2>1. AsksState(q) /\ Head(q).lock = "state" /\ Head(q).mode = "write"
    BY <1>3, StartingSteps, NumberOnlyInStarts DEF Lock
  <2>2. ~Numbered(Tail(q))
    BY <1>3, StartingSteps DEF Numbered
  <2>3. \E r \in Commands : r.method = "test_start"
    BY <1>3, NumberOnlyInStarts DEF Left
  <2>4. Left(Tail(q)) /\ Unnumbered(Tail(q)) /\ Unnumbered(q)
    BY <1>3, <2>3 DEF Left, Unnumbered
  <2> QED
    BY <1>3, <2>1, <2>2, <2>4, StartingSteps, NumberOnlyInStarts
<1> QED
  BY <1>1, <1>2, <1>3, FirstSteps

-----------------------------------------------------------------------------
(* Whom a lock lets in.                                                    *)

LEMMA SmallestNumber ==
    ASSUME NEW T \in SUBSET Nat, T # {}
    PROVE  \E x \in T : \A y \in T : x <= y
<1>1. PICK x \in T : \A y \in T : ~(<<y, x>> \in OpToRel(<, Nat))
  BY WFMin, NatLessThanWellFounded, Zenon
<1>2. \A y \in T : ~(y < x)
  BY <1>1, Zenon DEF OpToRel
<1> QED
  BY <1>2

\* A set of numbers with all that are smaller is 1 up to its size.
LEMMA InitialSegment ==
    ASSUME NEW n \in Nat, NEW P \in SUBSET (1..n),
           \A i \in P : \A j \in 1..i : j \in P
    PROVE  Cardinality(P) \in 0..n /\ P = 1..Cardinality(P)
<1>1. PICK m \in (1..(n + 1)) \ P : \A y \in (1..(n + 1)) \ P : m <= y
  <2> DEFINE T == (1..(n + 1)) \ P
  <2>1. T \in SUBSET Nat /\ n + 1 \in T
    OBVIOUS
  <2> HIDE DEF T
  <2>2. PICK m \in T : \A y \in T : m <= y
    BY <2>1, SmallestNumber
  <2> QED
    BY <2>2 DEF T
<1>2. P = 1..(m - 1)
  <2>1. ASSUME NEW i \in P
        PROVE  i \in 1..(m - 1)
    <3>1. m \notin 1..i
      OBVIOUS
    <3> QED
      BY <3>1
  <2>2. ASSUME NEW i \in 1..(m - 1)
        PROVE  i \in P
    BY <1>1
  <2> QED
    BY <2>1, <2>2
<1>3. Cardinality(1..(m - 1)) = m - 1
  BY FS_Interval
<1> QED
  BY <1>2, <1>3

\* Whoever is let in, a guard to write stays the only one.
LEMMA LetInExclusive ==
    ASSUME NEW guards \in SUBSET Guard, NEW q \in Seq(Guard), Exclusive(guards)
    PROVE  /\ LetIn(guards, q) \in 0..Len(q)
           /\ Exclusive(guards \cup {q[i] : i \in 1..LetIn(guards, q)})
<1>1. CASE q = <<>> \/ ~Admits(guards, q[1].mode)
  <2>1. LetIn(guards, q) = 0
    BY <1>1 DEF LetIn
  <2> QED
    BY <2>1 DEF Exclusive
<1>2. CASE ~(q = <<>> \/ ~Admits(guards, q[1].mode))
  <2> DEFINE P == {i \in 1..Len(q) : i = 1 \/ \A j \in 1..i : q[j].mode = "read"}
             c == Cardinality(P)
  <2>1. LetIn(guards, q) = c
    BY <1>2 DEF LetIn
  <2>2. c \in 0..Len(q) /\ P = 1..c
    <3>1. \A i \in P : \A j \in 1..i : j \in P
      OBVIOUS
    <3> HIDE DEF P
    <3>2. P \in SUBSET (1..Len(q))
      BY DEF P
    <3> QED
      BY <3>1, <3>2, InitialSegment
  <2>3. CASE q[1].mode = "write"
    <3>1. guards = {}
      BY <1>2, <2>3 DEF Admits
    <3>2. P \subseteq {1}
      BY <2>3
    <3>3. \A i \in 1..c : i = 1
      BY <2>2, <3>2
    <3> HIDE DEF P, c
    <3> QED
      BY <2>1, <2>2, <3>1, <3>3 DEF Exclusive
  <2>4. CASE q[1].mode = "read"
    <3>1. \A g \in guards : g.mode = "read"
      BY <1>2, <2>4 DEF Admits
    <3>2. \A i \in P : q[i].mode = "read"
      BY <2>4
    <3>3. \A i \in 1..c : q[i].mode = "read"
      BY <2>2, <3>2
    <3> HIDE DEF P, c
    <3>4. \A g \in guards \cup {q[i] : i \in 1..c} : g.mode = "read"
      BY <3>1, <3>3
    <3>5. Exclusive(guards \cup {q[i] : i \in 1..c})
      BY <3>4 DEF Exclusive
    <3> QED
      BY <2>1, <2>2, <3>5
  <2>5. q[1].mode \in {"read", "write"}
    <3>1. q[1] \in Guard
      BY <1>2
    <3> QED
      BY <3>1 DEF Guard
  <2> QED
    BY <2>3, <2>4, <2>5
<1> QED
  BY <1>1, <1>2

-----------------------------------------------------------------------------
(* What a step does to one task.                                           *)

LEMMA TaskUnaffected ==
    ASSUME NEW t \in Tasks, TaskInv(t),
           place'[t] = place[t], todo'[t] = todo[t],
           \A l \in Locks : Guards(t, l)' = Guards(t, l)
    PROVE  TaskInv(t)'
  BY DEF TaskInv, Locks

\* A task takes the lock it asked for: at once, or when it is let in.
LEMMA TaskTakesLock ==
    ASSUME NEW t \in Tasks, TaskInv(t), todo[t] \in Seq(StepType),
           todo[t] # <<>>, Head(todo[t]).op = "lock",
           NEW g \in Guard, g = [task |-> t, mode |-> Head(todo[t]).mode],
           NEW l \in Locks, l = Head(todo[t]).lock,
           place'[t] \in {"ready", "running"}, todo'[t] = Tail(todo[t]),
           Guards(t, l)' = Guards(t, l) \cup {g},
           \A k \in Locks \ {l} : Guards(t, k)' = Guards(t, k)
    PROVE  /\ TaskInv(t)'
           /\ todo'[t] \in Seq(StepType)
           /\ Unnumbered(todo'[t]) <=> Unnumbered(todo[t])
           /\ ~Numbered(todo'[t]) /\ ~Numbered(todo[t])
<1> DEFINE q == todo[t]
<1>1. Left(q)
  BY DEF TaskInv
<1>2. /\ Tail(q) \in Seq(StepType)
      /\ Left(Tail(q))
      /\ ~AsksState(Tail(q))
      /\ ~Numbered(Tail(q))
      /\ Head(q).lock = "hubs" => Tail(q) # <<>> /\ Head(Tail(q)).op = "leave"
      /\ Tail(q) = Tail(Starting) => Head(q).lock = "state" /\ Head(q).mode = "write"
      /\ Unnumbered(Tail(q)) <=> Unnumbered(q)
  BY <1>1, AfterLock
<1>3. ~Numbered(q)
  <2> SUFFICES ASSUME NEW n \in TestId, q = <<Record(n)>>
               PROVE  FALSE
    BY DEF Numbered
  <2>1. Head(q) = Record(n)
    OBVIOUS
  <2> QED
    BY <2>1 DEF Record
<1>4. Guards(t, "hubs") = {}
  BY DEF TaskInv
<1>5. Guards(t, "hubs")' # {} => Head(q).lock = "hubs"
  BY <1>4 DEF Locks
<1>6. TaskInv(t)'
  <2>1. Tail(q) = Tail(Starting) =>
            [task |-> t, mode |-> "write"] \in Guards(t, "state")'
    BY <1>2
  <2> QED
    BY <1>2, <1>5, <2>1 DEF TaskInv
<1> QED
  BY <1>2, <1>3, <1>6

-----------------------------------------------------------------------------
(* The tasks that run and those that start a test.                         *)

LEMMA StartsFinite ==
    /\ IsFiniteSet(Starts) /\ Cardinality(Starts) \in Nat
    /\ IsFiniteSet(Running) /\ Cardinality(Running) \in Nat
<1>1. Starts \in SUBSET Tasks /\ Running \in SUBSET Tasks
  BY DEF Starts, Running
<1> QED
  BY <1>1, FS_Subset, FS_CardinalityType, LocksAssumption

\* A start has a step that numbers it, and nothing else has.
LEMMA NumberIsInStarts ==
    ASSUME NEW q \in Seq(StepType), Left(q)
    PROVE  (\E i \in 1..Len(q) : q[i].op = "number") <=> Unnumbered(q)
<1>1. q \in Seq(StepType)
  OBVIOUS
<1>2. CASE HubPart(q)
  BY <1>2, NumberOnlyInStarts DEF HubPart, StepOfHubPart, Unnumbered
<1>3. CASE AsksState(q) /\ HubPart(Tail(q))
  <2>1. ~Unnumbered(q)
    BY <1>3, NumberOnlyInStarts DEF Unnumbered
  <2>2. ASSUME NEW i \in 1..Len(q)
        PROVE  q[i].op # "number"
    <3>1. CASE i = 1
      BY <1>1, <1>3, <3>1 DEF AsksState
    <3>2. CASE i # 1
      <4>1. i - 1 \in 1..Len(Tail(q)) /\ Tail(q)[i - 1] = q[i]
        BY <1>1, <3>2
      <4> QED
        BY <1>3, <4>1 DEF HubPart, StepOfHubPart
    <3> QED
      BY <3>1, <3>2
  <2> QED
    BY <2>1, <2>2
<1>4. CASE Unnumbered(q)
  <2>1. CASE q = Starting
    <3>1. 2 \in 1..Len(q) /\ q[2].op = "number"
      BY <2>1, StartingSteps DEF Number
    <3> QED
      BY <1>4, <3>1
  <2>2. CASE q = Tail(Starting)
    <3>1. 1 \in 1..Len(q) /\ q[1].op = "number"
      BY <2>2, StartingSteps DEF Number
    <3> QED
      BY <1>4, <3>1
  <2> QED
    BY <1>4, <2>1, <2>2 DEF Unnumbered
<1>5. CASE Numbered(q)
  <2>1. PICK n \in TestId : q = <<Record(n)>>
    BY <1>5 DEF Numbered
  <2>2. \A i \in 1..Len(q) : q[i].op # "number"
    BY <2>1 DEF Record
  <2>3. ~Unnumbered(q)
    BY <2>1, StartingSteps DEF Unnumbered
  <2> QED
    BY <2>2, <2>3
<1> QED
  BY <1>2, <1>3, <1>4, <1>5 DEF Left

LEMMA StartsAreUnderWay ==
    ASSUME LockTypes, \A t \in Tasks : Left(todo[t])
    PROVE  StartsUnderWay = Starts
<1>1. ASSUME NEW t \in Tasks
      PROVE  t \in StartsUnderWay <=> t \in Starts
  <2>1. todo[t] \in Seq(StepType)
    BY DEF LockTypes
  <2>2. (\E i \in 1..Len(todo[t]) : todo[t][i].op = "number") <=> Unnumbered(todo[t])
    BY <2>1, NumberIsInStarts
  <2> QED
    BY <2>2, Zenon DEF StartsUnderWay, Starts
<1>2. StartsUnderWay \subseteq Tasks /\ Starts \subseteq Tasks
  BY DEF StartsUnderWay, Starts
<1> QED
  BY <1>1, <1>2

-----------------------------------------------------------------------------
(* Guards are given up.                                                    *)

\* The guards of lock l that stay when task t gives up its guards of `locks`,
\* those that are let in, and whether task u is among their tasks.
Kept(t, locks, l) ==
    IF l \in locks THEN {g \in held[l] : g.task # t} ELSE held[l]
Count(t, locks, l) == LetIn(Kept(t, locks, l), queue[l])
Woken(t, locks, l) == {queue[l][i] : i \in 1..Count(t, locks, l)}
IsWoken(t, locks, u) == \E l \in Locks : \E g \in Woken(t, locks, l) : g.task = u

LEMMA DropSays ==
    ASSUME NEW t, NEW locks, NEW rest, NEW where, Drop(t, locks, rest, where)
    PROVE  /\ held' = [l \in Locks |-> Kept(t, locks, l) \cup Woken(t, locks, l)]
           /\ queue' = [l \in Locks |-> SubSeq(queue[l], Count(t, locks, l) + 1,
                                               Len(queue[l]))]
           /\ place' = [u \in Tasks |-> IF u = t THEN where
                                        ELSE IF IsWoken(t, locks, u) THEN "ready"
                                        ELSE place[u]]
           /\ todo' = [u \in Tasks |-> IF u = t THEN rest
                                       ELSE IF IsWoken(t, locks, u) THEN Tail(todo[u])
                                       ELSE todo[u]]
<1> DEFINE kept == [l \in Locks |-> IF l \in locks
                                    THEN {g \in held[l] : g.task # t} ELSE held[l]]
           count == [l \in Locks |-> LetIn(kept[l], queue[l])]
           woken == [l \in Locks |-> {queue[l][i] : i \in 1..count[l]}]
           isWoken(u) == \E l \in Locks : \E g \in woken[l] : g.task = u
<1>1. /\ held' = [l \in Locks |-> kept[l] \cup woken[l]]
      /\ queue' = [l \in Locks |-> SubSeq(queue[l], count[l] + 1, Len(queue[l]))]
      /\ place' = [u \in Tasks |-> IF u = t THEN where
                                   ELSE IF isWoken(u) THEN "ready" ELSE place[u]]
      /\ todo' = [u \in Tasks |-> IF u = t THEN rest
                                  ELSE IF isWoken(u) THEN Tail(todo[u]) ELSE todo[u]]
  BY DEF Drop, DropAnd
<1>2. \A l \in Locks : kept[l] = Kept(t, locks, l)
  BY DEF Kept
<1>3. \A l \in Locks : count[l] = Count(t, locks, l)
  BY <1>2 DEF Count
<1>4. \A l \in Locks : woken[l] = Woken(t, locks, l)
  BY <1>3 DEF Woken
<1>5. \A u \in Tasks : isWoken(u) <=> IsWoken(t, locks, u)
  BY <1>4 DEF IsWoken
<1> HIDE DEF kept, count, woken, isWoken
<1> QED
  BY <1>1, <1>2, <1>3, <1>4, <1>5

\* Those let in were waiting at the head of the queue of the one lock each of
\* them asks for.
LEMMA WokenWaited ==
    ASSUME LocksInv, NEW t \in Tasks, NEW locks \in SUBSET Locks, NEW l \in Locks
    PROVE  /\ Kept(t, locks, l) \in SUBSET Guard
           /\ Count(t, locks, l) \in 0..Len(queue[l])
           /\ Woken(t, locks, l) \in SUBSET Guard
           /\ Exclusive(Kept(t, locks, l) \cup Woken(t, locks, l))
           /\ \A g \in Woken(t, locks, l) : Waits(g, l)
           /\ \A g, h \in Woken(t, locks, l) : g.task = h.task => g = h
<1>1. held[l] \in SUBSET Guard /\ queue[l] \in Seq(Guard)
  BY DEF LocksInv, LockTypes
<1>2. Kept(t, locks, l) \in SUBSET Guard /\ Exclusive(Kept(t, locks, l))
  <2>1. Exclusive(held[l])
    BY DEF LocksInv
  <2>2. Kept(t, locks, l) \subseteq held[l]
    BY DEF Kept
  <2> QED
    BY <1>1, <2>1, <2>2 DEF Exclusive
<1>3. /\ Count(t, locks, l) \in 0..Len(queue[l])
      /\ Exclusive(Kept(t, locks, l) \cup Woken(t, locks, l))
  BY <1>1, <1>2, LetInExclusive DEF Count, Woken
<1>4. Woken(t, locks, l) \in SUBSET Guard
  BY <1>1, <1>3 DEF Woken
<1>5. QueueInv(l)
  BY DEF LocksInv
<1>6. ASSUME NEW g \in Woken(t, locks, l)
      PROVE  Waits(g, l)
  <2>1. PICK i \in 1..Len(queue[l]) : g = queue[l][i]
    BY <1>1, <1>3 DEF Woken
  <2> QED
    BY <1>5, <2>1 DEF QueueInv
<1>7. ASSUME NEW g \in Woken(t, locks, l), NEW h \in Woken(t, locks, l),
             g.task = h.task
      PROVE  g = h
  <2>1. PICK i \in 1..Len(queue[l]) : g = queue[l][i]
    BY <1>1, <1>3 DEF Woken
  <2>2. PICK j \in 1..Len(queue[l]) : h = queue[l][j]
    BY <1>1, <1>3 DEF Woken
  <2>3. i = j
    BY <1>5, <1>7, <2>1, <2>2 DEF QueueInv
  <2> QED
    BY <2>1, <2>2, <2>3
<1> QED
  BY <1>2, <1>3, <1>4, <1>6, <1>7

\* Task t gives up its guards, at least those of the hubs, and goes on with a
\* part or is done.
Dropping(t, locks, rest, where) ==
    /\ place[t] = "running"
    /\ HubPart(todo[t])
    /\ "hubs" \in locks
    /\ rest \in Seq(StepType) /\ HubPart(rest)
    /\ where \in {"running", "reading"}
    /\ where = "reading" => rest = <<>> /\ locks = Locks
    /\ Drop(t, locks, rest, where)

LEMMA DropTask ==
    ASSUME LocksInv, NEW t \in Tasks, NEW locks \in SUBSET Locks, NEW rest, NEW where,
           Dropping(t, locks, rest, where)
    PROVE  /\ TaskInv(t)'
           /\ todo'[t] = rest /\ place'[t] = where
           /\ ~IsWoken(t, locks, t)
<1>1. ASSUME NEW l \in Locks, NEW g \in Woken(t, locks, l)
      PROVE  g.task # t
  <2>1. Waits(g, l)
    BY WokenWaited
  <2> QED
    BY <2>1 DEF Waits, Dropping
<1>2. ~IsWoken(t, locks, t)
  BY <1>1 DEF IsWoken
<1>3. \A l \in locks : Guards(t, l)' = {}
  BY <1>1, DropSays DEF Dropping, Guards, Kept
<1>4. todo'[t] = rest /\ place'[t] = where
  BY DropSays DEF Dropping
<1>5. ~AsksState(rest) /\ rest # Tail(Starting) /\ ~Numbered(rest)
  BY NumberOnlyInStarts DEF Dropping, Numbered
<1>6. TaskInv(t)'
  <2>1. /\ Guards(t, "hubs")' = {}
        /\ where = "reading" => rest = <<>> /\ Guards(t, "state")' = {}
    BY <1>3 DEF Dropping, Locks
  <2>2. Left(rest)
    BY DEF Dropping, Left
  <2> QED
    BY <1>4, <1>5, <2>1, <2>2 DEF TaskInv, Dropping
<1> QED
  BY <1>2, <1>4, <1>6

LEMMA DropOthers ==
    ASSUME LocksInv, NEW t \in Tasks, NEW locks \in SUBSET Locks, NEW rest, NEW where,
           Dropping(t, locks, rest, where), NEW u \in Tasks, u # t
    PROVE  /\ TaskInv(u)'
           /\ todo'[u] \in Seq(StepType)
           /\ Unnumbered(todo'[u]) <=> Unnumbered(todo[u])
           /\ Numbered(todo'[u]) \/ Numbered(todo[u]) => todo'[u] = todo[u]
           /\ place'[u] = "running" <=> place[u] = "running"
<1>0. TaskInv(u) /\ todo[u] \in Seq(StepType)
  BY DEF LocksInv, LockTypes
<1>1. \A l \in Locks : Guards(u, l)' =
          Guards(u, l) \cup {g \in Woken(t, locks, l) : g.task = u}
  BY DropSays DEF Dropping, Guards, Kept
<1>2. CASE IsWoken(t, locks, u)
  <2>1. PICK l \in Locks : \E g \in Woken(t, locks, l) : g.task = u
    BY <1>2 DEF IsWoken
  <2>2. PICK g \in Woken(t, locks, l) : g.task = u
    BY <2>1
  <2>3. Waits(g, l) /\ g \in Guard
    BY <2>2, WokenWaited
  <2>4. {h \in Woken(t, locks, l) : h.task = u} = {g}
    <3>1. \A h \in Woken(t, locks, l) : h.task = u => h = g
      BY <2>2, WokenWaited
    <3> QED
      BY <2>2, <3>1
  <2>5. ASSUME NEW k \in Locks \ {l}
        PROVE  {h \in Woken(t, locks, k) : h.task = u} = {}
    <3>1. ASSUME NEW h \in Woken(t, locks, k), h.task = u
          PROVE  FALSE
      <4>1. Waits(h, k)
        BY WokenWaited
      <4> QED
        BY <2>2, <2>3, <3>1, <4>1 DEF Waits
    <3> QED
      BY <3>1
  <2>6. /\ todo[u] # <<>> /\ Head(todo[u]).op = "lock" /\ Head(todo[u]).lock = l
        /\ place[u] = "waiting" /\ Head(todo[u]).mode = g.mode
    BY <2>2, <2>3 DEF Waits
  <2>7. g = [task |-> u, mode |-> Head(todo[u]).mode]
    BY <2>2, <2>3, <2>6 DEF Guard
  <2>8. place'[u] = "ready" /\ todo'[u] = Tail(todo[u])
    BY <1>2, DropSays DEF Dropping
  <2>9. Guards(u, l)' = Guards(u, l) \cup {g}
    BY <1>1, <2>4
  <2>10. \A k \in Locks \ {l} : Guards(u, k)' = Guards(u, k)
    BY <1>1, <2>5
  <2> QED
    BY <1>0, <2>3, <2>6, <2>7, <2>8, <2>9, <2>10, TaskTakesLock
<1>3. CASE ~IsWoken(t, locks, u)
  <2>1. place'[u] = place[u] /\ todo'[u] = todo[u]
    BY <1>3, DropSays DEF Dropping
  <2>2. \A l \in Locks : Guards(u, l)' = Guards(u, l)
    BY <1>1, <1>3 DEF IsWoken
  <2> QED
    BY <1>0, <2>1, <2>2, TaskUnaffected
<1> QED
  BY <1>2, <1>3

LEMMA DropQueues ==
    ASSUME LocksInv, NEW t \in Tasks, NEW locks \in SUBSET Locks, NEW rest, NEW where,
           Dropping(t, locks, rest, where), NEW l \in Locks
    PROVE  queue'[l] \in Seq(Guard) /\ QueueInv(l)'
<1>1. PICK q \in Seq(Guard) : q = queue[l]
  BY DEF LocksInv, LockTypes
<1>2. PICK c \in 0..Len(q) : c = Count(t, locks, l)
  BY <1>1, WokenWaited
<1>3. queue'[l] = SubSeq(q, c + 1, Len(q))
  BY <1>1, <1>2, DropSays DEF Dropping
<1>4. PICK n \in Nat : n = Len(q) /\ c <= n
  BY <1>1, <1>2
<1>5. /\ queue'[l] \in Seq(Guard)
      /\ Len(queue'[l]) = n - c
      /\ \A i \in 1..(n - c) : queue'[l][i] = q[c + i]
  BY <1>1, <1>2, <1>3, <1>4
<1>6. /\ \A i \in 1..n : q[i] \in Guard /\ Waits(q[i], l)
      /\ \A i, j \in 1..n : i # j => q[i].task # q[j].task
  <2>1. QueueInv(l)
    BY DEF LocksInv
  <2>2. \A i \in 1..n : q[i] \in Guard
    BY <1>1, <1>4
  <2> QED
    BY <1>1, <1>4, <2>1, <2>2 DEF QueueInv
<1>7. ASSUME NEW i \in (c + 1)..n
      PROVE  Waits(q[i], l)'
  <2>1. i \in 1..n
    BY <1>2, <1>4
  <2>2. q[i] \in Guard /\ Waits(q[i], l)
    BY <1>6, <2>1
  <2>3. PICK u \in Tasks : u = q[i].task
    BY <2>2 DEF Guard
  <2>4. u # t
    BY <2>2, <2>3 DEF Waits, Dropping
  <2>5. ASSUME NEW k \in Locks, NEW g \in Woken(t, locks, k), g.task = u
        PROVE  FALSE
    <3>1. Waits(g, k)
      BY WokenWaited
    <3>2. k = l
      BY <2>2, <2>3, <2>5, <3>1 DEF Waits
    <3>3. g \in {q[j] : j \in 1..c}
      BY <1>1, <1>2, <3>2 DEF Woken
    <3>4. PICK j \in 1..c : g = q[j]
      BY <3>3
    <3>5. j \in 1..n /\ j # i
      BY <1>2, <1>4
    <3>6. q[j].task # q[i].task
      BY <1>6, <2>1, <3>5
    <3> QED
      BY <2>3, <2>5, <3>4, <3>6
  <2>6. ~IsWoken(t, locks, u)
    BY <2>5 DEF IsWoken
  <2>7. place'[u] = place[u] /\ todo'[u] = todo[u]
    BY <2>4, <2>6, DropSays DEF Dropping
  <2> QED
    BY <2>2, <2>3, <2>7 DEF Waits
<1>8. PICK r \in Seq(Guard) : r = queue'[l]
  BY <1>5
<1>9. \A i \in 1..Len(r) : c + i \in (c + 1)..n /\ r[i] = q[c + i]
  BY <1>2, <1>4, <1>5, <1>8
<1>10. ASSUME NEW i \in 1..Len(r)
       PROVE  Waits(r[i], l)'
  <2>1. Waits(q[c + i], l)'
    BY <1>7, <1>9
  <2>2. q[c + i] = r[i]
    BY <1>9
  <2> QED
    BY <2>1, <2>2 DEF Waits
<1>11. ASSUME NEW i \in 1..Len(r), NEW j \in 1..Len(r), i # j
       PROVE  r[i].task # r[j].task
  <2>1. PICK x \in 1..n : x = c + i /\ r[i] = q[x]
    BY <1>2, <1>4, <1>9
  <2>2. PICK y \in 1..n : y = c + j /\ r[j] = q[y]
    BY <1>2, <1>4, <1>9
  <2>3. x # y
    BY <1>2, <1>11, <2>1, <2>2
  <2> QED
    BY <1>6, <2>1, <2>2, <2>3
<1>12. QueueInv(l)'
  BY <1>8, <1>10, <1>11 DEF QueueInv, Waits
<1> QED
  BY <1>5, <1>12

LEMMA DropKeepsInv ==
    ASSUME IInv, NEW t \in Tasks, NEW locks \in SUBSET Locks, NEW rest, NEW where,
           Dropping(t, locks, rest, where), registry' = registry
    PROVE  IInv'
<1>0. LocksInv
  BY DEF IInv
<1>1. /\ held' = [l \in Locks |-> Kept(t, locks, l) \cup Woken(t, locks, l)]
      /\ place' = [u \in Tasks |-> IF u = t THEN where
                                   ELSE IF IsWoken(t, locks, u) THEN "ready"
                                   ELSE place[u]]
      /\ todo' = [u \in Tasks |-> IF u = t THEN rest
                                  ELSE IF IsWoken(t, locks, u) THEN Tail(todo[u])
                                  ELSE todo[u]]
      /\ queue' = [l \in Locks |-> SubSeq(queue[l], Count(t, locks, l) + 1,
                                          Len(queue[l]))]
  BY DropSays DEF Dropping
<1>2. /\ TaskInv(t)' /\ todo'[t] = rest /\ place'[t] = where
  BY <1>0, DropTask
<1>3. \A u \in Tasks : TaskInv(u)' /\ todo'[u] \in Seq(StepType)
  BY <1>0, <1>2, DropOthers DEF Dropping
<1>4. LockTypes'
  <2>1. place' \in [Tasks -> {"reading", "ready", "running", "waiting"}]
    BY <1>0, <1>1 DEF LocksInv, LockTypes, Dropping
  <2>2. todo' \in [Tasks -> Seq(StepType)]
    BY <1>1, <1>3
  <2>3. held' \in [Locks -> SUBSET Guard]
    BY <1>0, <1>1, WokenWaited
  <2>4. queue' \in [Locks -> Seq(Guard)]
    BY <1>0, <1>1, DropQueues
  <2> QED
    BY <2>1, <2>2, <2>3, <2>4 DEF LockTypes
<1>5. \A l \in Locks : QueueInv(l)' /\ Exclusive(held[l])'
  <2>1. ASSUME NEW l \in Locks
        PROVE  Exclusive(held'[l])
    BY <1>0, <1>1, WokenWaited
  <2> QED
    BY <1>0, <2>1, DropQueues DEF Exclusive
<1>6. LocksInv'
  BY <1>3, <1>4, <1>5 DEF LocksInv
<1>7. Starts' = Starts
  <2>1. ~Unnumbered(rest) /\ ~Unnumbered(todo[t])
    BY NumberOnlyInStarts DEF Dropping, Unnumbered
  <2>2. \A u \in Tasks : Unnumbered(todo'[u]) <=> Unnumbered(todo[u])
    BY <1>0, <1>2, <2>1, DropOthers
  <2> QED
    BY <2>2 DEF Starts
<1>8. Cardinality(Running') <= Workers
  <2>1. \A u \in Tasks : place'[u] = "running" => place[u] = "running"
    BY <1>0, <1>2, DropOthers DEF Dropping
  <2>2. Running' \subseteq Running
    BY <2>1 DEF Running
  <2>3. Cardinality(Running') <= Cardinality(Running) /\ Cardinality(Running') \in Nat
    BY <2>2, StartsFinite, FS_Subset, FS_CardinalityType
  <2> QED
    BY <2>3, StartsFinite, LocksAssumption DEF IInv, CountInv
<1>9. ASSUME NEW u \in Tasks, NEW n \in TestId, todo'[u] = <<Record(n)>>
      PROVE  n = test_counter
  <2>1. Numbered(todo'[u])
    BY <1>9 DEF Numbered
  <2>2. u # t
    BY <1>2, <1>9, NumberOnlyInStarts DEF Dropping
  <2>3. todo[u] = <<Record(n)>>
    BY <1>0, <1>9, <2>1, <2>2, DropOthers
  <2> QED
    BY <2>3 DEF IInv, CountInv
<1>10. CountInv'
  <2>1. role' = role /\ test_counter' = test_counter /\ tests' = tests
            /\ restarts' = restarts
    BY DEF registry
  <2> QED
    BY <1>7, <1>8, <1>9, <2>1 DEF IInv, CountInv, RegistryTypeOK
<1> QED
  BY <1>6, <1>10 DEF IInv

-----------------------------------------------------------------------------
(* The actions.                                                            *)

\* Task t goes on, and no other; what it gets or gives up are its guards.
LEMMA OneTask ==
    ASSUME LocksInv, NEW t \in Tasks, place[t] # "waiting",
           place' \in [Tasks -> {"reading", "ready", "running", "waiting"}],
           todo' \in [Tasks -> Seq(StepType)],
           \A u \in Tasks \ {t} : place'[u] = place[u] /\ todo'[u] = todo[u],
           held' \in [Locks -> SUBSET Guard],
           \A l \in Locks : Exclusive(held'[l]),
           \A l \in Locks : \A u \in Tasks \ {t} : Guards(u, l)' = Guards(u, l),
           queue' = queue, TaskInv(t)'
    PROVE  LocksInv'
<1>1. LockTypes'
  BY DEF LocksInv, LockTypes
<1>2. ASSUME NEW u \in Tasks
      PROVE  TaskInv(u)'
  <2>1. CASE u = t
    BY <2>1
  <2>2. CASE u # t
    <3>1. /\ TaskInv(u) /\ place'[u] = place[u] /\ todo'[u] = todo[u]
          /\ \A l \in Locks : Guards(u, l)' = Guards(u, l)
      BY <2>2 DEF LocksInv
    <3> QED
      BY <3>1, TaskUnaffected
  <2> QED
    BY <2>1, <2>2
<1>3. ASSUME NEW l \in Locks
      PROVE  QueueInv(l)'
  <2>1. PICK q \in Seq(Guard) : q = queue[l] /\ q = queue'[l]
    BY DEF LocksInv, LockTypes
  <2>2. QueueInv(l)
    BY DEF LocksInv
  <2>3. ASSUME NEW i \in 1..Len(q)
        PROVE  Waits(q[i], l)'
    <3>1. Waits(q[i], l) /\ q[i] \in Guard
      BY <2>1, <2>2 DEF QueueInv
    <3>2. PICK u \in Tasks : u = q[i].task
      BY <3>1 DEF Guard
    <3>3. u # t
      BY <3>1, <3>2 DEF Waits
    <3> QED
      BY <3>1, <3>2, <3>3 DEF Waits
  <2>4. \A i, j \in 1..Len(q) : i # j => q[i].task # q[j].task
    BY <2>1, <2>2 DEF QueueInv
  <2> QED
    BY <2>1, <2>3, <2>4 DEF QueueInv, Waits
<1>4. \A l \in Locks : Exclusive(held[l])'
  BY DEF Exclusive
<1> QED
  BY <1>1, <1>2, <1>3, <1>4 DEF LocksInv

\* A step that starts no test and takes no worker.
LEMMA CountStays ==
    ASSUME CountInv, RegistryTypeOK', test_counter' = test_counter,
           \A u \in Tasks : place'[u] = "running" => place[u] = "running",
           \A u \in Tasks : Unnumbered(todo'[u]) => Unnumbered(todo[u]),
           \A u \in Tasks : \A n \in TestId :
               todo'[u] = <<Record(n)>> => todo[u] = <<Record(n)>>
    PROVE  CountInv'
<1>1. Running' \subseteq Running /\ Starts' \subseteq Starts
  BY DEF Running, Starts
<1>2. PICK a \in Nat, b \in Nat, c \in Nat, d \in Nat :
          /\ a = Cardinality(Running) /\ b = Cardinality(Running')
          /\ c = Cardinality(Starts) /\ d = Cardinality(Starts')
          /\ b <= a /\ d <= c
  <2>1. /\ Cardinality(Running) \in Nat /\ Cardinality(Running') \in Nat
        /\ Cardinality(Running') <= Cardinality(Running)
    BY <1>1, StartsFinite, FS_Subset, FS_CardinalityType
  <2>2. /\ Cardinality(Starts) \in Nat /\ Cardinality(Starts') \in Nat
        /\ Cardinality(Starts') <= Cardinality(Starts)
    BY <1>1, StartsFinite, FS_Subset, FS_CardinalityType
  <2> QED
    BY <2>1, <2>2
<1>3. a <= Workers /\ test_counter + c <= MaxTests /\ test_counter \in Nat
  BY <1>2, RegistryBounds DEF CountInv, RegistryTypeOK
<1>4. b <= Workers /\ test_counter + d <= MaxTests
  BY <1>2, <1>3, LocksAssumption, RegistryBounds
<1> QED
  BY <1>2, <1>4 DEF CountInv

LEMMA ReceiveKeepsInv ==
    ASSUME IInv, NEW t \in Tasks, NEW r \in Commands \cup HubRequests, Receive(t, r)
    PROVE  IInv'
<1>0. LocksInv /\ LockTypes /\ TaskInv(t)
  BY DEF IInv, LocksInv
<1>1. /\ Program(r) \in Seq(StepType) /\ Left(Program(r))
      /\ \/ Program(r) = Starting /\ r \in Commands /\ r.method = "test_start"
         \/ ~Unnumbered(Program(r)) /\ ~Numbered(Program(r))
  BY ProgramsAreLeft
<1>2. /\ place[t] = "reading" /\ place' = [place EXCEPT ![t] = "ready"]
      /\ todo' = [todo EXCEPT ![t] = Program(r)]
      /\ held' = held /\ queue' = queue
  BY DEF Receive
<1>3. /\ place' \in [Tasks -> {"reading", "ready", "running", "waiting"}]
      /\ todo' \in [Tasks -> Seq(StepType)]
      /\ place'[t] = "ready" /\ todo'[t] = Program(r)
      /\ \A u \in Tasks \ {t} : place'[u] = place[u] /\ todo'[u] = todo[u]
  BY <1>0, <1>1, <1>2 DEF LockTypes
<1>4. \A l \in Locks : \A u \in Tasks : Guards(u, l)' = Guards(u, l)
  BY <1>2 DEF Guards
<1>5. Guards(t, "state") = {} /\ Guards(t, "hubs") = {}
  BY <1>0, <1>2 DEF TaskInv
<1>6. TaskInv(t)'
  <2>1. Guards(t, "state")' = {} /\ Guards(t, "hubs")' = {}
    BY <1>4, <1>5 DEF Locks
  <2>2. Program(r) # Tail(Starting) /\ ~Numbered(Program(r))
    <3>1. ~Numbered(Starting) /\ Starting # Tail(Starting)
      BY StartingSteps DEF Numbered
    <3> QED
      BY <1>1, <3>1 DEF Unnumbered
  <2> QED
    BY <1>1, <1>3, <2>1, <2>2 DEF TaskInv
<1>7. LocksInv'
  <2>1. /\ held' \in [Locks -> SUBSET Guard]
        /\ \A l \in Locks : Exclusive(held'[l])
    BY <1>0, <1>2 DEF LockTypes, LocksInv
  <2> QED
    BY <1>0, <1>2, <1>3, <1>4, <1>6, <2>1, OneTask
<1>8. ASSUME NEW u \in Tasks, NEW n \in TestId, todo'[u] = <<Record(n)>>
      PROVE  todo[u] = <<Record(n)>>
  <2>1. ~Numbered(Program(r))
    <3>1. ~Numbered(Starting)
      BY StartingSteps DEF Numbered
    <3> QED
      BY <1>1, <3>1
  <2> QED
    BY <1>3, <1>8, <2>1 DEF Numbered
<1>9. \A u \in Tasks : place'[u] = "running" => place[u] = "running"
  BY <1>3
<1>10. RegistryTypeOK' /\ test_counter' = test_counter
  BY DEF Receive, registry, IInv, CountInv, RegistryTypeOK
<1>11. CASE ~Unnumbered(Program(r))
  <2>1. \A u \in Tasks : Unnumbered(todo'[u]) => Unnumbered(todo[u])
    BY <1>3, <1>11
  <2>2. \A u \in Tasks : \A n \in TestId :
            todo'[u] = <<Record(n)>> => todo[u] = <<Record(n)>>
    BY <1>8
  <2>3. CountInv
    BY DEF IInv
  <2> QED
    BY <1>7, <1>9, <1>10, <2>1, <2>2, <2>3, CountStays, Zenon DEF IInv
<1>12. CASE Program(r) = Starting /\ r.method = "test_start"
  <2>1. test_counter + Cardinality(Starts) < MaxTests
    <3>1. StartsUnderWay = Starts
      BY <1>0, StartsAreUnderWay DEF LocksInv, TaskInv
    <3> QED
      BY <1>12, <3>1 DEF Receive
  <2>2. Starts' = Starts \cup {t}
    <3>1. Unnumbered(todo'[t])
      BY <1>3, <1>12 DEF Unnumbered
    <3>2. \A u \in Tasks \ {t} : Unnumbered(todo'[u]) <=> Unnumbered(todo[u])
      BY <1>3
    <3> QED
      BY <3>1, <3>2 DEF Starts
  <2>3. Cardinality(Starts') <= Cardinality(Starts) + 1 /\ Cardinality(Starts') \in Nat
    <3>1. Cardinality(Starts \cup {t}) \in {Cardinality(Starts), Cardinality(Starts) + 1}
      BY StartsFinite, FS_AddElement
    <3> QED
      BY <2>2, <3>1, StartsFinite
  <2>4. test_counter + Cardinality(Starts') <= MaxTests
    BY <2>1, <2>3, StartsFinite, RegistryBounds DEF IInv, CountInv, RegistryTypeOK
  <2>5. Cardinality(Running') <= Workers
    <3>1. Running' = Running
      <4>1. \A u \in Tasks : place'[u] = "running" <=> place[u] = "running"
        BY <1>2, <1>3
      <4> QED
        BY <4>1 DEF Running
    <3> QED
      BY <3>1 DEF IInv, CountInv
  <2>6. \A u \in Tasks : \A n \in TestId : todo'[u] = <<Record(n)>> => n = test_counter'
    BY <1>8, <1>10 DEF IInv, CountInv
  <2>7. test_counter' + Cardinality(Starts') <= MaxTests
    BY <1>10, <2>4
  <2> QED
    BY <1>7, <1>10, <2>5, <2>6, <2>7, Zenon DEF CountInv, IInv
<1> QED
  BY <1>1, <1>11, <1>12

LEMMA ScheduleKeepsInv ==
    ASSUME IInv, NEW t \in Tasks, Schedule(t)
    PROVE  IInv'
<1>0. LocksInv /\ LockTypes /\ TaskInv(t)
  BY DEF IInv, LocksInv
<1>1. /\ place[t] = "ready" /\ place' = [place EXCEPT ![t] = "running"]
      /\ todo' = todo /\ held' = held /\ queue' = queue
  BY DEF Schedule
<1>2. /\ place' \in [Tasks -> {"reading", "ready", "running", "waiting"}]
      /\ place'[t] = "running"
      /\ \A u \in Tasks \ {t} : place'[u] = place[u] /\ todo'[u] = todo[u]
  BY <1>0, <1>1 DEF LockTypes
<1>3. \A l \in Locks : \A u \in Tasks : Guards(u, l)' = Guards(u, l)
  BY <1>1 DEF Guards
<1>4. TaskInv(t)'
  BY <1>0, <1>1, <1>2, <1>3 DEF TaskInv, Locks
<1>5. LocksInv'
  <2>1. /\ held' \in [Locks -> SUBSET Guard] /\ todo' \in [Tasks -> Seq(StepType)]
        /\ \A l \in Locks : Exclusive(held'[l])
    BY <1>0, <1>1 DEF LockTypes, LocksInv
  <2> QED
    BY <1>0, <1>1, <1>2, <1>3, <1>4, <2>1, OneTask
<1>6. Cardinality(Running') <= Workers
  <2>1. Running' = Running \cup {t}
    BY <1>2 DEF Running
  <2>2. Cardinality(Running) < Workers
    BY DEF Schedule, Running
  <2>3. Cardinality(Running \cup {t}) \in {Cardinality(Running), Cardinality(Running) + 1}
    BY StartsFinite, FS_AddElement
  <2> QED
    BY <2>1, <2>2, <2>3, StartsFinite, LocksAssumption
<1>7. CountInv'
  <2>1. /\ RegistryTypeOK' /\ test_counter' = test_counter
    BY DEF Schedule, registry, IInv, CountInv, RegistryTypeOK
  <2>2. Starts' = Starts
    BY <1>1 DEF Starts
  <2> QED
    BY <1>1, <1>6, <2>1, <2>2 DEF IInv, CountInv
<1> QED
  BY <1>5, <1>7 DEF IInv

\* What the first step of a task that runs is.
LEMMA LockStep ==
    ASSUME LocksInv, NEW t \in Tasks, At(t, "lock")
    PROVE  /\ todo[t] \in Seq(StepType) /\ todo[t] # <<>>
           /\ Head(todo[t]).op = "lock"
           /\ Head(todo[t]).lock \in Locks
           /\ [task |-> t, mode |-> Head(todo[t]).mode] \in Guard
<1>1. todo[t] \in Seq(StepType) /\ todo[t] # <<>> /\ Head(todo[t]).op = "lock"
  BY DEF LocksInv, LockTypes, At
<1>2. PICK s \in StepType : s = Head(todo[t])
  BY <1>1
<1>3. s.op = "lock"
  BY <1>1, <1>2
<1>4. s.lock \in Locks /\ s.mode \in {"read", "write"}
  BY <1>3 DEF StepType
<1> QED
  BY <1>1, <1>2, <1>4 DEF Guard

\* The lock is free for the task.
LEMMA TakeKeepsInv ==
    ASSUME IInv, NEW t \in Tasks, At(t, "lock"),
           NEW l \in Locks, l = Head(todo[t]).lock,
           NEW g \in Guard, g = [task |-> t, mode |-> Head(todo[t]).mode],
           IsFree(l, g.mode), held' = [held EXCEPT ![l] = @ \cup {g}], Advance(t),
           place' = place, queue' = queue, registry' = registry
    PROVE  IInv'
<1>0. LocksInv /\ LockTypes /\ TaskInv(t) /\ place[t] = "running"
  BY DEF IInv, LocksInv, At
<1>1. /\ todo[t] \in Seq(StepType) /\ todo[t] # <<>> /\ Head(todo[t]).op = "lock"
  BY <1>0, LockStep
<1>2. /\ todo'[t] = Tail(todo[t]) /\ todo' \in [Tasks -> Seq(StepType)]
      /\ \A u \in Tasks \ {t} : place'[u] = place[u] /\ todo'[u] = todo[u]
  BY <1>0, <1>1 DEF Advance, LockTypes
<1>3. /\ held'[l] = held[l] \cup {g} /\ held' \in [Locks -> SUBSET Guard]
      /\ \A k \in Locks \ {l} : held'[k] = held[k]
  BY <1>0 DEF LockTypes
<1>4. /\ Guards(t, l)' = Guards(t, l) \cup {g}
      /\ \A k \in Locks \ {l} : Guards(t, k)' = Guards(t, k)
      /\ \A k \in Locks : \A u \in Tasks \ {t} : Guards(u, k)' = Guards(u, k)
  BY <1>3 DEF Guards
<1>5. /\ TaskInv(t)'
      /\ Unnumbered(todo'[t]) <=> Unnumbered(todo[t])
      /\ ~Numbered(todo'[t])
  BY <1>0, <1>1, <1>2, <1>4, TaskTakesLock
<1>6. Exclusive(held'[l])
  <2>1. held[l] = {} \/ \A h \in held[l] \cup {g} : h.mode = "read"
    <3>1. g.mode \in {"read", "write"}
      BY DEF Guard
    <3> QED
      BY <3>1 DEF IsFree, Admits
  <2> QED
    BY <1>3, <2>1 DEF Exclusive
<1>7. \A k \in Locks : Exclusive(held'[k])
  BY <1>0, <1>3, <1>6 DEF LocksInv
<1>8. LocksInv'
  BY <1>0, <1>2, <1>3, <1>4, <1>5, <1>7, OneTask DEF LockTypes
<1>9. CountInv'
  <2>1. CountInv /\ RegistryTypeOK' /\ test_counter' = test_counter
    BY DEF IInv, CountInv, registry, RegistryTypeOK
  <2>2. \A u \in Tasks : Unnumbered(todo'[u]) => Unnumbered(todo[u])
    BY <1>2, <1>5
  <2>3. \A u \in Tasks : \A n \in TestId :
            todo'[u] = <<Record(n)>> => todo[u] = <<Record(n)>>
    BY <1>2, <1>5 DEF Numbered
  <2>4. \A u \in Tasks : place'[u] = "running" => place[u] = "running"
    OBVIOUS
  <2> QED
    BY <2>1, <2>2, <2>3, <2>4, CountStays, Zenon
<1> QED
  BY <1>8, <1>9 DEF IInv

LEMMA NewQueue ==
    ASSUME NEW l \in Locks, NEW q \in Seq(Guard), q = queue'[l],
           \A i \in 1..Len(q) : Waits(q[i], l)',
           \A i, j \in 1..Len(q) : i # j => q[i].task # q[j].task
    PROVE  QueueInv(l)'
  BY DEF QueueInv, Waits

\* The lock is not free for the task, which joins the queue.
LEMMA QueueKeepsInv ==
    ASSUME IInv, NEW t \in Tasks, At(t, "lock"),
           NEW l \in Locks, l = Head(todo[t]).lock,
           NEW g \in Guard, g = [task |-> t, mode |-> Head(todo[t]).mode],
           queue' = [queue EXCEPT ![l] = Append(@, g)],
           place' = [place EXCEPT ![t] = "waiting"],
           todo' = todo, held' = held, registry' = registry
    PROVE  IInv'
<1>0. LocksInv /\ LockTypes /\ TaskInv(t) /\ place[t] = "running"
  BY DEF IInv, LocksInv, At
<1>1. /\ todo[t] \in Seq(StepType) /\ todo[t] # <<>> /\ Head(todo[t]).op = "lock"
  BY <1>0, LockStep
<1>2. /\ place' \in [Tasks -> {"reading", "ready", "running", "waiting"}]
      /\ place'[t] = "waiting" /\ \A u \in Tasks \ {t} : place'[u] = place[u]
  BY <1>0 DEF LockTypes
<1>3. PICK q \in Seq(Guard) : q = queue[l]
  BY <1>0 DEF LockTypes
<1>4. PICK r \in Seq(Guard) : r = Append(q, g)
  <2>1. Append(q, g) \in Seq(Guard)
    OBVIOUS
  <2> QED
    BY <2>1
<1>5. /\ Len(q) \in Nat /\ Len(r) = Len(q) + 1 /\ r[Len(q) + 1] = g
      /\ \A i \in 1..Len(q) : r[i] = q[i] /\ r[i] \in Guard
  BY <1>4
<1>6. /\ queue'[l] = r /\ queue' \in [Locks -> Seq(Guard)]
      /\ \A k \in Locks \ {l} : queue'[k] = queue[k]
  BY <1>0, <1>3, <1>4 DEF LockTypes
<1>7. LockTypes'
  BY <1>0, <1>2, <1>6 DEF LockTypes
<1>8. ASSUME NEW u \in Tasks
      PROVE  TaskInv(u)'
  <2>1. TaskInv(u) /\ \A k \in Locks : Guards(u, k)' = Guards(u, k)
    BY <1>0 DEF LocksInv, Guards
  <2>2. place'[u] = place[u] \/ place'[u] = "waiting"
    BY <1>2
  <2> QED
    BY <2>1, <2>2 DEF TaskInv, Locks
<1>9. ASSUME NEW h \in Guard, NEW k \in Locks, Waits(h, k)
      PROVE  Waits(h, k)' /\ h.task # t
  <2>1. h.task # t /\ h.task \in Tasks
    BY <1>0, <1>9 DEF Waits, Guard
  <2> QED
    BY <1>2, <1>9, <2>1 DEF Waits
<1>10. Waits(g, l)'
  BY <1>1, <1>2 DEF Waits
<1>11. ASSUME NEW k \in Locks \ {l}
       PROVE  QueueInv(k)'
  <2>1. PICK s \in Seq(Guard) : s = queue[k] /\ s = queue'[k]
    BY <1>0, <1>6 DEF LockTypes
  <2>2. \A i \in 1..Len(s) : s[i] \in Guard /\ Waits(s[i], k)
    <3>1. \A i \in 1..Len(s) : s[i] \in Guard
      OBVIOUS
    <3> QED
      BY <1>0, <2>1, <3>1 DEF LocksInv, QueueInv
  <2>3. \A i \in 1..Len(s) : Waits(s[i], k)'
    BY <1>9, <2>2
  <2>4. \A i, j \in 1..Len(s) : i # j => s[i].task # s[j].task
    BY <1>0, <2>1 DEF LocksInv, QueueInv
  <2> QED
    BY <2>1, <2>3, <2>4, NewQueue
<1>12. QueueInv(l)'
  <2>1. \A i \in 1..Len(q) : q[i] \in Guard /\ Waits(q[i], l)
    <3>1. \A i \in 1..Len(q) : q[i] \in Guard
      OBVIOUS
    <3> QED
      BY <1>0, <1>3, <3>1 DEF LocksInv, QueueInv
  <2>2. \A i \in 1..Len(q) : Waits(q[i], l)' /\ q[i].task # t
    BY <1>9, <2>1
  <2>3. \A i, j \in 1..Len(q) : i # j => q[i].task # q[j].task
    BY <1>0, <1>3 DEF LocksInv, QueueInv
  <2>4. \A i \in 1..Len(r) : i \in 1..Len(q) \/ i = Len(q) + 1
    BY <1>5
  <2>5. ASSUME NEW i \in 1..Len(r)
        PROVE  Waits(r[i], l)'
    <3>1. CASE i \in 1..Len(q)
      <4>1. r[i] = q[i] /\ Waits(q[i], l)'
        BY <1>5, <2>2, <3>1
      <4> QED
        BY <4>1 DEF Waits
    <3>2. CASE i = Len(q) + 1
      <4>1. r[i] = g
        BY <1>5, <3>2
      <4> QED
        BY <1>10, <4>1 DEF Waits
    <3> QED
      BY <2>4, <3>1, <3>2
  <2>6. ASSUME NEW i \in 1..Len(r), NEW j \in 1..Len(r), i # j
        PROVE  r[i].task # r[j].task
    <3>1. g.task = t
      OBVIOUS
    <3>2. CASE i \in 1..Len(q) /\ j \in 1..Len(q)
      BY <1>5, <2>3, <2>6, <3>2
    <3>3. CASE i \in 1..Len(q) /\ j = Len(q) + 1
      <4>1. r[i] = q[i] /\ r[j] = g
        BY <1>5, <3>3
      <4> QED
        BY <2>2, <3>1, <3>3, <4>1
    <3>4. CASE i = Len(q) + 1 /\ j \in 1..Len(q)
      <4>1. r[j] = q[j] /\ r[i] = g
        BY <1>5, <3>4
      <4> QED
        BY <2>2, <3>1, <3>4, <4>1
    <3> QED
      BY <2>4, <2>6, <3>2, <3>3, <3>4
  <2>7. r = queue'[l]
    BY <1>6
  <2>8. \A i, j \in 1..Len(r) : i # j => r[i].task # r[j].task
    BY <2>6
  <2>9. \A i \in 1..Len(r) : Waits(r[i], l)'
    BY <2>5
  <2> QED
    BY <2>7, <2>8, <2>9, NewQueue, Zenon
<1>13. LocksInv'
  <2>1. \A k \in Locks : QueueInv(k)' /\ Exclusive(held[k])'
    BY <1>0, <1>11, <1>12 DEF LocksInv, Exclusive
  <2> QED
    BY <1>7, <1>8, <2>1 DEF LocksInv
<1>14. CountInv'
  <2>1. CountInv /\ RegistryTypeOK' /\ test_counter' = test_counter
    BY DEF IInv, CountInv, registry, RegistryTypeOK
  <2>2. \A u \in Tasks : place'[u] = "running" => place[u] = "running"
    BY <1>2
  <2> QED
    BY <2>1, <2>2, CountStays
<1> QED
  BY <1>13, <1>14 DEF IInv

LEMMA AcquireKeepsInv ==
    ASSUME IInv, NEW t \in Tasks, Acquire(t)
    PROVE  IInv'
<1>1. At(t, "lock") /\ registry' = registry
  BY DEF Acquire
<1>2. PICK l \in Locks, g \in Guard :
          l = Head(todo[t]).lock /\ g = [task |-> t, mode |-> Head(todo[t]).mode]
  BY <1>1, LockStep DEF IInv
<1>3. \/ /\ IsFree(l, g.mode)
         /\ held' = [held EXCEPT ![l] = @ \cup {g}]
         /\ Advance(t)
         /\ place' = place /\ queue' = queue
      \/ /\ queue' = [queue EXCEPT ![l] = Append(@, g)]
         /\ place' = [place EXCEPT ![t] = "waiting"]
         /\ todo' = todo /\ held' = held
  BY <1>2 DEF Acquire
<1> QED
  BY <1>1, <1>2, <1>3, TakeKeepsInv, QueueKeepsInv

\* A task that runs and is in no section of the hubs goes on with a part.
LEMMA PartGoesOn ==
    ASSUME IInv, NEW t \in Tasks, place[t] = "running", Head(todo[t]).op # "leave",
           NEW s \in Seq(StepType), HubPart(s), todo' = [todo EXCEPT ![t] = s],
           place' = place, held' = held, queue' = queue,
           RegistryTypeOK', test_counter' = test_counter
    PROVE  IInv'
<1>0. LocksInv /\ LockTypes /\ TaskInv(t)
  BY DEF IInv, LocksInv
<1>1. /\ todo'[t] = s /\ todo' \in [Tasks -> Seq(StepType)]
      /\ \A u \in Tasks \ {t} : place'[u] = place[u] /\ todo'[u] = todo[u]
  BY <1>0 DEF LockTypes
<1>2. \A l \in Locks : \A u \in Tasks : Guards(u, l)' = Guards(u, l)
  BY DEF Guards
<1>3. ~AsksState(s) /\ ~Unnumbered(s) /\ ~Numbered(s)
  BY NumberOnlyInStarts DEF Unnumbered, Numbered
<1>4. TaskInv(t)'
  <2>1. Guards(t, "hubs")' = {}
    BY <1>0, <1>2 DEF TaskInv, Locks
  <2>2. Left(s)
    BY DEF Left
  <2> QED
    BY <1>1, <1>3, <2>1, <2>2 DEF TaskInv, Unnumbered
<1>5. LocksInv'
  <2>1. /\ place' \in [Tasks -> {"reading", "ready", "running", "waiting"}]
        /\ held' \in [Locks -> SUBSET Guard]
        /\ \A l \in Locks : Exclusive(held'[l])
    BY <1>0 DEF LockTypes, LocksInv
  <2> QED
    BY <1>0, <1>1, <1>2, <1>4, <2>1, OneTask
<1>6. CountInv'
  <2>1. CountInv
    BY DEF IInv
  <2>2. \A u \in Tasks : Unnumbered(todo'[u]) => Unnumbered(todo[u])
    BY <1>1, <1>3
  <2>3. \A u \in Tasks : \A n \in TestId :
            todo'[u] = <<Record(n)>> => todo[u] = <<Record(n)>>
    BY <1>1, <1>3 DEF Numbered
  <2>4. \A u \in Tasks : place'[u] = "running" => place[u] = "running"
    OBVIOUS
  <2> QED
    BY <2>1, <2>2, <2>3, <2>4, CountStays, Zenon
<1> QED
  BY <1>5, <1>6 DEF IInv

\* A step that fails ends the handler, but for the release of a rollback.
LEMMA FailureIsAPart ==
    ASSUME NEW s \in StepType, s.op \in {"leave", "run"}, s.fail # "never"
    PROVE  OnFailure(s.fail) \in Seq(StepType) /\ HubPart(OnFailure(s.fail))
<1>1. OnFailure(s.fail) = Releasing \/ OnFailure(s.fail) = <<>>
  BY DEF OnFailure
<1> QED
  BY <1>1, PartsOfHandlers

LEMMA CommandKeepsInv ==
    ASSUME IInv, NEW t \in Tasks, CommandReturns(t)
    PROVE  IInv'
<1>1. /\ todo[t] \in Seq(StepType) /\ todo[t] # <<>> /\ Left(todo[t])
      /\ Head(todo[t]).op = "run" /\ place[t] = "running"
  BY DEF CommandReturns, At, IInv, LocksInv, LockTypes, TaskInv
<1>2. PICK s \in StepType : s = Head(todo[t])
  BY <1>1
<1>3. Tail(todo[t]) \in Seq(StepType) /\ HubPart(Tail(todo[t]))
  BY <1>1, FirstSteps
<1>4. PICK rest \in Seq(StepType) :
          HubPart(rest) /\ todo' = [todo EXCEPT ![t] = rest]
  <2>1. CASE Advance(t)
    BY <1>3, <2>1 DEF Advance
  <2>2. CASE s.fail # "never" /\ todo' = [todo EXCEPT ![t] = OnFailure(s.fail)]
    BY <1>1, <1>2, <2>2, FailureIsAPart
  <2> QED
    BY <1>2, <2>1, <2>2 DEF CommandReturns
<1>5. /\ place' = place /\ held' = held /\ queue' = queue
      /\ RegistryTypeOK' /\ test_counter' = test_counter
  BY DEF CommandReturns, registry, IInv, CountInv, RegistryTypeOK
<1> QED
  BY <1>1, <1>4, <1>5, PartGoesOn

LEMMA PerformKeepsInv ==
    ASSUME IInv, NEW t \in Tasks, PerformRequest(t)
    PROVE  IInv'
<1>1. /\ todo[t] \in Seq(StepType) /\ todo[t] # <<>> /\ Left(todo[t])
      /\ Head(todo[t]).op = "perform" /\ place[t] = "running"
  BY DEF PerformRequest, At, IInv, LocksInv, LockTypes, TaskInv
<1>2. PICK r : r = Head(todo[t]).request
  OBVIOUS
<1>3. /\ HubPart(todo[t])
      /\ Tail(todo[t]) \in Seq(StepType) /\ HubPart(Tail(todo[t]))
  BY <1>1, FirstSteps
<1>4. r \in Requests /\ r.method # "test_start"
  <2>1. StepOfHubPart(todo[t], 1) /\ Head(todo[t]) = todo[t][1]
    <3>1. 1 \in 1..Len(todo[t]) /\ Head(todo[t]) = todo[t][1]
      BY <1>1
    <3> QED
      BY <1>3, <3>1 DEF HubPart
  <2>2. PICK s \in StepType : s = Head(todo[t])
    BY <1>1
  <2>3. s.request \in Requests
    BY <1>1, <2>2 DEF StepType
  <2> QED
    BY <1>1, <1>2, <2>1, <2>2, <2>3 DEF StepOfHubPart
<1>5. Execute(r) /\ RegistryTypeOK
  BY <1>2 DEF PerformRequest, IInv, CountInv
<1>6. RegistryTypeOK'
  BY <1>4, <1>5, ExecuteKeepsTypes
<1>7. test_counter' = test_counter
  BY <1>4, <1>5 DEF Execute, Abort, SetRole, registry
<1>8. /\ todo' = [todo EXCEPT ![t] = Tail(todo[t])]
      /\ place' = place /\ held' = held /\ queue' = queue
  BY DEF PerformRequest, Advance
<1> QED
  BY <1>1, <1>3, <1>6, <1>7, <1>8, PartGoesOn

\* The record that a start writes.
LEMMA RecordStep ==
    ASSUME IInv, NEW t \in Tasks, RecordTest(t)
    PROVE  /\ todo[t] = <<Record(test_counter)>> /\ test_counter \in TestId
           /\ tests' = [tests EXCEPT ![test_counter] = StartedTest]
           /\ todo' = [todo EXCEPT ![t] = <<>>]
<1>1. /\ todo[t] \in Seq(StepType) /\ todo[t] # <<>> /\ Left(todo[t])
      /\ Head(todo[t]).op = "record"
  BY DEF RecordTest, At, IInv, LocksInv, LockTypes, TaskInv
<1>2. PICK n \in TestId : todo[t] = <<Record(n)>>
  BY <1>1, FirstSteps DEF Numbered
<1>3. n = test_counter
  BY <1>2 DEF IInv, CountInv
<1>4. Head(todo[t]) = Record(n) /\ Tail(todo[t]) = <<>>
  BY <1>2
<1>5. Head(todo[t]).test = n
  BY <1>4 DEF Record
<1> QED
  BY <1>2, <1>3, <1>4, <1>5 DEF RecordTest, Advance

LEMMA RecordKeepsInv ==
    ASSUME IInv, NEW t \in Tasks, RecordTest(t)
    PROVE  IInv'
<1>1. /\ place[t] = "running" /\ Head(todo[t]).op # "leave"
      /\ place' = place /\ held' = held /\ queue' = queue
      /\ role' = role /\ test_counter' = test_counter /\ restarts' = restarts
  BY DEF RecordTest, At
<1>2. /\ tests' = [tests EXCEPT ![test_counter] = StartedTest]
      /\ todo' = [todo EXCEPT ![t] = <<>>]
  BY RecordStep
<1>3. RegistryTypeOK'
  <2>1. StartedTest \in Test
    BY DEF StartedTest, Test, TestStatus
  <2> QED
    BY <1>1, <1>2, <2>1 DEF RegistryTypeOK, IInv, CountInv
<1>4. <<>> \in Seq(StepType) /\ HubPart(<<>>)
  BY PartsOfHandlers
<1> QED
  BY <1>1, <1>2, <1>3, <1>4, PartGoesOn

LEMMA LeaveDrops ==
    ASSUME IInv, NEW t \in Tasks, LeaveSection(t)
    PROVE  \E locks \in SUBSET Locks : \E rest : Dropping(t, locks, rest, "running")
<1>1. /\ todo[t] \in Seq(StepType) /\ todo[t] # <<>> /\ Left(todo[t])
      /\ Head(todo[t]).op = "leave" /\ place[t] = "running"
  BY DEF LeaveSection, At, IInv, LocksInv, LockTypes, TaskInv
<1>2. PICK s \in StepType : s = Head(todo[t])
  BY <1>1
<1>3. /\ HubPart(todo[t])
      /\ Tail(todo[t]) \in Seq(StepType) /\ HubPart(Tail(todo[t]))
  BY <1>1, FirstSteps
<1>4. s.lock = "hubs"
  <2>1. 1 \in 1..Len(todo[t]) /\ Head(todo[t]) = todo[t][1]
    BY <1>1
  <2> QED
    BY <1>1, <1>2, <1>3, <2>1 DEF HubPart, StepOfHubPart
<1>5. PICK rest \in Seq(StepType) :
          HubPart(rest) /\ Drop(t, {"hubs"}, rest, "running")
  <2>1. CASE Drop(t, {s.lock}, Tail(todo[t]), "running")
    BY <1>3, <1>4, <2>1
  <2>2. CASE s.fail # "never" /\ Drop(t, {s.lock}, OnFailure(s.fail), "running")
    BY <1>1, <1>2, <1>4, <2>2, FailureIsAPart
  <2> QED
    BY <1>2, <2>1, <2>2 DEF LeaveSection
<1>6. Dropping(t, {"hubs"}, rest, "running")
  BY <1>1, <1>3, <1>5 DEF Dropping
<1>7. {"hubs"} \in SUBSET Locks
  BY DEF Locks
<1> QED
  BY <1>6, <1>7

LEMMA LeaveKeepsInv ==
    ASSUME IInv, NEW t \in Tasks, LeaveSection(t)
    PROVE  IInv'
<1>1. PICK locks \in SUBSET Locks : \E rest : Dropping(t, locks, rest, "running")
  BY LeaveDrops
<1>2. PICK rest : Dropping(t, locks, rest, "running")
  BY <1>1
<1>3. registry' = registry
  BY DEF LeaveSection
<1> QED
  BY <1>2, <1>3, DropKeepsInv

LEMMA RespondDrops ==
    ASSUME NEW t \in Tasks, Respond(t)
    PROVE  Dropping(t, Locks, <<>>, "reading")
<1>1. <<>> \in Seq(StepType) /\ HubPart(<<>>)
  BY PartsOfHandlers
<1> QED
  BY <1>1 DEF Respond, Dropping, Locks

LEMMA RespondKeepsInv ==
    ASSUME IInv, NEW t \in Tasks, Respond(t)
    PROVE  IInv'
<1>1. registry' = registry
  BY DEF Respond
<1> QED
  BY <1>1, RespondDrops, DropKeepsInv

\* Whoever has the guard of a start is the only one in it.
LEMMA OneStart ==
    ASSUME LocksInv, NEW t \in Tasks, NEW u \in Tasks,
           todo[t] = Tail(Starting) \/ Numbered(todo[t]),
           todo[u] = Tail(Starting) \/ Numbered(todo[u])
    PROVE  t = u
<1> DEFINE g == [task |-> t, mode |-> "write"]
           h == [task |-> u, mode |-> "write"]
<1>1. g \in held["state"] /\ h \in held["state"]
  <2>1. g \in Guards(t, "state") /\ h \in Guards(u, "state")
    BY DEF LocksInv, TaskInv
  <2> QED
    BY <2>1 DEF Guards
<1>2. Exclusive(held["state"])
  BY DEF LocksInv, Locks
<1>3. g = h
  BY <1>1, <1>2 DEF Exclusive
<1> QED
  BY <1>3

\* The number that a start takes.
LEMMA NumberStep ==
    ASSUME IInv, NEW t \in Tasks, NumberTest(t)
    PROVE  /\ todo[t] = Tail(Starting) /\ NextTest \in TestId
           /\ todo' = [todo EXCEPT ![t] = <<Record(NextTest)>>]
           /\ test_counter' = test_counter + 1 /\ test_counter \in Nat
           /\ test_counter + 1 + Cardinality(Starts \ {t}) <= MaxTests
<1>1. /\ todo[t] \in Seq(StepType) /\ todo[t] # <<>> /\ Left(todo[t])
      /\ Head(todo[t]).op = "number"
  BY DEF NumberTest, At, IInv, LocksInv, LockTypes, TaskInv
<1>2. todo[t] = Tail(Starting)
  BY <1>1, FirstSteps
<1>3. /\ todo[t] = <<Number, Record(0)>> /\ Len(todo[t]) = 2
      /\ todo[t][2] = Record(0)
  BY <1>2, StartingSteps
<1>4. [i \in 1..(Len(todo[t]) - 1) |->
           IF todo[t][i + 1].op = "record" THEN Record(NextTest) ELSE todo[t][i + 1]]
          = <<Record(NextTest)>>
  <2>1. \A i \in 1..1 : todo[t][i + 1].op = "record"
    BY <1>3 DEF Record
  <2>2. Len(todo[t]) - 1 = 1
    BY <1>3
  <2>3. [i \in 1..1 |->
             IF todo[t][i + 1].op = "record" THEN Record(NextTest) ELSE todo[t][i + 1]]
            = [i \in 1..1 |-> Record(NextTest)]
    BY <2>1
  <2>4. [i \in 1..1 |-> Record(NextTest)] = <<Record(NextTest)>>
    OBVIOUS
  <2> QED
    BY <2>2, <2>3, <2>4
<1>5. todo' = [todo EXCEPT ![t] = <<Record(NextTest)>>]
  BY <1>4 DEF NumberTest
<1>6. test_counter' = test_counter + 1 /\ test_counter \in Nat
  BY RegistryBounds DEF NumberTest, NextTest, IInv, CountInv, RegistryTypeOK
<1>7. t \in Starts
  BY <1>2 DEF Starts, Unnumbered
<1>8. Cardinality(Starts \ {t}) = Cardinality(Starts) - 1 /\ Cardinality(Starts \ {t}) \in Nat
  <2>1. IsFiniteSet(Starts)
    BY StartsFinite
  <2>2. /\ IsFiniteSet(Starts \ {t})
        /\ Cardinality(Starts \ {t}) = Cardinality(Starts) - 1
    BY <1>7, <2>1, FS_RemoveElement
  <2> QED
    BY <2>2, FS_CardinalityType
<1>9. test_counter + 1 + Cardinality(Starts \ {t}) <= MaxTests
  BY <1>6, <1>8, StartsFinite, RegistryBounds DEF IInv, CountInv
<1>10. NextTest \in TestId
  BY <1>6, <1>8, <1>9, RegistryBounds DEF NextTest, TestId
<1> QED
  BY <1>2, <1>5, <1>6, <1>9, <1>10

LEMMA NumberKeepsInv ==
    ASSUME IInv, NEW t \in Tasks, NumberTest(t)
    PROVE  IInv'
<1>0. LocksInv /\ LockTypes /\ TaskInv(t)
  BY DEF IInv, LocksInv
<1>1. /\ todo[t] = Tail(Starting)
      /\ todo' = [todo EXCEPT ![t] = <<Record(NextTest)>>]
      /\ test_counter' = test_counter + 1 /\ test_counter \in Nat
      /\ test_counter + 1 + Cardinality(Starts \ {t}) <= MaxTests
  BY NumberStep
<1>2. PICK n \in TestId : n = NextTest /\ n = test_counter + 1
  BY NumberStep DEF NextTest
<1>3. <<Record(n)>> \in Seq(StepType) /\ Numbered(<<Record(n)>>)
  BY <1>2, StepsAreSteps DEF Numbered
<1>4. /\ todo'[t] = <<Record(n)>> /\ todo' \in [Tasks -> Seq(StepType)]
      /\ \A u \in Tasks \ {t} : todo'[u] = todo[u]
  BY <1>0, <1>1, <1>2, <1>3 DEF LockTypes
<1>5. /\ place[t] = "running" /\ place' = place /\ held' = held /\ queue' = queue
      /\ role' = role /\ tests' = tests /\ restarts' = restarts
  BY DEF NumberTest, At
<1>6. \A l \in Locks : \A u \in Tasks : Guards(u, l)' = Guards(u, l)
  BY <1>5 DEF Guards
<1>7. TaskInv(t)'
  <2>1. [task |-> t, mode |-> "write"] \in Guards(t, "state")
    BY <1>0, <1>1 DEF TaskInv
  <2>2. Left(<<Record(n)>>)
    <3>1. \E r \in Commands : r.method = "test_start"
      BY <1>0, <1>1, NumberOnlyInStarts DEF TaskInv, Left
    <3> QED
      BY <1>3, <3>1 DEF Left
  <2>3. Guards(t, "hubs")' = {}
    <3>1. Head(todo[t]).op # "leave"
      BY <1>1, StartingSteps DEF Number
    <3> QED
      BY <1>0, <1>6, <3>1 DEF TaskInv, Locks
  <2>4. ~AsksState(<<Record(n)>>)
    BY NumberOnlyInStarts
  <2>5. Guards(t, "state")' = Guards(t, "state")
    BY <1>6 DEF Locks
  <2> QED
    BY <1>4, <1>5, <2>1, <2>2, <2>3, <2>4, <2>5 DEF TaskInv
<1>8. LocksInv'
  <2>1. /\ place' \in [Tasks -> {"reading", "ready", "running", "waiting"}]
        /\ held' \in [Locks -> SUBSET Guard]
        /\ \A l \in Locks : Exclusive(held'[l])
    BY <1>0, <1>5 DEF LockTypes, LocksInv
  <2> QED
    BY <1>0, <1>4, <1>5, <1>6, <1>7, <2>1, OneTask
<1>9. Starts' = Starts \ {t}
  <2>1. ~Unnumbered(todo'[t])
    <3>1. Len(todo'[t]) = 1
      BY <1>4
    <3>2. Len(Starting) # 1 /\ Len(Tail(Starting)) # 1
      BY StartingSteps
    <3> QED
      BY <3>1, <3>2, Zenon DEF Unnumbered
  <2>2. \A u \in Tasks \ {t} : Unnumbered(todo'[u]) <=> Unnumbered(todo[u])
    BY <1>4
  <2> QED
    BY <2>1, <2>2 DEF Starts
<1>10. test_counter' + Cardinality(Starts') <= MaxTests
  BY <1>1, <1>9
<1>11. ASSUME NEW u \in Tasks, NEW m \in TestId, todo'[u] = <<Record(m)>>
       PROVE  m = test_counter'
  <2>1. u = t
    <3>1. CASE u # t
      <4>1. Numbered(todo[u])
        BY <1>4, <1>11, <3>1 DEF Numbered
      <4> QED
        BY <1>0, <1>1, <3>1, <4>1, OneStart
    <3> QED
      BY <3>1
  <2>2. Record(m) = Record(n)
    BY <1>4, <1>11, <2>1
  <2>3. m = n
    BY <2>2 DEF Record
  <2> QED
    BY <1>1, <1>2, <2>3
<1>12. RegistryTypeOK'
  <2>1. test_counter' \in 0..MaxTests
    BY <1>1, <1>2, RegistryBounds DEF TestId
  <2> QED
    BY <1>5, <2>1 DEF RegistryTypeOK, IInv, CountInv
<1>13. Cardinality(Running') <= Workers
  <2>1. Running' = Running
    BY <1>5 DEF Running
  <2> QED
    BY <2>1 DEF IInv, CountInv
<1>14. CountInv'
  BY <1>10, <1>11, <1>12, <1>13 DEF CountInv
<1> QED
  BY <1>8, <1>14 DEF IInv

LEMMA InitInv == Init => IInv
<1> SUFFICES ASSUME Init PROVE IInv
  OBVIOUS
<1>1. RegistryTypeOK
  BY RegistryBounds DEF Init, RegistryInit, RegistryTypeOK
<1>2. /\ \A t \in Tasks : place[t] = "reading" /\ todo[t] = <<>>
      /\ \A l \in Locks : held[l] = {} /\ queue[l] = <<>>
  BY DEF Init
<1>3. LockTypes
  BY DEF Init, LockTypes
<1>4. HubPart(<<>>) /\ ~AsksState(<<>>) /\ <<>> # Tail(Starting)
          /\ ~Unnumbered(<<>>) /\ ~Numbered(<<>>)
  <2>1. HubPart(<<>>) /\ <<>> \in Seq(StepType)
    BY PartsOfHandlers
  <2> QED
    BY <2>1, NumberOnlyInStarts DEF Numbered, Unnumbered
<1>5. \A t \in Tasks : TaskInv(t)
  <2>1. \A t \in Tasks : \A l \in Locks : Guards(t, l) = {}
    BY <1>2 DEF Guards
  <2> QED
    BY <1>2, <1>4, <2>1 DEF TaskInv, Left, Locks
<1>6. \A l \in Locks : QueueInv(l) /\ Exclusive(held[l])
  BY <1>2 DEF QueueInv, Exclusive
<1>7. Running = {} /\ Starts = {}
  BY <1>2, <1>4 DEF Running, Starts
<1>8. CountInv
  <2>1. Cardinality({}) = 0
    BY FS_EmptySet
  <2>2. test_counter = 0
    BY DEF Init, RegistryInit
  <2>3. \A t \in Tasks : \A n \in TestId : todo[t] # <<Record(n)>>
    BY <1>2, <1>4 DEF Numbered
  <2> QED
    BY <1>1, <1>7, <2>1, <2>2, <2>3, LocksAssumption, RegistryBounds DEF CountInv
<1> QED
  BY <1>3, <1>5, <1>6, <1>8 DEF IInv, LocksInv

LEMMA StepKeepsInv == IInv /\ [Next]_vars => IInv'
<1> SUFFICES ASSUME IInv, [Next]_vars PROVE IInv'
  OBVIOUS
<1>1. CASE UNCHANGED vars
  BY <1>1 DEF vars, registry, locking, IInv, LocksInv, LockTypes, TaskInv, Guards,
              QueueInv, Waits, Exclusive, CountInv, RegistryTypeOK, Running, Starts
<1>2. CASE Next
  <2>1. PICK t \in Tasks : \/ \E r \in Commands \cup HubRequests : Receive(t, r)
                           \/ Schedule(t) \/ Step(t) \/ CommandReturns(t)
    BY <1>2 DEF Next
  <2>2. CASE Step(t)
    BY <2>2, AcquireKeepsInv, LeaveKeepsInv, PerformKeepsInv, NumberKeepsInv,
       RecordKeepsInv, RespondKeepsInv DEF Step
  <2> QED
    BY <2>1, <2>2, ReceiveKeepsInv, ScheduleKeepsInv, CommandKeepsInv
<1> QED
  BY <1>1, <1>2

LEMMA InvTypes == IInv => TypeOK
  BY DEF IInv, LocksInv, LockTypes, CountInv, TypeOK, Running

\* What the tasks have left, hold and wait for is of its kind, no more tasks
\* run than there are workers, and no test has a number past the bound.
THEOREM TypeCorrect == Spec => []TypeOK
  BY InitInv, StepKeepsInv, InvTypes, PTL DEF Spec

-----------------------------------------------------------------------------
(* No circle of tasks.  A task that waits for a section of the hubs waits  *)
(* for tasks in such a section, which are about to leave it, or for tasks  *)
(* before it; one that waits for the state holds nothing.  So of tasks     *)
(* that wait, the first one in the queue of the hubs waits for none of     *)
(* the others, or, when none is in that queue, the first in the other.     *)

IsQueued(t, l) == \E i \in 1..Len(queue[l]) : queue[l][i].task = t

\* The first of S in a queue, when no task of S holds the lock.
LEMMA FirstInQueue ==
    ASSUME LocksInv, NEW S \in SUBSET Tasks, NEW l \in Locks,
           \E t \in S : IsQueued(t, l), \A u \in S : Guards(u, l) = {}
    PROVE  \E t \in S : Blockers(t) \cap S = {}
<1>1. PICK q \in Seq(Guard) : q = queue[l]
  BY DEF LocksInv, LockTypes
<1> DEFINE T == {i \in 1..Len(q) : q[i].task \in S}
<1>2. PICK m \in T : \A i \in T : m <= i
  <2>1. T \in SUBSET Nat /\ T # {}
    BY <1>1 DEF IsQueued
  <2> HIDE DEF T
  <2> QED
    BY <2>1, SmallestNumber
<1>3. PICK t \in S : t = q[m].task /\ m \in 1..Len(q)
  OBVIOUS
<1>4. Waits(q[m], l)
  BY <1>1, <1>3 DEF LocksInv, QueueInv
<1>5. ASSUME NEW u \in S, u \in Blockers(t)
      PROVE  FALSE
  <2>0. PICK k \in Locks : \E i \in 1..Len(queue[k]) :
            /\ queue[k][i].task = t
            /\ \/ \E g \in held[k] : g.task = u
               \/ \E j \in 1..(i - 1) : queue[k][j].task = u
    BY <1>5 DEF Blockers
  <2>1. PICK i \in 1..Len(queue[k]) :
            /\ queue[k][i].task = t
            /\ \/ \E g \in held[k] : g.task = u
               \/ \E j \in 1..(i - 1) : queue[k][j].task = u
    BY <2>0
  <2>2. Waits(queue[k][i], k)
    BY DEF LocksInv, QueueInv
  <2>3. k = l
    BY <1>3, <1>4, <2>1, <2>2 DEF Waits
  <2>4. i \in 1..Len(q) /\ q[i].task = t
    BY <1>1, <2>1, <2>3
  <2>5. i = m
    BY <1>1, <1>3, <2>4 DEF LocksInv, QueueInv
  <2>6. ~\E g \in held[l] : g.task = u
    BY DEF Guards
  <2>7. PICK j \in 1..(m - 1) : q[j].task = u
    BY <1>1, <2>1, <2>3, <2>5, <2>6
  <2>8. j \in T /\ j < m
    BY <1>3, <2>7
  <2> QED
    BY <1>2, <1>3, <2>8
<1> QED
  BY <1>3, <1>5

LEMMA NoCircle == LocksInv => NoCircularWait
<1> SUFFICES ASSUME LocksInv, NEW S \in SUBSET Tasks, S # {},
                    \A t \in S : place[t] = "waiting" /\ Blockers(t) \cap S # {}
             PROVE  FALSE
  BY DEF NoCircularWait
<1>1. ASSUME NEW t \in S
      PROVE  \E l \in Locks : IsQueued(t, l)
  BY DEF Blockers, IsQueued
<1>2. ASSUME NEW t \in S, NEW l \in Locks, IsQueued(t, l)
      PROVE  /\ todo[t] # <<>> /\ Head(todo[t]).op = "lock"
             /\ Head(todo[t]).lock = l
  <2>1. PICK i \in 1..Len(queue[l]) : queue[l][i].task = t
    BY <1>2 DEF IsQueued
  <2> QED
    BY <2>1 DEF LocksInv, QueueInv, Waits
<1>3. \A t \in S : Guards(t, "hubs") = {}
  <2>1. \A t \in S : Head(todo[t]).op = "lock"
    BY <1>1, <1>2
  <2> QED
    BY <2>1 DEF LocksInv, TaskInv
<1>4. CASE \E t \in S : IsQueued(t, "hubs")
  BY <1>3, <1>4, FirstInQueue DEF Locks
<1>5. CASE ~\E t \in S : IsQueued(t, "hubs")
  <2>1. \A t \in S : IsQueued(t, "state")
    BY <1>1, <1>5 DEF Locks
  <2>2. \A t \in S : AsksState(todo[t])
    BY <1>2, <2>1 DEF AsksState, Locks
  <2>3. \A t \in S : Guards(t, "state") = {}
    BY <2>2 DEF LocksInv, TaskInv
  <2> QED
    BY <2>1, <2>3, FirstInQueue DEF Locks
<1> QED
  BY <1>4, <1>5

\* No handlers wait for one another in a circle: each takes the lock of the
\* state before that of the hubs, and waits for nothing in a section of the
\* hubs (handle_request, UsbHubManager).
THEOREM NoTasksInACircle == Spec => []NoCircularWait
<1>1. IInv => NoCircularWait
  BY NoCircle DEF IInv
<1> QED
  BY <1>1, InitInv, StepKeepsInv, PTL DEF Spec

-----------------------------------------------------------------------------
(* The registry.  A start whose number is given out but not recorded is    *)
(* the only one, so the registry of one-step handlers lags behind the      *)
(* counter by one as long as there is such a start.                        *)

IsUnrecorded(q) == \E i \in 1..Len(q) : q[i].op = "record" /\ q[i].test # 0

LEMMA UnrecordedIsNumbered ==
    ASSUME NEW q \in Seq(StepType), Left(q)
    PROVE  IsUnrecorded(q) <=> Numbered(q)
<1>1. CASE HubPart(q)
  <2>1. \A i \in 1..Len(q) : q[i].op # "record"
    BY <1>1 DEF HubPart, StepOfHubPart
  <2>2. ~Numbered(q)
    BY <1>1, NumberOnlyInStarts DEF Numbered
  <2> QED
    BY <2>1, <2>2 DEF IsUnrecorded
<1>2. CASE AsksState(q) /\ HubPart(Tail(q))
  <2>1. ASSUME NEW i \in 1..Len(q)
        PROVE  q[i].op # "record"
    <3>1. CASE i = 1
      BY <1>2, <3>1 DEF AsksState
    <3>2. CASE i # 1
      <4>1. i - 1 \in 1..Len(Tail(q)) /\ Tail(q)[i - 1] = q[i]
        BY <3>2
      <4> QED
        BY <1>2, <4>1 DEF HubPart, StepOfHubPart
    <3> QED
      BY <3>1, <3>2
  <2>2. ~Numbered(q)
    BY <1>2, NumberOnlyInStarts DEF Numbered
  <2> QED
    BY <2>1, <2>2 DEF IsUnrecorded
<1>3. CASE Unnumbered(q)
  <2>1. \A i \in 1..Len(q) : q[i].op = "record" => q[i].test = 0
    <3>1. CASE q = <<Lock("state", "write"), Number, Record(0)>>
      BY <3>1 DEF Lock, Number, Record
    <3>2. CASE q = <<Number, Record(0)>>
      BY <3>2 DEF Number, Record
    <3> QED
      BY <1>3, <3>1, <3>2, StartingSteps DEF Unnumbered
  <2>2. ~Numbered(q)
    <3>1. Len(q) # 1
      BY <1>3, StartingSteps DEF Unnumbered
    <3>2. \A n \in TestId : Len(<<Record(n)>>) = 1
      OBVIOUS
    <3> QED
      BY <3>1, <3>2, Zenon DEF Numbered
  <2> QED
    BY <2>1, <2>2 DEF IsUnrecorded
<1>4. CASE Numbered(q)
  <2>1. PICK n \in TestId : q = <<Record(n)>>
    BY <1>4 DEF Numbered
  <2>2. 1 \in 1..Len(q) /\ q[1] = Record(n) /\ n # 0
    BY <2>1, RegistryBounds DEF TestId
  <2>3. q[1].op = "record" /\ q[1].test # 0
    BY <2>2 DEF Record
  <2> QED
    BY <1>4, <2>2, <2>3 DEF IsUnrecorded
<1> QED
  BY <1>1, <1>2, <1>3, <1>4 DEF Left

LEMMA UnrecordedAre ==
    LocksInv => Unrecorded = {t \in Tasks : Numbered(todo[t])}
<1> SUFFICES ASSUME LocksInv PROVE Unrecorded = {t \in Tasks : Numbered(todo[t])}
  OBVIOUS
<1>1. \A t \in Tasks : IsUnrecorded(todo[t]) <=> Numbered(todo[t])
  BY UnrecordedIsNumbered DEF LocksInv, LockTypes, TaskInv
<1>2. Unrecorded = {t \in Tasks : IsUnrecorded(todo[t])}
  BY DEF Unrecorded, IsUnrecorded
<1> QED
  BY <1>1, <1>2

LEMMA UnrecordedAreThen ==
    LocksInv' => Unrecorded' = {t \in Tasks : Numbered(todo'[t])}
<1>1. (LocksInv => Unrecorded = {t \in Tasks : Numbered(todo[t])})'
  BY UnrecordedAre, PTL
<1> QED
  BY <1>1 DEF Numbered

\* A step that leaves the starts as they are.
LEMMA UnrecordedStays ==
    ASSUME LocksInv, LocksInv',
           \A u \in Tasks : Numbered(todo'[u]) <=> Numbered(todo[u])
    PROVE  Unrecorded' = Unrecorded
  BY UnrecordedAre, UnrecordedAreThen

\* The step of one task, which is in no start before it or after it.
LEMMA UnrecordedStaysFor ==
    ASSUME LocksInv, LocksInv', NEW t \in Tasks, NEW s,
           todo' = [todo EXCEPT ![t] = s], ~Numbered(s), ~Numbered(todo[t])
    PROVE  Unrecorded' = Unrecorded
<1>1. \A u \in Tasks : Numbered(todo'[u]) <=> Numbered(todo[u])
  BY DEF LocksInv, LockTypes
<1> QED
  BY <1>1, UnrecordedStays

LEMMA PartsAreNotNumbered ==
    /\ \A q : HubPart(q) => ~Numbered(q)
    /\ \A q : Head(q).op # "record" => ~Numbered(q)
    /\ ~Numbered(<<>>) /\ ~Numbered(Starting) /\ ~Numbered(Tail(Starting))
<1>1. \A q : HubPart(q) => ~Numbered(q)
  BY NumberOnlyInStarts DEF Numbered
<1>2. ASSUME NEW q, Numbered(q)
      PROVE  Head(q).op = "record"
  <2>1. PICK n \in TestId : q = <<Record(n)>>
    BY <1>2 DEF Numbered
  <2>2. Head(q) = Record(n)
    BY <2>1
  <2> QED
    BY <2>2 DEF Record
<1>3. HubPart(<<>>)
  BY PartsOfHandlers
<1>4. Head(Starting).op # "record" /\ Head(Tail(Starting)).op # "record"
  BY StartingSteps DEF Lock, Number
<1> QED
  BY <1>1, <1>2, <1>3, <1>4
\* A task that gives up its guards lets others in, which are in no start that
\* has a number.
LEMMA DropRefines ==
    ASSUME IInv, LocksInv', NEW t \in Tasks, NEW locks \in SUBSET Locks, NEW rest,
           NEW where, Dropping(t, locks, rest, where)
    PROVE  Unrecorded' = Unrecorded
<1>1. LocksInv
  BY DEF IInv
<1>2. ~Numbered(todo[t]) /\ ~Numbered(todo'[t])
  BY <1>1, DropTask, PartsAreNotNumbered DEF Dropping
<1>3. ASSUME NEW u \in Tasks, u # t
      PROVE  Numbered(todo'[u]) <=> Numbered(todo[u])
  <2>1. Numbered(todo'[u]) \/ Numbered(todo[u]) => todo'[u] = todo[u]
    BY <1>1, <1>3, DropOthers
  <2> QED
    BY <2>1
<1>4. \A u \in Tasks : Numbered(todo'[u]) <=> Numbered(todo[u])
  BY <1>2, <1>3
<1> QED
  BY <1>1, <1>4, UnrecordedStays

\* Steps that touch neither the registry nor a start with a number.
LEMMA QuietSteps ==
    ASSUME IInv, LocksInv', NEW t \in Tasks,
           \/ \E r \in Commands \cup HubRequests : Receive(t, r)
           \/ Schedule(t) \/ Acquire(t) \/ LeaveSection(t) \/ CommandReturns(t)
           \/ Respond(t)
    PROVE  registry' = registry /\ Unrecorded' = Unrecorded
<1>0. /\ LocksInv /\ todo[t] \in Seq(StepType) /\ Left(todo[t])
  BY DEF IInv, LocksInv, LockTypes, TaskInv
<1>1. registry' = registry
  BY Zenon DEF Receive, Schedule, Acquire, LeaveSection, CommandReturns, Respond
<1> SUFFICES Unrecorded' = Unrecorded
  BY <1>1
<1>2. CASE todo' = todo
  BY <1>2 DEF Unrecorded
<1>3. ASSUME NEW r \in Commands \cup HubRequests, Receive(t, r)
      PROVE  Unrecorded' = Unrecorded
  <2>1. todo' = [todo EXCEPT ![t] = Program(r)] /\ todo[t] = <<>>
    BY <1>0, <1>3 DEF Receive, LocksInv, TaskInv
  <2>2. ~Numbered(Program(r)) /\ ~Numbered(todo[t])
    BY <2>1, ProgramsAreLeft, PartsAreNotNumbered
  <2> QED
    BY <1>0, <2>1, <2>2, UnrecordedStaysFor
<1>4. CASE Acquire(t)
  <2>1. ~Numbered(todo[t])
    BY <1>4, PartsAreNotNumbered DEF Acquire, At
  <2>2. CASE Advance(t)
    <3>1. ~Numbered(Tail(todo[t]))
      BY <1>0, <1>4, AfterLock DEF Acquire, At
    <3> QED
      BY <1>0, <2>1, <2>2, <3>1, UnrecordedStaysFor DEF Advance
  <2> QED
    BY <1>2, <1>4, <2>2 DEF Acquire
<1>5. CASE LeaveSection(t)
  BY <1>0, <1>5, LeaveDrops, DropRefines
<1>6. CASE CommandReturns(t)
  <2>1. /\ todo[t] # <<>> /\ Head(todo[t]).op = "run"
    BY <1>6 DEF CommandReturns, At
  <2>2. PICK s \in StepType : s = Head(todo[t])
    BY <1>0, <2>1
  <2>3. ~Numbered(todo[t]) /\ ~Numbered(Tail(todo[t]))
    BY <1>0, <2>1, FirstSteps, PartsAreNotNumbered
  <2>4. s.fail # "never" => ~Numbered(OnFailure(s.fail))
    BY <2>1, <2>2, FailureIsAPart, PartsAreNotNumbered
  <2>5. \/ todo' = [todo EXCEPT ![t] = Tail(todo[t])]
        \/ s.fail # "never" /\ todo' = [todo EXCEPT ![t] = OnFailure(s.fail)]
    BY <1>6, <2>2 DEF CommandReturns, Advance
  <2> QED
    BY <1>0, <2>3, <2>4, <2>5, UnrecordedStaysFor
<1>7. CASE Respond(t)
  BY <1>7, RespondDrops, DropRefines
<1>8. CASE Schedule(t)
  BY <1>2, <1>8 DEF Schedule
<1> QED
  BY <1>3, <1>4, <1>5, <1>6, <1>7, <1>8

\* A handler of a request that starts no test is the registry's, at once.
LEMMA PerformRefines ==
    ASSUME IInv, LocksInv', NEW t \in Tasks, PerformRequest(t)
    PROVE  Registry!HandleRequest \/ Registry!registry' = Registry!registry
<1>1. /\ todo[t] \in Seq(StepType) /\ todo[t] # <<>> /\ Left(todo[t])
      /\ Head(todo[t]).op = "perform" /\ LocksInv
  BY DEF PerformRequest, At, IInv, LocksInv, LockTypes, TaskInv
<1>2. PICK r : r = Head(todo[t]).request
  OBVIOUS
<1>3. HubPart(todo[t]) /\ HubPart(Tail(todo[t]))
  BY <1>1, FirstSteps
<1>4. /\ r.method # "test_start"
      /\ r \in Commands \/ r.method = "test_results"
  <2>1. 1 \in 1..Len(todo[t]) /\ Head(todo[t]) = todo[t][1]
    BY <1>1
  <2> QED
    BY <1>1, <1>2, <1>3, <2>1 DEF HubPart, StepOfHubPart
<1>5. Unrecorded' = Unrecorded
  <2>1. todo' = [todo EXCEPT ![t] = Tail(todo[t])]
    BY DEF PerformRequest, Advance
  <2>2. ~Numbered(todo[t]) /\ ~Numbered(Tail(todo[t]))
    BY <1>3, PartsAreNotNumbered
  <2> QED
    BY <1>1, <2>1, <2>2, UnrecordedStaysFor
<1>6. Execute(r)
  BY <1>2 DEF PerformRequest
<1>7. CASE r.method \in {"test_abort", "test_cancel"} /\ Abort(r.test, r.reason)
  <2>1. Registry!Abort(r.test, r.reason)
    BY <1>5, <1>7 DEF Abort, Registry!Abort
  <2>2. r \in Commands
    BY <1>4, <1>7
  <2> QED
    BY <1>7, <2>1, <2>2 DEF Registry!HandleRequest, Registry!Execute
<1>8. CASE r.method = "set_role" /\ SetRole(r.role)
  <2>1. Registry!SetRole(r.role)
    BY <1>5, <1>8 DEF SetRole, Registry!SetRole
  <2>2. r \in Commands
    BY <1>4, <1>8
  <2> QED
    BY <1>8, <2>1, <2>2 DEF Registry!HandleRequest, Registry!Execute
<1>9. CASE UNCHANGED registry
  BY <1>5, <1>9 DEF registry, Registry!registry
<1> QED
  BY <1>4, <1>6, <1>7, <1>8, <1>9 DEF Execute

\* The registry's start is the record; its number is that of the counter.
LEMMA StartRefines ==
    ASSUME IInv, LocksInv', NEW t \in Tasks
    PROVE  /\ NumberTest(t) => Registry!registry' = Registry!registry
           /\ RecordTest(t) => Registry!HandleRequest
<1>0. LocksInv /\ test_counter \in Nat
  BY RegistryBounds DEF IInv, CountInv, RegistryTypeOK
<1>1. Cardinality({}) = 0 /\ Cardinality({t}) = 1
  BY FS_EmptySet, FS_Singleton
<1>2. ASSUME NumberTest(t)
      PROVE  Registry!registry' = Registry!registry
  <2>1. /\ todo[t] = Tail(Starting) /\ NextTest \in TestId
        /\ todo' = [todo EXCEPT ![t] = <<Record(NextTest)>>]
        /\ test_counter' = test_counter + 1
    BY <1>2, NumberStep
  <2>2. \A u \in Tasks : ~Numbered(todo[u])
    <3>1. ~Numbered(todo[t])
      BY <2>1, PartsAreNotNumbered
    <3> QED
      BY <1>0, <2>1, <3>1, OneStart
  <2>3. Unrecorded = {}
    BY <1>0, <2>2, UnrecordedAre
  <2>4. Numbered(todo'[t]) /\ \A u \in Tasks \ {t} : ~Numbered(todo'[u])
    BY <1>0, <2>1, <2>2 DEF LocksInv, LockTypes, Numbered
  <2>5. Unrecorded' = {t}
    BY <2>4, UnrecordedAreThen
  <2>6. test_counter' - Cardinality(Unrecorded') = test_counter - Cardinality(Unrecorded)
    BY <1>0, <1>1, <2>1, <2>3, <2>5
  <2> QED
    BY <1>2, <2>6 DEF NumberTest, Registry!registry
<1>3. ASSUME RecordTest(t)
      PROVE  Registry!HandleRequest
  <2>1. /\ todo[t] = <<Record(test_counter)>> /\ test_counter \in TestId
        /\ tests' = [tests EXCEPT ![test_counter] = StartedTest]
        /\ todo' = [todo EXCEPT ![t] = <<>>]
    BY <1>3, RecordStep
  <2>2. Numbered(todo[t])
    BY <2>1 DEF Numbered
  <2>3. \A u \in Tasks \ {t} : ~Numbered(todo[u])
    BY <1>0, <2>2, OneStart
  <2>4. Unrecorded = {t}
    BY <1>0, <2>2, <2>3, UnrecordedAre
  <2>5. \A u \in Tasks : ~Numbered(todo'[u])
    BY <1>0, <2>1, <2>3, PartsAreNotNumbered DEF LocksInv, LockTypes
  <2>6. Unrecorded' = {}
    BY <2>5, UnrecordedAreThen
  <2>7. PICK c \in Nat : test_counter = c + 1 /\ c < MaxTests
    BY <2>1, RegistryBounds DEF TestId
  <2>8. test_counter - Cardinality(Unrecorded) = c
    BY <1>1, <2>4, <2>7
  <2>9. test_counter' - Cardinality(Unrecorded') = c + 1
    <3>1. test_counter' = test_counter
      BY <1>3 DEF RecordTest
    <3> QED
      BY <1>1, <2>6, <2>7, <3>1
  <2>10. Registry!NextTest = c + 1
    BY <2>8 DEF Registry!NextTest
  <2>11. tests' = [tests EXCEPT ![Registry!NextTest] = Registry!StartedTest]
    BY <2>1, <2>7, <2>10 DEF StartedTest, Registry!StartedTest
  <2>12. Registry!Start
    BY <1>3, <2>7, <2>8, <2>9, <2>10, <2>11 DEF RecordTest, Registry!Start
  <2>13. \E r \in Commands : r.method = "test_start"
    <3>1. Left(todo[t]) /\ ~HubPart(todo[t]) /\ ~AsksState(todo[t])
      BY <1>0, <2>1, NumberOnlyInStarts DEF LocksInv, TaskInv
    <3> QED
      BY <3>1 DEF Left
  <2> QED
    BY <2>12, <2>13 DEF Registry!HandleRequest, Registry!Execute
<1> QED
  BY <1>2, <1>3

LEMMA StepRefines ==
    IInv /\ IInv' /\ [Next]_vars => [Registry!HandleRequest]_Registry!registry
<1> SUFFICES ASSUME IInv, IInv', [Next]_vars
             PROVE  Registry!HandleRequest \/ Registry!registry' = Registry!registry
  OBVIOUS
<1>0. LocksInv'
  BY DEF IInv
<1>1. ASSUME registry' = registry, Unrecorded' = Unrecorded
      PROVE  Registry!registry' = Registry!registry
  BY <1>1 DEF registry, Registry!registry
<1>2. CASE UNCHANGED vars
  <2>1. Unrecorded' = Unrecorded
    BY <1>2 DEF vars, locking, Unrecorded
  <2> QED
    BY <1>1, <1>2, <2>1 DEF vars
<1>3. CASE Next
  <2>1. PICK t \in Tasks :
            \/ \/ \E r \in Commands \cup HubRequests : Receive(t, r)
               \/ Schedule(t) \/ Acquire(t) \/ LeaveSection(t) \/ CommandReturns(t)
               \/ Respond(t)
            \/ PerformRequest(t) \/ NumberTest(t) \/ RecordTest(t)
    BY <1>3 DEF Next, Step
  <2>2. CASE \/ \E r \in Commands \cup HubRequests : Receive(t, r)
             \/ Schedule(t) \/ Acquire(t) \/ LeaveSection(t) \/ CommandReturns(t)
             \/ Respond(t)
    BY <1>0, <1>1, <2>2, QuietSteps
  <2> QED
    BY <1>0, <2>1, <2>2, PerformRefines, StartRefines
<1> QED
  BY <1>2, <1>3

\* The handlers, in steps between which others run, do to the role and the
\* tests what they do one at a time: the state's lock is held from the number
\* of a test to its record, and by every other handler until it has answered
\* (handle_test_start, handle_request).
THEOREM RegistryImplemented == Spec => ImplementsRegistry
<1>1. Init => Registry!RegistryInit
  <2> SUFFICES ASSUME Init PROVE Registry!RegistryInit
    OBVIOUS
  <2>1. LocksInv
    BY InitInv DEF IInv
  <2>2. \A t \in Tasks : ~Numbered(todo[t])
    BY PartsAreNotNumbered DEF Init
  <2>3. Unrecorded = {}
    BY <2>1, <2>2, UnrecordedAre
  <2>4. test_counter - Cardinality(Unrecorded) = 0
    BY <2>3, FS_EmptySet DEF Init, RegistryInit
  <2> QED
    BY <2>4 DEF Init, RegistryInit, Registry!RegistryInit, Registry!TestId, TestId
<1> QED
  BY <1>1, InitInv, StepKeepsInv, StepRefines, PTL
     DEF Spec, ImplementsRegistry, Registry!RegistrySpec
===============================================================================
