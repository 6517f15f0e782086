----------------------------- MODULE RemoteLocks -----------------------------
(***************************************************************************)
(* The connection tasks of a remote on tokio's worker threads, and the two *)
(* locks they share: the one on RemoteState (main and the handlers of      *)
(* src/bin/remote.rs) and the one on the hubs (src/usb_hub/manager.rs).    *)
(*                                                                         *)
(* A handler is its sequence of steps (Program).  A task keeps in `todo`   *)
(* what is left of it.  Taking a lock is an .await: a task that has to     *)
(* wait gives its worker back.  A command (uhubctl, ip) is run by          *)
(* std::process, which keeps the worker until the command returns.         *)
(***************************************************************************)
EXTENDS TestRegistry, Sequences, FiniteSets

CONSTANTS
    Tasks,         \* the connections, each served by a task of its own
    Workers,       \* the number of tokio's worker threads
    HubRequests    \* the requests for hubs and the network that are issued

VARIABLES
    place,         \* reading a request, ready, running on a worker, or waiting
    todo,          \* the steps left of the request in progress
    held,          \* the guards held, of each lock
    queue          \* the tasks waiting for each lock, in the order they came

locking == <<place, todo, held, queue>>
vars == <<registry, locking>>

Locks == {"state", "hubs"}
Guard == [task : Tasks, mode : {"read", "write"}]

-----------------------------------------------------------------------------
(* The steps of a handler.  A step that may `fail` returns early from the  *)
(* manager's function, by ? or by a panic that unwinds: the guards of that *)
(* function are dropped, and what is left is OnFailure.                    *)

Lock(l, m) == [op |-> "lock", lock |-> l, mode |-> m]

\* The end of a section of lock l, where its guard is dropped.
Leave(l) == [op |-> "leave", lock |-> l, fail |-> "never"]
LeaveOrFail(l, f) == [op |-> "leave", lock |-> l, fail |-> f]

\* A run of uhubctl or ip.
Run(f) == [op |-> "run", fail |-> f]

\* What the handler of a request about role or tests does under its guard.
Perform(r) == [op |-> "perform", request |-> r]

\* handle_test_start, in two: the counter, then the record of that number,
\* which is 0 as long as it is not known.
Number == [op |-> "number"]
Record(n) == [op |-> "record", test |-> n]

Releasing == <<Lock("hubs", "write"), LeaveOrFail("hubs", "end")>>

\* reserve_and_power_on releases what it reserved when the power-on fails.
OnFailure(f) == IF f = "rollback" THEN Releasing ELSE <<>>

-----------------------------------------------------------------------------
(* The handlers.                                                           *)

\* handle_get_info, handle_test_results.
Looking(r) == <<Lock("state", "read"), Perform(r)>>

\* handle_set_role, handle_test_abort.
Changing(r) == <<Lock("state", "write"), Perform(r)>>

LookingTwice(r) == <<Lock("state", "read")>> \o Looking(r)        \* a mutant

\* handle_test_status and handle_test_cancel call the handlers they are like,
\* and take no lock of their own.
Reporting(r) == Looking(r)
Cancelling(r) == Changing(r)

StartingInTwo == <<Lock("state", "write"), Number, Leave("state"),
                   Lock("state", "write"), Record(0)>>           \* a mutant
Starting == <<Lock("state", "write"), Number, Record(0)>>

\* handle_network_configure and handle_network_status take no lock.  The
\* former returns if the address or the interface's command cannot be run, and
\* only logs that of the gateway, if one is asked for.
Configuring == <<Run("end"), Run("end")>>
ConfiguringRouted == <<Run("end"), Run("end"), Run("never")>>
NetworkReporting == <<Run("never")>>

\* handle_hub_list; the conversion of a far deadline may panic.
Listing == <<Lock("state", "read"), Lock("hubs", "read"), Leave("hubs")>>

\* handle_hub_discover: --version, the listing, the insertion.
Discovering == <<Lock("state", "read"), Run("end"), Run("end"),
                 Lock("hubs", "write"), Leave("hubs")>>

RefreshingGuarded == <<Lock("hubs", "read"), Run("end"),
                       Lock("hubs", "write"), Leave("hubs")>>    \* a mutant
\* refresh_hub: the location is copied and the guard dropped before the run.
Refreshing == <<Lock("hubs", "read"), LeaveOrFail("hubs", "end"), Run("end"),
                Lock("hubs", "write"), Leave("hubs")>>

\* power_on_port and power_off_port.
Powering(f) == <<Lock("hubs", "read"), LeaveOrFail("hubs", f), Run(f),
                 Lock("hubs", "write"), Leave("hubs")>>

\* reserve_port: refused, granted, or panicking on a huge duration.
Reserving == <<Lock("hubs", "write"), LeaveOrFail("hubs", "end")>>

\* handle_hub_port_reserve and handle_hub_port_release with their power flags.
ReservingPowered == Reserving \o Powering("rollback")
ReleasingPowered == Powering("end") \o Releasing

UnderState(s) == <<Lock("state", "read")>> \o s

\* handle_request.
Program(r) ==
    CASE r.method = "ping" -> <<>>
      [] r.method \in {"get_info", "test_results"} -> Looking(r)
      [] r.method = "test_status" -> Reporting([r EXCEPT !.method = "test_results"])
      [] r.method \in {"set_role", "test_abort"} -> Changing(r)
      [] r.method = "test_cancel" -> Cancelling(r)
      [] r.method = "test_start" -> Starting
      [] r.method = "network_configure" ->
             IF r.gateway THEN ConfiguringRouted ELSE Configuring
      [] r.method = "network_status" -> NetworkReporting
      [] r.method = "hub_list" -> Listing
      [] r.method = "hub_discover" -> Discovering
      [] r.method = "hub_status" -> UnderState(Refreshing)
      [] r.method = "hub_port_power" -> UnderState(Powering("end"))
      [] r.method = "hub_port_reserve" ->
             UnderState(IF r.power THEN ReservingPowered ELSE Reserving)
      [] r.method = "hub_port_release" ->
             UnderState(IF r.power THEN ReleasingPowered ELSE Releasing)

HubMethods == [method : {"network_status", "hub_list", "hub_discover",
                         "hub_status", "hub_port_power"}]
                  \cup [method : {"network_configure"}, gateway : BOOLEAN]
                  \cup [method : {"hub_port_reserve", "hub_port_release"},
                        power : BOOLEAN]
                  \cup [method : {"test_status"}, test : TestId]

ASSUME LocksAssumption ==
    /\ IsFiniteSet(Tasks)
    /\ HubRequests \subseteq HubMethods
    /\ Workers \in Nat \ {0}

-----------------------------------------------------------------------------
(* tokio's locks: fair, first come first served.                           *)

Admits(guards, m) == IF m = "write" THEN guards = {}
                                    ELSE \A g \in guards : g.mode = "read"

\* How many of those waiting are let in when `guards` are left: the writer
\* at the head alone, or the readers before the first writer.
LetIn(guards, q) ==
    IF q = <<>> \/ ~Admits(guards, q[1].mode) THEN 0
    ELSE Cardinality({i \in 1..Len(q) :
                         i = 1 \/ \A j \in 1..i : q[j].mode = "read"})

\* Task t gives up its guards of `locks`, is left with the steps `rest`, and
\* goes to `where`; those let in are woken with their guards, and are `then`.
DropAnd(t, locks, rest, where, then) ==
    LET kept == [l \in Locks |-> IF l \in locks
                                 THEN {g \in held[l] : g.task # t} ELSE held[l]]
        count == [l \in Locks |-> LetIn(kept[l], queue[l])]
        woken == [l \in Locks |-> {queue[l][i] : i \in 1..count[l]}]
        isWoken(u) == \E l \in Locks : \E g \in woken[l] : g.task = u
    IN  /\ held' = [l \in Locks |-> kept[l] \cup woken[l]]
        /\ queue' = [l \in Locks |-> SubSeq(queue[l], count[l] + 1, Len(queue[l]))]
        /\ place' = [u \in Tasks |-> IF u = t THEN where
                                     ELSE IF isWoken(u) THEN then ELSE place[u]]
        /\ todo' = [u \in Tasks |-> IF u = t THEN rest
                                    ELSE IF isWoken(u) THEN Tail(todo[u])
                                    ELSE todo[u]]

DropInPlace(t, locks, rest, where) ==
    DropAnd(t, locks, rest, where, "running")                    \* a mutant
Drop(t, locks, rest, where) == DropAnd(t, locks, rest, where, "ready")

-----------------------------------------------------------------------------
Init ==
    /\ RegistryInit
    /\ place = [t \in Tasks |-> "reading"]
    /\ todo = [t \in Tasks |-> <<>>]
    /\ held = [l \in Locks |-> {}]
    /\ queue = [l \in Locks |-> <<>>]

At(t, op) == place[t] = "running" /\ todo[t] # <<>> /\ Head(todo[t]).op = op

Advance(t) == todo' = [todo EXCEPT ![t] = Tail(@)]

\* Bounds the tests: the starts that are done or under way.
StartsUnderWay ==
    {t \in Tasks : \E i \in 1..Len(todo[t]) : todo[t][i].op = "number"}

\* The socket has a request: handle_connection's read_message is done.
Receive(t, r) ==
    /\ place[t] = "reading"
    /\ r.method = "test_start" =>
           test_counter + Cardinality(StartsUnderWay) < MaxTests
    /\ place' = [place EXCEPT ![t] = "ready"]
    /\ todo' = [todo EXCEPT ![t] = Program(r)]
    /\ UNCHANGED <<registry, held, queue>>

\* A worker that is free takes up a task that is ready.
Schedule(t) ==
    /\ place[t] = "ready"
    /\ Cardinality({u \in Tasks : place[u] = "running"}) < Workers
    /\ place' = [place EXCEPT ![t] = "running"]
    /\ UNCHANGED <<registry, todo, held, queue>>

\* A lock is taken at once only past an empty queue.
IsFree(l, m) == queue[l] = <<>> /\ Admits(held[l], m)

\* read().await or write().await, at once or after waiting in the queue.
Acquire(t) ==
    /\ At(t, "lock")
    /\ LET l == Head(todo[t]).lock
           g == [task |-> t, mode |-> Head(todo[t]).mode]
       IN  \/ /\ IsFree(l, g.mode)
              /\ held' = [held EXCEPT ![l] = @ \cup {g}]
              /\ Advance(t)
              /\ UNCHANGED <<place, queue>>
           \/ /\ ~IsFree(l, g.mode)
              /\ queue' = [queue EXCEPT ![l] = Append(@, g)]
              /\ place' = [place EXCEPT ![t] = "waiting"]
              /\ UNCHANGED <<todo, held>>
    /\ UNCHANGED registry

\* The end of a section, or an early return from it.
LeaveSection(t) ==
    /\ At(t, "leave")
    /\ LET s == Head(todo[t])
       IN  \/ Drop(t, {s.lock}, Tail(todo[t]), "running")
           \/ s.fail # "never" /\ Drop(t, {s.lock}, OnFailure(s.fail), "running")
    /\ UNCHANGED registry

\* The command a task is running returns, well or with an error.
CommandReturns(t) ==
    /\ At(t, "run")
    /\ \/ Advance(t)
       \/ /\ Head(todo[t]).fail # "never"
          /\ todo' = [todo EXCEPT ![t] = OnFailure(Head(todo[t]).fail)]
    /\ UNCHANGED <<registry, place, held, queue>>

PerformRequest(t) ==
    /\ At(t, "perform")
    /\ Execute(Head(todo[t]).request)
    /\ Advance(t)
    /\ UNCHANGED <<place, held, queue>>

NumberTest(t) ==
    /\ At(t, "number")
    /\ test_counter' = NextTest
    /\ todo' = [todo EXCEPT ![t] =
                    [i \in 1..(Len(@) - 1) |->
                        IF @[i + 1].op = "record" THEN Record(NextTest) ELSE @[i + 1]]]
    /\ UNCHANGED <<role, tests, restarts, place, held, queue>>

RecordTest(t) ==
    /\ At(t, "record")
    /\ tests' = [tests EXCEPT ![Head(todo[t]).test] = StartedTest]
    /\ Advance(t)
    /\ UNCHANGED <<role, test_counter, restarts, place, held, queue>>

\* The handler returns, which drops its guard of the state, and the answer is
\* written; or its connection ends.
Respond(t) ==
    /\ place[t] = "running" /\ todo[t] = <<>>
    /\ Drop(t, Locks, <<>>, "reading")
    /\ UNCHANGED registry

\* What a task does on its worker, but for waiting for a command.
Step(t) == Acquire(t) \/ LeaveSection(t) \/ PerformRequest(t)
               \/ NumberTest(t) \/ RecordTest(t) \/ Respond(t)

Next == \E t \in Tasks :
    \/ \E r \in Commands \cup HubRequests : Receive(t, r)
    \/ Schedule(t)
    \/ Step(t)
    \/ CommandReturns(t)

Spec == Init /\ [][Next]_vars

\* A running task gets on; tokio does not pass over a ready task for ever.
Fairness == \A t \in Tasks : WF_vars(Step(t)) /\ SF_vars(Schedule(t))
FairSpec == Spec /\ Fairness

-----------------------------------------------------------------------------
(* Properties.                                                             *)

StepType ==
    [op : {"lock"}, lock : Locks, mode : {"read", "write"}]
        \cup [op : {"leave"}, lock : Locks, fail : {"never", "end", "rollback"}]
        \cup [op : {"run"}, fail : {"never", "end", "rollback"}]
        \cup [op : {"perform"}, request : Requests]
        \cup [op : {"number"}]
        \cup [op : {"record"}, test : TestId \cup {0}]

TypeOK ==
    /\ RegistryTypeOK
    /\ place \in [Tasks -> {"reading", "ready", "running", "waiting"}]
    /\ Cardinality({t \in Tasks : place[t] = "running"}) <= Workers
    /\ todo \in [Tasks -> Seq(StepType)]
    /\ held \in [Locks -> SUBSET Guard]
    /\ queue \in [Locks -> Seq(Guard)]

\* The tasks that t waits for: those that hold the lock it is queued for, and
\* those queued before it.
Blockers(t) ==
    {u \in Tasks : \E l \in Locks : \E i \in 1..Len(queue[l]) :
        /\ queue[l][i].task = t
        /\ \/ \E g \in held[l] : g.task = u
           \/ \E j \in 1..(i - 1) : queue[l][j].task = u}

\* No handlers wait for one another in a circle, nor one for itself: however
\* two tasks nest the two locks, and whoever is queued between a task's
\* guard and the next one it asks for.
NoCircularWait ==
    \A S \in SUBSET Tasks : S # {} =>
        \E t \in S : place[t] # "waiting" \/ Blockers(t) \cap S = {}

\* The tests that have their number but not yet their record.
Unrecorded == {t \in Tasks : \E i \in 1..Len(todo[t]) :
                   todo[t][i].op = "record" /\ todo[t][i].test # 0}

Registry == INSTANCE TestRegistry
                WITH test_counter <- test_counter - Cardinality(Unrecorded)

\* The handlers, interleaved step by step, do to the role and the tests what
\* they do one after another, each at once.
ImplementsRegistry == Registry!RegistrySpec

\* Every request is answered, or its connection ends, if every command that
\* is run returns: however many others wait and whatever fails.
CommandsReturn == \A t \in Tasks : []<>~At(t, "run")
EveryRequestEnds ==
    CommandsReturn =>
        \A t \in Tasks : place[t] # "reading" ~> place[t] = "reading"
===============================================================================
