--------------------------- MODULE HubManagerProofs ---------------------------
(***************************************************************************)
(* Theorems of HubManager, for every value of its constants.               *)
(***************************************************************************)
EXTENDS HubManager, TLAPS

\* The assumptions on the constants, under one name for the proofs.
LEMMA Constants ==
    /\ InitBus \in [Locations -> Hubs \cup {None}]
    /\ PortsOf \in [Hubs -> SUBSET Ports]
    /\ Durations \subseteq Nat \cup {None}
    /\ MaxTime \in Nat /\ MaxReplugs \in Nat
    /\ None \notin Hubs /\ None \notin Nat
    /\ None \notin Reservation /\ None \notin Port /\ None \notin Hub
    /\ None \notin [by : Roles, expires : Nat \cup {None}]
BY DurationsAssumption, BusAssumption, BoundsAssumption, NoneAssumption

-----------------------------------------------------------------------------
(* What the steps are made of has its type.                                *)

\* What uhubctl lists for a plugged-in hub parses to a hub record.
LEMMA ParsedType ==
    ASSUME TypeOK, NEW l \in Locations, bus[l] # None
    PROVE  Parsed(l) \in Hub
<1>1. bus[l] \in Hubs
  BY DEF TypeOK
<1>2. ASSUME NEW p \in Ports
      PROVE  Parsed(l).ports[p] \in Port \cup {None}
  BY DEF TypeOK, Parsed, Port
<1>3. Parsed(l).ports \in [Ports -> Port \cup {None}]
  BY <1>2 DEF Parsed
<1> QED
  BY <1>1, <1>3 DEF Parsed, Hub

LEMMA ListingType ==
    ASSUME TypeOK
    PROVE  Listing \subseteq Hub
BY ParsedType DEF Listing

\* A slot holds a reservation or None, and one with a reservation is a port
\* of a registered hub.
LEMMA SlotType ==
    ASSUME TypeOK, NEW h \in Hubs, NEW p \in Ports
    PROVE  /\ Slot(h, p) \in Reservation \cup {None}
           /\ HasPort(h, p) => hubs[h] \in Hub /\ hubs[h].ports[p] \in Port
BY DEF TypeOK, Slot, HasPort, Hub, Port

\* A request has the fields of its operation.
LEMMA RequestType ==
    ASSUME NEW r \in Requests
    PROVE  /\ r.op \in AllOps
           /\ r.op # "hub_discover" => r.hub \in Hubs
           /\ r.op \notin {"hub_discover", "hub_status"} => r.port \in Ports
           /\ r.op = "hub_port_reserve" =>
                r.role \in Roles /\ r.duration \in Durations /\ r.power_on \in BOOLEAN
           /\ r.op = "hub_port_release" =>
                r.role \in Roles /\ r.power_off \in BOOLEAN
BY DEF Requests, DiscoverRequests, StatusRequests, PowerRequests,
       ReserveRequests, ReleaseRequests, AllOps
-----------------------------------------------------------------------------
(* The inductive invariant.                                                *)

\* The steps a request of each operation goes through.
StepsOf(op) ==
    CASE op = "hub_discover" -> {"list", "insert", "reply"}
      [] op = "hub_status" -> {"lookup", "query", "merge", "reply"}
      [] op = "hub_port_reserve" ->
            {"reserve", "lookup", "command", "update", "rollback", "reply"}
      [] op = "hub_port_release" ->
            {"lookup", "command", "update", "release", "reply"}
      [] OTHER -> {"lookup", "command", "update", "reply"}

\* A task is at a step of the request it handles, and knows a location when
\* it runs uhubctl there.
RequestInv ==
    \A t \in Tasks :
        /\ pc[t] # "idle" =>
             req[t] \in Requests /\ pc[t] \in StepsOf(req[t].op)
        /\ pc[t] \in {"query", "command"} => loc[t] \in Locations

\* What a run of uhubctl reported carries no reservation.
FoundFresh ==
    \A t \in Tasks : \A r \in found[t] : \A p \in Ports :
        r.ports[p] # None => r.ports[p].reservation = None

\* While a reserve request may still roll back, a reservation of its own on
\* the port carries its own role: the release by role will find it.
GrantByRole ==
    \A t \in Tasks :
        pc[t] \in {"lookup", "command", "update", "rollback"}
            /\ req[t].op = "hub_port_reserve"
        => LET r == Slot(req[t].hub, req[t].port)
           IN  r = None \/ r.holder # t \/ r.by = req[t].role

Inv == TypeOK /\ RequestInv /\ FoundFresh

-----------------------------------------------------------------------------
(* The registry keeps its type under the updates the steps make of it.     *)

\* WithReservation and WithPower replace one port of one hub.
PortReplaced(h, p, port) ==
    [hubs EXCEPT ![h] = [hubs[h] EXCEPT !.ports = [hubs[h].ports EXCEPT ![p] = port]]]

LEMMA PortReplacedType ==
    ASSUME TypeOK, NEW h \in Hubs, NEW p \in Ports, HasPort(h, p), NEW port \in Port
    PROVE  PortReplaced(h, p, port) \in [Hubs -> Hub \cup {None}]
<1>1. hubs[h] \in Hub
  BY SlotType
<1>2. [hubs[h] EXCEPT !.ports = [hubs[h].ports EXCEPT ![p] = port]] \in Hub
  BY <1>1 DEF Hub
<1> QED
  BY <1>2 DEF TypeOK, PortReplaced

LEMMA WithReservationPort ==
    ASSUME TypeOK, NEW h \in Hubs, NEW p \in Ports, HasPort(h, p),
           NEW r \in Reservation \cup {None}
    PROVE  \E port \in Port : /\ WithReservation(h, p, r) = PortReplaced(h, p, port)
                              /\ port.reservation = r
                              /\ port.power = hubs[h].ports[p].power
<1> DEFINE port == [hubs[h].ports[p] EXCEPT !.reservation = r]
<1>1. hubs[h] \in Hub /\ hubs[h].ports[p] \in Port
  BY SlotType
<1>2. /\ port \in Port /\ port.reservation = r
      /\ port.power = hubs[h].ports[p].power
  BY <1>1 DEF Port
<1>3. WithReservation(h, p, r) = PortReplaced(h, p, port)
  BY <1>1 DEF WithReservation, PortReplaced, TypeOK, Hub, Port
<1> QED
  BY <1>2, <1>3

LEMMA WithPowerPort ==
    ASSUME TypeOK, NEW h \in Hubs, NEW p \in Ports, HasPort(h, p), NEW on \in BOOLEAN
    PROVE  \E port \in Port : /\ WithPower(h, p, on) = PortReplaced(h, p, port)
                              /\ port.reservation = Slot(h, p)
                              /\ port.power = on
<1> DEFINE port == [hubs[h].ports[p] EXCEPT !.power = on]
<1>1. hubs[h] \in Hub /\ hubs[h].ports[p] \in Port
  BY SlotType
<1>2. /\ port \in Port /\ port.reservation = hubs[h].ports[p].reservation
      /\ port.power = on
  BY <1>1 DEF Port
<1>3. WithPower(h, p, on) = PortReplaced(h, p, port)
  BY <1>1 DEF WithPower, PortReplaced, TypeOK, Hub, Port
<1> QED
  BY <1>2, <1>3 DEF Slot

LEMMA WithReservationType ==
    ASSUME TypeOK, NEW h \in Hubs, NEW p \in Ports, HasPort(h, p),
           NEW r \in Reservation \cup {None}
    PROVE  WithReservation(h, p, r) \in [Hubs -> Hub \cup {None}]
BY WithReservationPort, PortReplacedType

LEMMA WithPowerType ==
    ASSUME TypeOK, NEW h \in Hubs, NEW p \in Ports, NEW on \in BOOLEAN
    PROVE  WithPower(h, p, on) \in [Hubs -> Hub \cup {None}]
<1>1. CASE ~HasPort(h, p)
  BY <1>1 DEF WithPower, TypeOK
<1>2. CASE HasPort(h, p)
  BY <1>2, WithPowerPort, PortReplacedType
<1> QED
  BY <1>1, <1>2

LEMMA MergedType ==
    ASSUME TypeOK, NEW h \in Hubs, NEW new \in Hub
    PROVE  Merged(h, new) \in Hub
<1> DEFINE ports == [p \in Ports |->
              IF new.ports[p] # None /\ Live(Slot(h, p))
              THEN [new.ports[p] EXCEPT !.reservation = Slot(h, p)]
              ELSE new.ports[p]]
<1>1. ASSUME NEW p \in Ports
      PROVE  ports[p] \in Port \cup {None}
  <2>1. new.ports[p] \in Port \cup {None}
    BY DEF Hub
  <2>2. Slot(h, p) \in Reservation \cup {None}
    BY SlotType
  <2> QED
    BY <2>1, <2>2 DEF Port
<1>2. ports \in [Ports -> Port \cup {None}]
  BY <1>1
<1> QED
  BY <1>2 DEF Merged, Hub

LEMMA WithoutExpiredType ==
    ASSUME TypeOK, NEW h \in Hubs, hubs[h] # None
    PROVE  [hubs[h] EXCEPT !.ports = WithoutExpired(h)] \in Hub
<1>1. hubs[h] \in Hub
  BY DEF TypeOK
<1>2. ASSUME NEW p \in Ports
      PROVE  WithoutExpired(h)[p] \in Port \cup {None}
  <2>1. hubs[h].ports[p] \in Port \cup {None}
    BY <1>1 DEF Hub
  <2>2. Slot(h, p) # None => hubs[h].ports[p] \in Port
    BY <2>1, SlotType DEF Slot
  <2> QED
    BY <2>1, <2>2 DEF WithoutExpired, Port
<1>3. WithoutExpired(h) \in [Ports -> Port \cup {None}]
  BY <1>2 DEF WithoutExpired
<1> QED
  BY <1>1, <1>3 DEF Hub

LEMMA NewReservationType ==
    ASSUME TypeOK, NEW t \in Tasks, req[t] \in ReserveRequests
    PROVE  NewReservation(t) \in Reservation
<1>1. req[t].role \in Roles /\ req[t].duration \in Nat \cup {None}
  BY Constants DEF ReserveRequests
<1>2. now + req[t].duration \in Nat \/ req[t].duration = None
  BY <1>1 DEF TypeOK
<1>3. NewReservation(t).expires \in Nat \cup {None}
  BY <1>2 DEF NewReservation
<1> QED
  BY <1>1, <1>3 DEF NewReservation, Reservation
\* What a request in flight is, from the step it is at.
LEMMA AtStep ==
    ASSUME RequestInv, NEW t \in Tasks, pc[t] # "idle"
    PROVE  /\ req[t] \in Requests
           /\ pc[t] \in StepsOf(req[t].op)
           /\ pc[t] \in {"lookup", "query", "merge"} => req[t].hub \in Hubs
           /\ pc[t] \in {"command", "update", "release", "rollback", "reserve"} =>
                req[t].hub \in Hubs /\ req[t].port \in Ports
           /\ pc[t] \in {"reserve", "rollback"} => req[t] \in ReserveRequests
           /\ pc[t] = "release" => req[t] \in ReleaseRequests
<1>1. req[t] \in Requests /\ pc[t] \in StepsOf(req[t].op)
  BY DEF RequestInv
<1>2. req[t].op = "hub_port_reserve" => req[t] \in ReserveRequests
  BY <1>1 DEF Requests, DiscoverRequests, StatusRequests, PowerRequests,
              ReleaseRequests
<1>3. req[t].op = "hub_port_release" => req[t] \in ReleaseRequests
  BY <1>1 DEF Requests, DiscoverRequests, StatusRequests, PowerRequests,
              ReserveRequests
<1> QED
  BY <1>1, <1>2, <1>3, RequestType DEF StepsOf, AllOps

LEMMA TypeStep ==
    ASSUME TypeOK, RequestInv, [Next]_vars
    PROVE  TypeOK'
<1> USE DEF TypeOK, hardware
<1>1. CASE Tick
  BY <1>1 DEF Tick
<1>2. CASE CleanupExpired
  BY <1>2, WithoutExpiredType DEF CleanupExpired
<1>3. ASSUME NEW l \in Locations, NEW h \in Hubs \cup {None}, Replug(l, h)
      PROVE  TypeOK'
  BY <1>3, Constants DEF Replug
<1>4. ASSUME NEW t \in Tasks, NEW r \in Requests, Begin(t, r)
      PROVE  TypeOK'
  BY <1>4 DEF Begin, Goto, FirstStep, Steps
<1>5. ASSUME NEW t \in Tasks, Step(t)
      PROVE  TypeOK'
  <2>1. CASE List(t)
    BY <2>1, ListingType DEF List, Answer, Goto, Steps, Results
  <2>2. CASE Insert(t)
    BY <2>2 DEF Insert, Answer, Goto, Steps, Results
  <2>3. CASE Lookup(t)
    BY <2>3, AtStep DEF Lookup, Fail, Goto, Steps, Results, Hub
  <2>4. CASE Query(t)
    <3>1. ListedAt(loc[t]) \subseteq Hub
      BY ListingType DEF ListedAt
    <3>2. \A r \in ListedAt(loc[t]) : {r} \in SUBSET Hub
      BY <3>1
    <3>3. UhubctlFailure(req[t].op) \in Results
      BY DEF UhubctlFailure, Results
    <3> QED
      BY <2>4, <3>2, <3>3 DEF Query, Fail, Goto, Steps
  <2>5. CASE Merge(t)
    BY <2>5, AtStep, MergedType DEF Merge, Answer, Goto, Steps, Results
  <2>6. CASE Command(t)
    <3>1. UhubctlFailure(req[t].op) \in Results
      BY DEF UhubctlFailure, Results
    <3>2. SwitchesOn(req[t]) \in BOOLEAN
      BY DEF SwitchesOn
    <3>3. loc[t] \in Locations /\ req[t].port \in Ports
      BY <2>6, AtStep DEF Command, RequestInv
    <3> DEFINE ports == [power[loc[t]] EXCEPT ![req[t].port] = SwitchesOn(req[t])]
    <3>4. power' \in [Locations -> [Ports -> BOOLEAN]]
      <4>1. ports \in [Ports -> BOOLEAN]
        BY <3>2, <3>3
      <4>2. power' \in {power, [power EXCEPT ![loc[t]] = ports]}
        BY <2>6 DEF Command
      <4> QED
        BY <3>3, <4>1, <4>2
    <3>5. pc' \in [Tasks -> Steps] /\ result' \in [Tasks -> Results \cup {None}]
      BY <2>6, <3>1 DEF Command, Fail, Goto, Steps
    <3> QED
      BY <2>6, <3>4, <3>5 DEF Command
  <2>7. CASE Update(t)
    <3>1. SwitchesOn(req[t]) \in BOOLEAN
      BY DEF SwitchesOn
    <3>2. hubs' \in [Hubs -> Hub \cup {None}]
      BY <2>7, <3>1, AtStep, WithPowerType DEF Update
    <3> QED
      BY <2>7, <3>2 DEF Update, Answer, Goto, Steps, Results
  <2>8. CASE ReserveRefused(t)
    BY <2>8 DEF ReserveRefused, Answer, Goto, Steps, Results
  <2>9. CASE ReserveGranted(t)
    BY <2>9, AtStep, WithReservationType, NewReservationType
       DEF ReserveGranted, Answer, Goto, Steps, Results
  <2>10. CASE Release(t)
    BY <2>10, AtStep, WithReservationType
       DEF Release, ReleasePort, ReleaseOutcome, Answer, Goto, Steps, Results
  <2>11. CASE Rollback(t)
    BY <2>11, AtStep, WithReservationType
       DEF Rollback, ReleasePort, ReleaseOutcome, Goto, Steps
  <2>12. CASE Reply(t)
    BY <2>12 DEF Reply, Goto, Steps
  <2> QED
    BY <1>5, <2>1, <2>2, <2>3, <2>4, <2>5, <2>6, <2>7, <2>8, <2>9, <2>10,
       <2>11, <2>12 DEF Step
<1>6. CASE UNCHANGED vars
  BY <1>6 DEF vars
<1> QED
  BY <1>1, <1>2, <1>3, <1>4, <1>5, <1>6 DEF Next
-----------------------------------------------------------------------------
(* RequestInv and FoundFresh are kept by every step.                       *)

\* A step of one task leaves the others where they are.
LEMMA OthersUntouched ==
    ASSUME TypeOK, NEW t \in Tasks, Step(t), NEW u \in Tasks, u # t
    PROVE  /\ pc'[u] = pc[u] /\ req'[u] = req[u] /\ loc'[u] = loc[u]
           /\ found'[u] = found[u] /\ result'[u] = result[u]
<1> USE DEF TypeOK, Answer, Goto, Fail
<1> QED
  BY DEF Step, List, Insert, Lookup, Query, Merge, Command, Update,
         ReserveRefused, ReserveGranted, Release, Rollback, Reply

LEMMA RequestStep ==
    ASSUME TypeOK, RequestInv, [Next]_vars
    PROVE  RequestInv'
<1> SUFFICES ASSUME NEW u \in Tasks
             PROVE  /\ pc'[u] # "idle" =>
                         req'[u] \in Requests /\ pc'[u] \in StepsOf(req'[u].op)
                    /\ pc'[u] \in {"query", "command"} => loc'[u] \in Locations
  BY DEF RequestInv
<1> USE DEF RequestInv, TypeOK
<1>1. CASE Tick \/ CleanupExpired \/ UNCHANGED vars
  BY <1>1 DEF Tick, CleanupExpired, vars
<1>2. ASSUME NEW l \in Locations, NEW h \in Hubs \cup {None}, Replug(l, h)
      PROVE  /\ pc' = pc /\ req' = req /\ loc' = loc
  BY <1>2 DEF Replug
<1>3. ASSUME NEW t \in Tasks, NEW r \in Requests, Begin(t, r)
      PROVE  /\ pc'[u] # "idle" =>
                  req'[u] \in Requests /\ pc'[u] \in StepsOf(req'[u].op)
             /\ pc'[u] \in {"query", "command"} => loc'[u] \in Locations
  <2>1. FirstStep(r) \in StepsOf(r.op) /\ FirstStep(r) \notin {"query", "command"}
    BY RequestType DEF FirstStep, StepsOf, AllOps
  <2> QED
    BY <1>3, <2>1 DEF Begin, Goto
<1>4. ASSUME NEW t \in Tasks, Step(t)
      PROVE  /\ pc'[u] # "idle" =>
                  req'[u] \in Requests /\ pc'[u] \in StepsOf(req'[u].op)
             /\ pc'[u] \in {"query", "command"} => loc'[u] \in Locations
  <2>1. CASE u # t
    BY <1>4, <2>1, OthersUntouched
  <2>2. CASE u = t
    <3> USE <2>2 DEF Answer, Goto, Fail, StepsOf
    <3>1. CASE List(t) \/ Insert(t)
      BY <3>1 DEF List, Insert
    <3>2. CASE Lookup(t)
      BY <3>2, AtStep DEF Lookup, Hub
    <3>3. CASE Query(t) \/ Merge(t)
      BY <3>3 DEF Query, Merge
    <3>4. CASE Command(t)
      BY <3>4 DEF Command
    <3>5. CASE Update(t)
      BY <3>5 DEF Update
    <3>6. CASE ReserveRefused(t) \/ ReserveGranted(t)
      BY <3>6 DEF ReserveRefused, ReserveGranted
    <3>7. CASE Release(t) \/ Rollback(t) \/ Reply(t)
      BY <3>7 DEF Release, Rollback, Reply
    <3> QED
      BY <1>4, <3>1, <3>2, <3>3, <3>4, <3>5, <3>6, <3>7 DEF Step
  <2> QED
    BY <2>1, <2>2
<1> QED
  BY <1>1, <1>2, <1>3, <1>4 DEF Next

\* Listings come only from uhubctl.
LEMMA FoundGrows ==
    ASSUME TypeOK, [Next]_vars, NEW u \in Tasks
    PROVE  found'[u] \subseteq found[u] \cup Listing
<1>1. ASSUME NEW t \in Tasks, Step(t)
      PROVE  found'[u] \subseteq found[u] \cup Listing
  BY <1>1 DEF TypeOK, Step, List, Insert, Lookup, Query, ListedAt, Merge,
              Command, Update, ReserveRefused, ReserveGranted, Release,
              Rollback, Reply
<1>2. ASSUME ~ \E t \in Tasks : Step(t)
      PROVE  found' = found
  BY <1>2 DEF Next, Tick, CleanupExpired, Replug, Begin, vars
<1> QED
  BY <1>1, <1>2

LEMMA FoundStep ==
    ASSUME TypeOK, FoundFresh, [Next]_vars
    PROVE  FoundFresh'
<1> SUFFICES ASSUME NEW u \in Tasks, NEW r \in found'[u], NEW p \in Ports,
                    r.ports[p] # None
             PROVE  r.ports[p].reservation = None
  BY DEF FoundFresh
<1>1. ASSUME r \in Listing
      PROVE  r.ports[p].reservation = None
  BY <1>1 DEF Listing, Parsed
<1> QED
  BY <1>1, FoundGrows DEF FoundFresh

LEMMA InvInit ==
    ASSUME Init
    PROVE  Inv
<1>1. TypeOK
  BY Constants DEF Init, TypeOK, Steps
<1> QED
  BY <1>1 DEF Init, Inv, RequestInv, FoundFresh

LEMMA InvStep ==
    ASSUME Inv, [Next]_vars
    PROVE  Inv'
BY TypeStep, RequestStep, FoundStep DEF Inv

LEMMA InvAlways == Spec => []Inv
<1>1. Init => Inv
  BY InvInit
<1>2. Inv /\ [Next]_vars => Inv'
  BY InvStep
<1> QED
  BY <1>1, <1>2, PTL DEF Spec

\* The registry, the hardware and every request in flight keep their types,
\* however the requests interleave with each other and with the bus.
THEOREM TypeCorrect == Spec => []TypeOK
<1>1. Inv => TypeOK
  BY DEF Inv
<1> QED
  BY <1>1, InvAlways, PTL
-----------------------------------------------------------------------------
(* What each update of the registry does to the reservations.              *)

\* The registry has the same hubs, places and ports after the step.
SameShape ==
    \A k \in Hubs :
        /\ hubs'[k] = None <=> hubs[k] = None
        /\ hubs[k] # None =>
             /\ hubs'[k].location = hubs[k].location
             /\ \A q \in Ports : hubs'[k].ports[q] # None <=> hubs[k].ports[q] # None

\* The power the registry shows for port q of hub k, which it has.
ShownPower(k, q) == hubs[k].ports[q].power

\* The registry has the same hubs, places and ports after the step, and shows
\* the same power for them.
SamePower ==
    /\ SameShape
    /\ \A k \in Hubs, q \in Ports :
         HasPort(k, q) => ShownPower(k, q)' = ShownPower(k, q)

LEMMA PortReplacedEffect ==
    ASSUME TypeOK, NEW h \in Hubs, NEW p \in Ports, HasPort(h, p),
           NEW port \in Port, hubs' = PortReplaced(h, p, port)
    PROVE  /\ SameShape
           /\ \A k \in Hubs, q \in Ports :
                Slot(k, q)' = IF k = h /\ q = p THEN port.reservation ELSE Slot(k, q)
           /\ \A k \in Hubs, q \in Ports :
                HasPort(k, q) => ShownPower(k, q)' =
                    IF k = h /\ q = p THEN port.power ELSE ShownPower(k, q)
<1> DEFINE hub == [hubs[h] EXCEPT !.ports = [hubs[h].ports EXCEPT ![p] = port]]
<1>1. hubs[h] \in Hub /\ hubs[h] # None
  BY SlotType DEF HasPort
<1>2. /\ hub \in Hub /\ hub.location = hubs[h].location
      /\ hub.ports = [hubs[h].ports EXCEPT ![p] = port]
  BY <1>1 DEF Hub
<1>3. hub # None /\ port # None
  BY <1>2, Constants
<1>4. ASSUME NEW q \in Ports
      PROVE  hub.ports[q] = IF q = p THEN port ELSE hubs[h].ports[q]
  BY <1>1, <1>2 DEF Hub
<1>5. /\ hubs'[h] = hub
      /\ \A k \in Hubs : k # h => hubs'[k] = hubs[k]
  BY DEF PortReplaced, TypeOK
<1> HIDE DEF hub
<1>6. SameShape
  BY <1>1, <1>2, <1>3, <1>4, <1>5 DEF SameShape, HasPort
<1>7. ASSUME NEW k \in Hubs, NEW q \in Ports
      PROVE  Slot(k, q)' = IF k = h /\ q = p THEN port.reservation ELSE Slot(k, q)
  BY <1>1, <1>3, <1>4, <1>5 DEF Slot, HasPort
<1>8. ASSUME NEW k \in Hubs, NEW q \in Ports, HasPort(k, q)
      PROVE  ShownPower(k, q)' = IF k = h /\ q = p THEN port.power ELSE ShownPower(k, q)
  BY <1>4, <1>5 DEF ShownPower
<1> QED
  BY <1>6, <1>7, <1>8

LEMMA WithReservationSlots ==
    ASSUME TypeOK, NEW h \in Hubs, NEW p \in Ports, HasPort(h, p),
           NEW r \in Reservation \cup {None}, hubs' = WithReservation(h, p, r)
    PROVE  /\ SamePower
           /\ SameShape
           /\ \A k \in Hubs, q \in Ports :
                Slot(k, q)' = IF k = h /\ q = p THEN r ELSE Slot(k, q)
<1>1. PICK port \in Port : /\ hubs' = PortReplaced(h, p, port)
                           /\ port.reservation = r /\ port.power = ShownPower(h, p)
  BY WithReservationPort DEF ShownPower
<1>2. /\ SameShape
      /\ \A k \in Hubs, q \in Ports :
           Slot(k, q)' = IF k = h /\ q = p THEN r ELSE Slot(k, q)
      /\ \A k \in Hubs, q \in Ports :
           HasPort(k, q) => ShownPower(k, q)' =
               IF k = h /\ q = p THEN ShownPower(h, p) ELSE ShownPower(k, q)
  BY <1>1, PortReplacedEffect
<1> QED
  BY <1>2 DEF SamePower

LEMMA WithPowerSlots ==
    ASSUME TypeOK, NEW h \in Hubs, NEW p \in Ports, NEW on \in BOOLEAN,
           hubs' = WithPower(h, p, on)
    PROVE  /\ SameShape
           /\ \A k \in Hubs, q \in Ports : Slot(k, q)' = Slot(k, q)
           /\ \A k \in Hubs, q \in Ports :
                HasPort(k, q) => ShownPower(k, q)' =
                    IF k = h /\ q = p THEN on ELSE ShownPower(k, q)
<1>1. CASE ~HasPort(h, p)
  BY <1>1 DEF WithPower, Slot, HasPort, SameShape, ShownPower
<1>2. CASE HasPort(h, p)
  BY <1>2, WithPowerPort, PortReplacedEffect
<1> QED
  BY <1>1, <1>2

LEMMA InsertSlots ==
    ASSUME TypeOK, FoundFresh, NEW t \in Tasks, Insert(t),
           NEW k \in Hubs, NEW q \in Ports
    PROVE  Slot(k, q)' = IF \E r \in found[t] : r.id = k THEN None ELSE Slot(k, q)
<1> DEFINE ids == {r.id : r \in found[t]}
<1>1. PICK last \in [ids -> found[t]] :
        hubs' = [h \in Hubs |-> IF h \in ids THEN last[h] ELSE hubs[h]]
  BY DEF Insert
<1>2. CASE k \in ids
  <2>1. last[k] \in found[t] /\ hubs'[k] = last[k]
    BY <1>1, <1>2
  <2> QED
    BY <1>2, <2>1 DEF FoundFresh, Slot, HasPort
<1>3. CASE k \notin ids
  BY <1>1, <1>3 DEF Slot, HasPort
<1> QED
  BY <1>2, <1>3

LEMMA MergeSlots ==
    ASSUME Inv, NEW t \in Tasks, Merge(t)
    PROVE  \E new \in found[t] : \A k \in Hubs, q \in Ports :
             Slot(k, q)' = IF k # req[t].hub THEN Slot(k, q)
                           ELSE IF new.ports[q] # None /\ Live(Slot(k, q))
                           THEN Slot(k, q)
                           ELSE None
<1> DEFINE h == req[t].hub
<1>1. TypeOK /\ FoundFresh /\ h \in Hubs
  BY AtStep DEF Inv, Merge
<1>2. PICK new \in found[t] : hubs' = [hubs EXCEPT ![h] = Merged(h, new)]
  BY DEF Merge
<1>3. new \in Hub
  BY <1>1 DEF TypeOK
<1>4. Merged(h, new) \in Hub
  BY <1>1, <1>3, MergedType
<1>5. ASSUME NEW k \in Hubs, NEW q \in Ports
      PROVE  Slot(k, q)' = IF k # h THEN Slot(k, q)
                           ELSE IF new.ports[q] # None /\ Live(Slot(k, q))
                           THEN Slot(k, q)
                           ELSE None
  <2>1. CASE k # h
    BY <1>1, <1>2, <2>1 DEF Slot, HasPort, TypeOK
  <2>2. CASE k = h
    <3>1. hubs'[k] = Merged(h, new) /\ hubs'[k] # None
      BY <1>1, <1>2, <1>4, <2>2, Constants DEF TypeOK
    <3>2. Merged(h, new).ports[q] =
            IF new.ports[q] # None /\ Live(Slot(h, q))
            THEN [new.ports[q] EXCEPT !.reservation = Slot(h, q)]
            ELSE new.ports[q]
      BY <1>3 DEF Merged, Hub
    <3>3. CASE new.ports[q] # None /\ Live(Slot(h, q))
      <4>1. new.ports[q] \in Port /\ Slot(h, q) \in Reservation \cup {None}
        BY <1>1, <1>3, <3>3, SlotType DEF Hub
      <4>2. [new.ports[q] EXCEPT !.reservation = Slot(h, q)] \in Port
        BY <4>1 DEF Port
      <4>3. [new.ports[q] EXCEPT !.reservation = Slot(h, q)].reservation = Slot(h, q)
        BY <4>1 DEF Port
      <4> QED
        BY <2>2, <3>1, <3>2, <3>3, <4>2, <4>3, Constants DEF Slot, HasPort
    <3>4. CASE ~(new.ports[q] # None /\ Live(Slot(h, q)))
      <4>1. hubs'[k].ports[q] = new.ports[q]
        BY <3>1, <3>2, <3>4
      <4>2. new.ports[q] # None => new.ports[q].reservation = None
        BY <1>1 DEF FoundFresh
      <4>3. Slot(k, q)' = None
        BY <4>1, <4>2 DEF Slot, HasPort
      <4> QED
        BY <2>2, <3>4, <4>3
    <3> QED
      BY <3>3, <3>4
  <2> QED
    BY <2>1, <2>2
<1> QED
  BY <1>5

LEMMA CleanupSlots ==
    ASSUME TypeOK, CleanupExpired, NEW k \in Hubs, NEW q \in Ports
    PROVE  Slot(k, q)' = IF Live(Slot(k, q)) THEN Slot(k, q) ELSE None
<1>1. CASE hubs[k] = None
  BY <1>1 DEF CleanupExpired, Slot, HasPort, Live
<1>2. CASE hubs[k] # None
  <2>1. hubs'[k] = [hubs[k] EXCEPT !.ports = WithoutExpired(k)]
    BY <1>2 DEF CleanupExpired
  <2>2. hubs[k] \in Hub /\ hubs'[k] # None
    <3>1. hubs[k] \in Hub
      BY <1>2 DEF TypeOK
    <3>2. hubs'[k] \in Hub
      BY <1>2, <2>1, WithoutExpiredType
    <3> QED
      BY <3>1, <3>2, Constants
  <2>3. hubs'[k].ports[q] = WithoutExpired(k)[q]
    BY <2>1, <2>2 DEF Hub
  <2>4. CASE Slot(k, q) # None /\ IsExpired(Slot(k, q))
    <3>1. hubs[k].ports[q] \in Port
      BY <2>4, SlotType DEF Slot
    <3>2. WithoutExpired(k)[q] = [hubs[k].ports[q] EXCEPT !.reservation = None]
      BY <2>4 DEF WithoutExpired
    <3>3. [hubs[k].ports[q] EXCEPT !.reservation = None].reservation = None
      BY <3>1 DEF Port
    <3> QED
      BY <2>3, <2>4, <3>2, <3>3 DEF Slot, HasPort, Live
  <2>5. CASE ~(Slot(k, q) # None /\ IsExpired(Slot(k, q)))
    <3>1. hubs'[k].ports[q] = hubs[k].ports[q]
      BY <2>3, <2>5 DEF WithoutExpired
    <3> QED
      BY <1>2, <2>2, <2>5, <3>1 DEF Slot, HasPort, Live
  <2> QED
    BY <2>4, <2>5
<1> QED
  BY <1>1, <1>2
\* A reservation is granted on a port by a step of its own.
GrantedOn(t, h, p) ==
    /\ ReserveGranted(t)
    /\ req[t].hub = h /\ req[t].port = p
    /\ Slot(h, p)' = NewReservation(t)

LEMMA GrantSlots ==
    ASSUME Inv, NEW t \in Tasks, ReserveGranted(t),
           NEW k \in Hubs, NEW q \in Ports
    PROVE  Slot(k, q)' = IF k = req[t].hub /\ q = req[t].port
                         THEN NewReservation(t)
                         ELSE Slot(k, q)
<1>1. TypeOK /\ RequestInv /\ pc[t] = "reserve"
  BY DEF Inv, ReserveGranted
<1>2. /\ req[t].hub \in Hubs /\ req[t].port \in Ports
      /\ NewReservation(t) \in Reservation
  BY <1>1, AtStep, NewReservationType
<1> QED
  BY <1>1, <1>2, WithReservationSlots DEF ReserveGranted

\* Release and Rollback empty the slot of their request, or change nothing.
LEMMA ReleaseSlots ==
    ASSUME Inv, NEW t \in Tasks, Release(t) \/ Rollback(t),
           NEW k \in Hubs, NEW q \in Ports
    PROVE  LET own == k = req[t].hub /\ q = req[t].port
               s == Slot(req[t].hub, req[t].port)
           IN  Slot(k, q)' = IF own /\ s # None /\ s.by = req[t].role
                             THEN None
                             ELSE Slot(k, q)
<1> DEFINE h == req[t].hub
           p == req[t].port
<1>1. TypeOK /\ RequestInv /\ pc[t] \in {"release", "rollback"}
  BY DEF Inv, Release, Rollback
<1>2. h \in Hubs /\ p \in Ports
  BY <1>1, AtStep
<1>3. ReleasePort(h, p, req[t].role)
  BY DEF Release, Rollback
<1>4. CASE Slot(h, p) # None /\ Slot(h, p).by = req[t].role
  <2>1. HasPort(h, p)
    BY <1>4 DEF Slot
  <2>2. hubs[h] # None
    BY <2>1 DEF HasPort
  <2>3. ReleaseOutcome(h, p, req[t].role) = "OK"
    BY <1>4, <2>1, <2>2 DEF ReleaseOutcome
  <2>4. hubs' = WithReservation(h, p, None)
    BY <1>3, <2>3 DEF ReleasePort
  <2> QED
    BY <1>1, <1>2, <1>4, <2>1, <2>4, WithReservationSlots
<1>5. CASE ~(Slot(h, p) # None /\ Slot(h, p).by = req[t].role)
  <2>1. ReleaseOutcome(h, p, req[t].role) # "OK"
    BY <1>5 DEF ReleaseOutcome, HasPort
  <2>2. hubs' = hubs
    BY <1>3, <2>1 DEF ReleasePort
  <2> QED
    BY <1>5, <2>2 DEF Slot, HasPort
<1> QED
  BY <1>4, <1>5

\* The steps that leave the reservations alone.
LEMMA QuietSlots ==
    ASSUME Inv, NEW t \in Tasks,
           \/ List(t) \/ Lookup(t) \/ Query(t) \/ Command(t) \/ Update(t)
           \/ ReserveRefused(t) \/ Reply(t),
           NEW k \in Hubs, NEW q \in Ports
    PROVE  Slot(k, q)' = Slot(k, q)
<1>1. CASE Update(t)
  <2>1. TypeOK /\ RequestInv /\ pc[t] = "update"
    BY <1>1 DEF Inv, Update
  <2>2. req[t].hub \in Hubs /\ req[t].port \in Ports /\ SwitchesOn(req[t]) \in BOOLEAN
    BY <2>1, AtStep DEF SwitchesOn
  <2> QED
    BY <1>1, <2>1, <2>2, WithPowerSlots DEF Update
<1>2. CASE ~Update(t)
  <2>1. hubs' = hubs
    BY <1>2 DEF List, Lookup, Query, Command, ReserveRefused, Reply
  <2> QED
    BY <2>1 DEF Slot, HasPort
<1> QED
  BY <1>1, <1>2

LEMMA EnvironmentSlots ==
    ASSUME \/ Tick
           \/ \E l \in Locations, h \in Hubs \cup {None} : Replug(l, h)
           \/ \E t \in Tasks, r \in Requests : Begin(t, r)
           \/ UNCHANGED vars,
           NEW k \in Hubs, NEW q \in Ports
    PROVE  Slot(k, q)' = Slot(k, q)
<1>1. hubs' = hubs
  BY DEF Tick, Replug, Begin, vars
<1> QED
  BY <1>1 DEF Slot, HasPort

LEMMA TaskSlots ==
    ASSUME Inv, NEW t \in Tasks, Step(t), NEW h \in Hubs, NEW p \in Ports
    PROVE  \/ Slot(h, p)' \in {Slot(h, p), None}
           \/ GrantedOn(t, h, p)
<1>1. CASE ReserveGranted(t)
  BY <1>1, GrantSlots DEF GrantedOn
<1>2. CASE Insert(t)
  BY <1>2, InsertSlots DEF Inv
<1>3. CASE Merge(t)
  BY <1>3, MergeSlots
<1>4. CASE Release(t) \/ Rollback(t)
  BY <1>4, ReleaseSlots
<1> QED
  BY <1>1, <1>2, <1>3, <1>4, QuietSlots DEF Step

LEMMA OtherSlots ==
    ASSUME Inv, [Next]_vars, ~ \E t \in Tasks : Step(t),
           NEW h \in Hubs, NEW p \in Ports
    PROVE  Slot(h, p)' \in {Slot(h, p), None}
BY CleanupSlots, EnvironmentSlots DEF Next, Inv

\* No reservation comes back from a request's stale copy: every reservation
\* that appears is one being granted.
THEOREM NeverResurrected == Spec => NoResurrection
<1>1. Inv /\ [Next]_vars =>
        [\A h \in Hubs, p \in Ports :
           \/ Slot(h, p)' \in {Slot(h, p), None}
           \/ \E t \in Tasks :
                /\ pc[t] = "reserve" /\ pc'[t] # "reserve"
                /\ req[t].hub = h /\ req[t].port = p
                /\ Slot(h, p)' = NewReservation(t)]_vars
  <2> SUFFICES ASSUME Inv, [Next]_vars, NEW h \in Hubs, NEW p \in Ports
               PROVE  \/ Slot(h, p)' \in {Slot(h, p), None}
                      \/ \E t \in Tasks :
                           /\ pc[t] = "reserve" /\ pc'[t] # "reserve"
                           /\ req[t].hub = h /\ req[t].port = p
                           /\ Slot(h, p)' = NewReservation(t)
    OBVIOUS
  <2>1. ASSUME NEW t \in Tasks, GrantedOn(t, h, p)
        PROVE  /\ pc[t] = "reserve" /\ pc'[t] # "reserve"
               /\ req[t].hub = h /\ req[t].port = p
               /\ Slot(h, p)' = NewReservation(t)
    BY <2>1 DEF Inv, TypeOK, GrantedOn, ReserveGranted, Answer, Goto
  <2> QED
    BY <2>1, TaskSlots, OtherSlots
<1> QED
  BY <1>1, InvAlways, PTL DEF Spec, NoResurrection
-----------------------------------------------------------------------------
(* A failing reserve_and_power_on leaves nothing of its own behind.        *)

\* Where a reserve request can come from when it may roll back, and when it
\* answers with the error of its power-on.
LEMMA ReserveControl ==
    ASSUME Inv, NEW t \in Tasks, Step(t), req'[t].op = "hub_port_reserve",
           pc'[t] # "idle"
    PROVE  /\ req'[t] = req[t]
           /\ pc'[t] \in {"lookup", "command", "update", "rollback"} =>
                \/ pc[t] \in {"lookup", "command"} /\ ~ReserveGranted(t)
                \/ ReserveGranted(t)
           /\ pc'[t] = "reply" /\ result'[t] = "HUB_INVALID_OPERATION" =>
                Rollback(t)
<1>1. TypeOK /\ RequestInv
  BY DEF Inv
<1>2. req'[t] = req[t]
  BY <1>1 DEF Step, List, Insert, Lookup, Query, Merge, Command, Update,
              ReserveRefused, ReserveGranted, Release, Rollback, Reply,
              TypeOK, Goto
<1>3. pc[t] \in StepsOf("hub_port_reserve")
  <2>1. pc[t] # "idle"
    BY DEF Step, List, Insert, Lookup, Query, Merge, Command, Update,
           ReserveRefused, ReserveGranted, Release, Rollback, Reply
  <2> QED
    BY <1>1, <1>2, <2>1, AtStep
<1>4. pc[t] \in {"reserve", "lookup", "command", "update", "rollback", "reply"}
  BY <1>3 DEF StepsOf
<1> USE DEF TypeOK, Answer, Goto, Fail
<1>5. CASE Lookup(t) \/ Command(t)
  BY <1>1, <1>2, <1>5 DEF Lookup, Command, ReserveGranted
<1>6. CASE Update(t) \/ ReserveRefused(t) \/ Rollback(t) \/ Reply(t)
  BY <1>1, <1>2, <1>6 DEF Update, ReserveRefused, Rollback, Reply
<1>7. CASE ReserveGranted(t)
  BY <1>1, <1>2, <1>7 DEF ReserveGranted
<1>8. CASE List(t) \/ Insert(t) \/ Query(t) \/ Merge(t) \/ Release(t)
  BY <1>4, <1>8 DEF List, Insert, Query, Merge, Release
<1> QED
  BY <1>5, <1>6, <1>7, <1>8 DEF Step

GrantInv == Inv /\ GrantByRole /\ NoLeakedGrant

LEMMA GrantStep ==
    ASSUME GrantInv, [Next]_vars
    PROVE  GrantByRole' /\ NoLeakedGrant'
<1> USE DEF GrantInv
<1>1. RequestInv' /\ TypeOK /\ RequestInv
  BY InvStep DEF Inv
<1> SUFFICES ASSUME NEW t \in Tasks, req'[t].op = "hub_port_reserve"
             PROVE  LET r == Slot(req[t].hub, req[t].port)' IN
                    /\ pc'[t] \in {"lookup", "command", "update", "rollback"} =>
                         r = None \/ r.holder # t \/ r.by = req'[t].role
                    /\ pc'[t] = "reply" /\ result'[t] = "HUB_INVALID_OPERATION" =>
                         r = None \/ r.holder # t
  BY DEF GrantByRole, NoLeakedGrant
\* The slot is one fixed slot, whether or not req changes.
<1>a. PICK h, p : h = req'[t].hub /\ p = req'[t].port
  OBVIOUS
<1>b. Slot(req[t].hub, req[t].port)' = Slot(h, p)'
  BY <1>a DEF Slot, HasPort
<1> SUFFICES /\ pc'[t] \in {"lookup", "command", "update", "rollback"} =>
                  \/ Slot(h, p)' = None
                  \/ Slot(h, p)'.holder # t
                  \/ Slot(h, p)'.by = req'[t].role
             /\ pc'[t] = "reply" /\ result'[t] = "HUB_INVALID_OPERATION" =>
                  \/ Slot(h, p)' = None
                  \/ Slot(h, p)'.holder # t
  BY <1>b
<1> USE <1>a
<1>2. CASE Step(t)
  <2>1. CASE ReserveGranted(t)
    <3>1. pc[t] = "reserve" /\ h = req[t].hub /\ p = req[t].port
      BY <2>1 DEF ReserveGranted
    <3>2. Slot(h, p)' = NewReservation(t)
      BY <1>1, <2>1, <3>1, AtStep, GrantSlots
    <3>3. NewReservation(t).by = req[t].role
      BY DEF NewReservation
    <3>4. ~(pc'[t] = "reply" /\ result'[t] = "HUB_INVALID_OPERATION")
      BY <1>1, <2>1 DEF ReserveGranted, Answer, Goto, TypeOK
    <3>5. req'[t] = req[t]
      BY <2>1 DEF ReserveGranted
    <3> QED
      BY <3>2, <3>3, <3>4, <3>5
  <2>2. CASE pc'[t] \in {"lookup", "command", "update", "rollback"}
               /\ ~ReserveGranted(t)
    <3>1. req'[t] = req[t] /\ pc[t] \in {"lookup", "command"}
      BY <1>2, <2>2, ReserveControl
    <3>2. h \in Hubs /\ p \in Ports
      BY <1>1, <3>1, AtStep, RequestType DEF AllOps
    <3>3. Slot(h, p)' \in {Slot(h, p), None}
      BY <1>2, <2>2, <3>2, TaskSlots DEF GrantedOn
    <3> QED
      BY <2>2, <3>1, <3>3 DEF GrantByRole
  <2>3. CASE pc'[t] = "reply" /\ result'[t] = "HUB_INVALID_OPERATION"
    <3>1. req'[t] = req[t] /\ Rollback(t)
      BY <1>2, <2>3, ReserveControl
    <3>2. pc[t] = "rollback" /\ h \in Hubs /\ p \in Ports
      BY <1>1, <3>1, AtStep DEF Rollback
    <3>3. Slot(h, p)' = IF Slot(h, p) # None /\ Slot(h, p).by = req[t].role
                        THEN None
                        ELSE Slot(h, p)
      BY <3>1, <3>2, ReleaseSlots
    <3> QED
      BY <2>3, <3>1, <3>2, <3>3 DEF GrantByRole
  <2> QED
    BY <2>1, <2>2, <2>3
<1>3. CASE \E u \in Tasks : u # t /\ Step(u)
  <2>1. PICK u \in Tasks : u # t /\ Step(u)
    BY <1>3
  <2>2. pc'[t] = pc[t] /\ req'[t] = req[t] /\ result'[t] = result[t]
    BY <1>1, <2>1, OthersUntouched
  <2>3. CASE pc[t] # "idle"
    <3>1. h \in Hubs /\ p \in Ports
      BY <1>1, <2>2, <2>3, AtStep, RequestType DEF AllOps
    <3>2. Slot(h, p)' \in {Slot(h, p), None} \/ Slot(h, p)' = NewReservation(u)
      BY <2>1, <3>1, TaskSlots DEF GrantedOn
    <3>3. NewReservation(u).holder # t
      BY <2>1 DEF NewReservation
    <3> QED
      BY <2>2, <3>2, <3>3 DEF GrantByRole, NoLeakedGrant
  <2>4. CASE pc[t] = "idle"
    BY <2>2, <2>4
  <2> QED
    BY <2>3, <2>4
<1>4. CASE ~ \E u \in Tasks : Step(u)
  <2>1. CASE \E r \in Requests : Begin(t, r)
    BY <1>1, <2>1 DEF Begin, Goto, FirstStep, TypeOK
  <2>2. CASE ~ \E r \in Requests : Begin(t, r)
    <3>1. pc'[t] = pc[t] /\ req'[t] = req[t] /\ result'[t] = result[t]
      BY <1>1, <1>4, <2>2 DEF Next, Tick, CleanupExpired, Replug, Begin, Goto,
                              vars, TypeOK
    <3>2. CASE pc[t] # "idle"
      <4>1. h \in Hubs /\ p \in Ports
        BY <1>1, <3>1, <3>2, AtStep, RequestType DEF AllOps
      <4>2. Slot(h, p)' \in {Slot(h, p), None}
        BY <1>4, <4>1, OtherSlots
      <4> QED
        BY <3>1, <4>2 DEF GrantByRole, NoLeakedGrant
    <3>3. CASE pc[t] = "idle"
      BY <3>1, <3>3
    <3> QED
      BY <3>2, <3>3
  <2> QED
    BY <2>1, <2>2
<1> QED
  BY <1>2, <1>3, <1>4

\* However long the power-on took, and whoever else reserved, released or
\* rediscovered meanwhile, a reserve request that answers with the error of
\* its power-on holds no reservation on the port.
THEOREM NothingLeaked == Spec => []NoLeakedGrant
<1>1. Init => GrantInv
  BY InvInit DEF Init, GrantInv, GrantByRole, NoLeakedGrant
<1>2. GrantInv /\ [Next]_vars => GrantInv'
  BY GrantStep, InvStep DEF GrantInv
<1>3. GrantInv => NoLeakedGrant
  BY DEF GrantInv
<1> QED
  BY <1>1, <1>2, <1>3, PTL DEF Spec
-----------------------------------------------------------------------------
(* While the bus stays as it is, the registry agrees with it.              *)

\* A hub record gives the place and the ports of hub h.
Describes(r, h) ==
    /\ bus[r.location] = h
    /\ \A p \in Ports : r.ports[p] # None <=> p \in PortsOf[h]

\* Registry, listings and copied locations are about the hubs they name.
Located ==
    /\ \A h \in Hubs : hubs[h] # None => Describes(hubs[h], h)
    /\ \A t \in Tasks : \A r \in found[t] : Describes(r, r.id)
    /\ \A t \in Tasks :
         /\ pc[t] = "query" => bus[loc[t]] = req[t].hub
         /\ pc[t] = "merge" => \A r \in found[t] : r.id = req[t].hub

StaticBus == MaxReplugs = 0

StaticInv == Inv /\ Located

LEMMA BusFixed ==
    ASSUME StaticBus, TypeOK, [Next]_vars
    PROVE  bus' = bus
<1>1. replugs = 0
  BY DEF StaticBus, TypeOK
<1>2. ASSUME NEW l \in Locations, NEW h \in Hubs \cup {None}
      PROVE  ~Replug(l, h)
  BY <1>1 DEF Replug, StaticBus
<1>3. ASSUME NEW t \in Tasks, Step(t)
      PROVE  bus' = bus
  BY <1>3 DEF Step, List, Insert, Lookup, Query, Merge, Command, Update,
              ReserveRefused, ReserveGranted, Release, Rollback, Reply, hardware
<1> QED
  BY <1>2, <1>3 DEF Next, Tick, CleanupExpired, Begin, vars, hardware

\* What a run of uhubctl lists describes the hub it names.
LEMMA ListingDescribes ==
    ASSUME TypeOK, NEW r \in Listing
    PROVE  Describes(r, r.id)
<1>1. PICK l \in Locations : bus[l] # None /\ r = Parsed(l)
  BY DEF Listing
<1>2. ASSUME NEW p \in Ports
      PROVE  r.ports[p] # None <=> p \in PortsOf[bus[l]]
  <2>1. r.ports[p] = IF p \in PortsOf[bus[l]]
                     THEN [power |-> power[l][p], reservation |-> None]
                     ELSE None
    BY <1>1 DEF Parsed
  <2>2. r.ports[p] \in Port \cup {None} /\ [power |-> power[l][p], reservation |-> None] \in Port
    BY <1>1, ParsedType DEF Hub, Port, TypeOK
  <2> QED
    BY <2>1, <2>2, Constants
<1>3. r.id = bus[l] /\ r.location = l
  BY <1>1 DEF Parsed
<1> QED
  BY <1>2, <1>3 DEF Describes

LEMMA CleanupShape ==
    ASSUME TypeOK, CleanupExpired
    PROVE  SameShape
<1> SUFFICES ASSUME NEW k \in Hubs
             PROVE  /\ hubs'[k] = None <=> hubs[k] = None
                    /\ hubs[k] # None =>
                         /\ hubs'[k].location = hubs[k].location
                         /\ \A q \in Ports :
                              hubs'[k].ports[q] # None <=> hubs[k].ports[q] # None
  BY DEF SameShape
<1>1. CASE hubs[k] = None
  BY <1>1 DEF CleanupExpired
<1>2. CASE hubs[k] # None
  <2>1. hubs'[k] = [hubs[k] EXCEPT !.ports = WithoutExpired(k)]
    BY <1>2 DEF CleanupExpired
  <2>2. hubs[k] \in Hub /\ hubs'[k] # None
    <3>1. hubs[k] \in Hub
      BY <1>2 DEF TypeOK
    <3>2. hubs'[k] \in Hub
      BY <1>2, <2>1, WithoutExpiredType
    <3> QED
      BY <3>1, <3>2, Constants
  <2> DEFINE hub == [hubs[k] EXCEPT !.ports = WithoutExpired(k)]
  <2>a. hub.ports = WithoutExpired(k) /\ hub.location = hubs[k].location
    BY <2>2 DEF Hub
  <2>3. hubs'[k].ports = WithoutExpired(k) /\ hubs'[k].location = hubs[k].location
    BY <2>1, <2>a
  <2> HIDE DEF hub
  <2>4. ASSUME NEW q \in Ports
        PROVE  WithoutExpired(k)[q] # None <=> hubs[k].ports[q] # None
    <3>1. CASE Slot(k, q) # None /\ IsExpired(Slot(k, q))
      <4>1. hubs[k].ports[q] \in Port
        BY <3>1, SlotType DEF Slot
      <4>2. [hubs[k].ports[q] EXCEPT !.reservation = None] \in Port
        BY <4>1 DEF Port
      <4> QED
        BY <3>1, <4>1, <4>2, Constants DEF WithoutExpired
    <3>2. CASE ~(Slot(k, q) # None /\ IsExpired(Slot(k, q)))
      BY <3>2 DEF WithoutExpired
    <3> QED
      BY <3>1, <3>2
  <2>5. \A q \in Ports : hubs'[k].ports[q] # None <=> hubs[k].ports[q] # None
    BY <2>3, <2>4
  <2> QED
    BY <1>2, <2>2, <2>3, <2>5
<1> QED
  BY <1>1, <1>2
\* Merging changes neither the place nor the ports of the fresh record.
LEMMA MergedShape ==
    ASSUME TypeOK, NEW h \in Hubs, NEW new \in Hub
    PROVE  /\ Merged(h, new).location = new.location
           /\ \A q \in Ports : Merged(h, new).ports[q] # None <=> new.ports[q] # None
<1> DEFINE ports == [p \in Ports |->
              IF new.ports[p] # None /\ Live(Slot(h, p))
              THEN [new.ports[p] EXCEPT !.reservation = Slot(h, p)]
              ELSE new.ports[p]]
<1>1. /\ Merged(h, new).location = new.location
      /\ Merged(h, new).ports = ports
  BY DEF Merged, Hub
<1>2. ASSUME NEW q \in Ports
      PROVE  ports[q] # None <=> new.ports[q] # None
  <2>1. new.ports[q] \in Port \cup {None} /\ Slot(h, q) \in Reservation \cup {None}
    BY SlotType DEF Hub
  <2>2. new.ports[q] # None => [new.ports[q] EXCEPT !.reservation = Slot(h, q)] \in Port
    BY <2>1 DEF Port
  <2> QED
    BY <2>1, <2>2, Constants
<1> QED
  BY <1>1, <1>2

\* The steps that neither insert nor merge keep the registry's shape.
LEMMA ShapeStep ==
    ASSUME Inv, [Next]_vars, ~ \E t \in Tasks : Insert(t) \/ Merge(t)
    PROVE  SameShape
<1>1. TypeOK /\ RequestInv
  BY DEF Inv
<1>2. ASSUME hubs' = hubs
      PROVE  SameShape
  BY <1>2 DEF SameShape
<1>3. ASSUME NEW t \in Tasks, Step(t)
      PROVE  SameShape
  <2>1. CASE Update(t)
    <3>1. /\ req[t].hub \in Hubs /\ req[t].port \in Ports
          /\ SwitchesOn(req[t]) \in BOOLEAN
      BY <1>1, <2>1, AtStep DEF Update, SwitchesOn
    <3> QED
      BY <1>1, <2>1, <3>1, WithPowerSlots DEF Update
  <2>2. CASE ReserveGranted(t)
    <3>1. /\ req[t].hub \in Hubs /\ req[t].port \in Ports
          /\ NewReservation(t) \in Reservation
      BY <1>1, <2>2, AtStep, NewReservationType DEF ReserveGranted
    <3>2. /\ HasPort(req[t].hub, req[t].port)
          /\ hubs' = WithReservation(req[t].hub, req[t].port, NewReservation(t))
      BY <2>2 DEF ReserveGranted
    <3> QED
      BY <1>1, <3>1, <3>2, WithReservationSlots
  <2>3. CASE Release(t) \/ Rollback(t)
    <3>1. pc[t] \in {"release", "rollback"}
      BY <2>3 DEF Release, Rollback
    <3>2. ReleasePort(req[t].hub, req[t].port, req[t].role)
      BY <2>3 DEF Release, Rollback
    <3>3. ReleaseOutcome(req[t].hub, req[t].port, req[t].role) = "OK" =>
            HasPort(req[t].hub, req[t].port)
      BY DEF ReleaseOutcome, HasPort
    <3> QED
      BY <1>1, <1>2, <3>1, <3>2, <3>3, AtStep, WithReservationSlots DEF ReleasePort
  <2>4. CASE List(t) \/ Lookup(t) \/ Query(t) \/ Command(t) \/ ReserveRefused(t)
               \/ Reply(t)
    BY <1>2, <2>4 DEF List, Lookup, Query, Command, ReserveRefused, Reply
  <2> QED
    BY <1>3, <2>1, <2>2, <2>3, <2>4 DEF Step
<1> QED
  BY <1>1, <1>2, <1>3, CleanupShape DEF Next, Tick, Replug, Begin, vars

LEMMA LocatedStep ==
    ASSUME StaticBus, StaticInv, [Next]_vars
    PROVE  Located'
<1>1. TypeOK /\ RequestInv /\ Inv /\ Located /\ bus' = bus
  BY BusFixed DEF StaticInv, Inv
<1>2. ASSUME NEW r, NEW h, Describes(r, h)
      PROVE  Describes(r, h)'
  BY <1>1, <1>2 DEF Describes
<1>3. ASSUME NEW h \in Hubs, hubs'[h] # None
      PROVE  Describes(hubs[h], h)'
  <2>1. CASE ~ \E t \in Tasks : Insert(t) \/ Merge(t)
    <3>1. SameShape
      BY <1>1, <2>1, ShapeStep
    <3> QED
      BY <1>1, <1>3, <3>1 DEF SameShape, Located, Describes
  <2>2. ASSUME NEW t \in Tasks, Insert(t)
        PROVE  Describes(hubs'[h], h)
    BY <1>1, <1>3, <2>2 DEF Insert, Located
  <2>3. ASSUME NEW t \in Tasks, Merge(t)
        PROVE  Describes(hubs'[h], h)
    <3>1. req[t].hub \in Hubs /\ pc[t] = "merge"
      BY <1>1, <2>3, AtStep DEF Merge
    <3>2. PICK new \in found[t] :
            hubs' = [hubs EXCEPT ![req[t].hub] = Merged(req[t].hub, new)]
      BY <2>3 DEF Merge
    <3>3. new \in Hub /\ Describes(new, req[t].hub)
      BY <1>1, <3>1 DEF Located, TypeOK
    <3>4. Describes(Merged(req[t].hub, new), req[t].hub)
      BY <1>1, <3>1, <3>3, MergedShape DEF Describes
    <3> QED
      BY <1>1, <1>3, <3>1, <3>2, <3>4 DEF Located, TypeOK
  <2>4. ASSUME Describes(hubs'[h], h)
        PROVE  Describes(hubs[h], h)'
    BY <1>1, <2>4 DEF Describes
  <2> QED
    BY <2>1, <2>2, <2>3, <2>4
<1>4. ASSUME NEW u \in Tasks, NEW r \in found'[u]
      PROVE  Describes(r, r.id)
  BY <1>1, FoundGrows, ListingDescribes DEF Located
<1>5. ASSUME NEW u \in Tasks
      PROVE  /\ pc'[u] = "query" => bus[loc'[u]] = req'[u].hub
             /\ pc'[u] = "merge" => \A r \in found'[u] : r.id = req'[u].hub
  <2>1. CASE Step(u)
    <3> USE <1>1 DEF TypeOK, Answer, Goto, Fail
    <3>1. CASE Lookup(u)
      <4>1. req[u].hub \in Hubs
        BY <3>1, AtStep DEF Lookup
      <4> QED
        BY <3>1, <4>1 DEF Lookup, Located, Describes
    <3>2. CASE Query(u)
      <4>1. ASSUME NEW r \in ListedAt(loc[u])
            PROVE  r.id = req[u].hub
        BY <3>2, <4>1, ListingDescribes DEF ListedAt, Query, Located, Describes
      <4> QED
        BY <3>2, <4>1 DEF Query
    <3>3. CASE ~Lookup(u) /\ ~Query(u)
      BY <2>1, <3>3 DEF Step, List, Insert, Merge, Command, Update,
                        ReserveRefused, ReserveGranted, Release, Rollback, Reply
    <3> QED
      BY <3>1, <3>2, <3>3
  <2>2. CASE \E t \in Tasks : t # u /\ Step(t)
    BY <1>1, <2>2, OthersUntouched DEF Located
  <2>3. CASE ~ \E t \in Tasks : Step(t)
    <3>1. CASE \E r \in Requests : Begin(u, r)
      BY <1>1, <3>1 DEF Begin, Goto, FirstStep, TypeOK
    <3>2. CASE ~ \E r \in Requests : Begin(u, r)
      BY <1>1, <2>3, <3>2 DEF Next, Tick, CleanupExpired, Replug, Begin, Goto,
                              vars, TypeOK, Located
    <3> QED
      BY <3>1, <3>2
  <2> QED
    BY <2>1, <2>2, <2>3
<1> QED
  BY <1>1, <1>2, <1>3, <1>4, <1>5 DEF Located

\* While no hub is replugged, two live reservations never stand for the same
\* physical port, although refresh_hub files what it finds at a location
\* under the id it was asked for.
THEOREM ExclusiveOnHardware ==
    ASSUME StaticBus
    PROVE  Spec => []PhysicalExclusive
<1>1. Init => StaticInv
  BY InvInit DEF Init, StaticInv, Located
<1>2. StaticInv /\ [Next]_vars => StaticInv'
  BY LocatedStep, InvStep DEF StaticInv
<1>3. StaticInv => PhysicalExclusive
  BY DEF StaticInv, Located, Describes, PhysicalExclusive, Slot, HasPort, Live
<1> QED
  BY <1>1, <1>2, <1>3, PTL DEF Spec
-----------------------------------------------------------------------------
(* While the bus stays as it is, the manager implements PortLease.         *)

LEMMA LeaseAt ==
    ASSUME TypeOK, NEW h \in Hubs, NEW p \in Ports
    PROVE  /\ leases[<<h, p>>] = LeaseOf(Slot(h, p))
           /\ Leases!InForce(leases[<<h, p>>]) <=> Live(Slot(h, p))
           /\ leases[<<h, p>>] = None <=> Slot(h, p) = None
           /\ Slot(h, p) # None => leases[<<h, p>>].by = Slot(h, p).by
<1>1. leases[<<h, p>>] = LeaseOf(Slot(h, p))
  BY DEF leases
<1>2. CASE Slot(h, p) = None
  BY <1>1, <1>2 DEF LeaseOf, Leases!InForce, Live
<1>3. CASE Slot(h, p) # None
  <2>1. Slot(h, p) \in Reservation
    BY <1>3, SlotType
  <2>2. LeaseOf(Slot(h, p)) = [by |-> Slot(h, p).by, expires |-> Slot(h, p).expires]
    BY <1>3 DEF LeaseOf
  <2>3. LeaseOf(Slot(h, p)) \in [by : Roles, expires : Nat \cup {None}]
    BY <2>1, <2>2 DEF Reservation
  <2>4. LeaseOf(Slot(h, p)) # None
    BY <2>3, Constants
  <2> QED
    BY <1>1, <1>3, <2>2, <2>4
       DEF Leases!InForce, Leases!Expired, Live, IsExpired
<1> QED
  BY <1>2, <1>3

\* A step that leaves every reservation as it was leaves every lease.
LEMMA SameLeases ==
    ASSUME \A h \in Hubs, p \in Ports : Slot(h, p)' = Slot(h, p)
    PROVE  leases' = leases
BY DEF leases, LeaseOf

\* A step that changes one reservation changes one lease.
LEMMA OneLease ==
    ASSUME NEW h \in Hubs, NEW p \in Ports, NEW l,
           \A k \in Hubs, q \in Ports :
             LeaseOf(Slot(k, q)') = IF k = h /\ q = p THEN l ELSE LeaseOf(Slot(k, q))
    PROVE  leases' = [leases EXCEPT ![<<h, p>>] = l]
<1>1. leases' = [k \in Hubs \X Ports |-> LeaseOf(Slot(k[1], k[2])')]
  BY DEF leases, LeaseOf
<1>2. ASSUME NEW k \in Hubs \X Ports
      PROVE  LeaseOf(Slot(k[1], k[2])') = IF k = <<h, p>> THEN l ELSE leases[k]
  <2>1. k[1] \in Hubs /\ k[2] \in Ports /\ k = <<k[1], k[2]>>
    OBVIOUS
  <2>2. leases[k] = LeaseOf(Slot(k[1], k[2]))
    BY DEF leases
  <2>3. k = <<h, p>> <=> k[1] = h /\ k[2] = p
    BY <2>1
  <2> QED
    BY <2>1, <2>2, <2>3
<1>3. leases' = [k \in Hubs \X Ports |-> IF k = <<h, p>> THEN l ELSE leases[k]]
  BY <1>1, <1>2
<1>4. leases = [k \in Hubs \X Ports |-> leases[k]]
  BY DEF leases
<1> QED
  BY <1>3, <1>4

\* A step that drops only reservations that are not live is a Lapse.
LEMMA LapseStep ==
    ASSUME TypeOK, now' = now, NEW K \in SUBSET (Hubs \X Ports),
           \A h \in Hubs, p \in Ports :
             /\ <<h, p>> \in K => ~Live(Slot(h, p))
             /\ Slot(h, p)' = IF <<h, p>> \in K THEN None ELSE Slot(h, p)
    PROVE  Leases!Next
<1>1. \A k \in K : ~Leases!InForce(leases[k])
  BY LeaseAt
<1>2. leases' = [k \in Hubs \X Ports |-> IF k \in K THEN None ELSE leases[k]]
  <2>1. ASSUME NEW h \in Hubs, NEW p \in Ports
        PROVE  LeaseOf(Slot(h, p)') = IF <<h, p>> \in K THEN None ELSE LeaseOf(Slot(h, p))
    BY DEF LeaseOf
  <2> QED
    BY <2>1 DEF leases, LeaseOf
<1>3. Leases!Lapse(K)
  BY <1>1, <1>2 DEF Leases!Lapse, Leases!Keys
<1> QED
  BY <1>3 DEF Leases!Next, Leases!Keys

LEMMA InsertForgets ==
    ASSUME Inv, NEW t \in Tasks, Insert(t)
    PROVE  Leases!Next
<1> DEFINE H == {h \in Hubs : \E r \in found[t] : r.id = h}
<1>1. TypeOK /\ FoundFresh /\ now' = now
  BY DEF Inv, Insert
<1>2. ASSUME NEW h \in Hubs, NEW p \in Ports
      PROVE  Slot(h, p)' = IF h \in H THEN None ELSE Slot(h, p)
  BY <1>1, InsertSlots
<1>3. leases' = [k \in Hubs \X Ports |-> IF k[1] \in H THEN None ELSE leases[k]]
  <2>1. ASSUME NEW h \in Hubs, NEW p \in Ports
        PROVE  LeaseOf(Slot(h, p)') = IF h \in H THEN None ELSE LeaseOf(Slot(h, p))
    BY <1>2 DEF LeaseOf
  <2> QED
    BY <2>1 DEF leases, LeaseOf
<1>4. Leases!Forget(H)
  BY <1>1, <1>3 DEF Leases!Forget, Leases!Keys
<1> QED
  BY <1>4 DEF Leases!Next

\* What a refresh finds has every port of the record it replaces, so that
\* no live reservation is lost with its port.
LEMMA MergeKeepsLive ==
    ASSUME StaticInv, NEW t \in Tasks, Merge(t)
    PROVE  \A k \in Hubs, q \in Ports :
             Slot(k, q)' = IF k # req[t].hub \/ Live(Slot(k, q)) THEN Slot(k, q)
                           ELSE None
<1> DEFINE h == req[t].hub
<1>1. TypeOK /\ Inv /\ Located /\ h \in Hubs /\ pc[t] = "merge"
  BY AtStep DEF StaticInv, Inv, Merge
<1>2. PICK new \in found[t] : \A k \in Hubs, q \in Ports :
        Slot(k, q)' = IF k # h THEN Slot(k, q)
                      ELSE IF new.ports[q] # None /\ Live(Slot(k, q))
                      THEN Slot(k, q)
                      ELSE None
  BY <1>1, MergeSlots
<1>3. ASSUME NEW q \in Ports, Live(Slot(h, q))
      PROVE  new.ports[q] # None
  <2>1. HasPort(h, q)
    BY <1>3 DEF Live, Slot
  <2>2. Describes(hubs[h], h) /\ Describes(new, h)
    BY <1>1, <2>1 DEF Located, HasPort
  <2> QED
    BY <2>1, <2>2 DEF Describes, HasPort
<1> QED
  BY <1>2, <1>3

LEMMA MergeLapses ==
    ASSUME StaticInv, NEW t \in Tasks, Merge(t)
    PROVE  Leases!Next
<1> DEFINE h == req[t].hub
           K == {k \in Hubs \X Ports : k[1] = h /\ ~Live(Slot(k[1], k[2]))}
<1>1. TypeOK /\ Inv /\ Located /\ now' = now /\ h \in Hubs /\ pc[t] = "merge"
  BY AtStep DEF StaticInv, Inv, Merge
<1>2. \A k \in Hubs, q \in Ports :
        Slot(k, q)' = IF k # h \/ Live(Slot(k, q)) THEN Slot(k, q) ELSE None
  BY MergeKeepsLive
<1>3. ASSUME NEW k \in Hubs, NEW q \in Ports
      PROVE  /\ <<k, q>> \in K => ~Live(Slot(k, q))
             /\ Slot(k, q)' = IF <<k, q>> \in K THEN None ELSE Slot(k, q)
  BY <1>2
<1> HIDE DEF K
<1>4. K \in SUBSET (Hubs \X Ports)
  BY DEF K
<1> QED
  BY <1>1, <1>3, <1>4, LapseStep

LEMMA CleanupLapses ==
    ASSUME Inv, CleanupExpired
    PROVE  Leases!Next
<1> DEFINE K == {k \in Hubs \X Ports : ~Live(Slot(k[1], k[2]))}
<1>1. TypeOK /\ now' = now
  BY DEF Inv, CleanupExpired
<1>2. ASSUME NEW k \in Hubs, NEW q \in Ports
      PROVE  /\ <<k, q>> \in K => ~Live(Slot(k, q))
             /\ Slot(k, q)' = IF <<k, q>> \in K THEN None ELSE Slot(k, q)
  BY <1>1, CleanupSlots
<1>3. K \in SUBSET (Hubs \X Ports)
  OBVIOUS
<1> HIDE DEF K
<1> QED
  BY <1>1, <1>2, <1>3, LapseStep

LEMMA GrantAcquires ==
    ASSUME Inv, NEW t \in Tasks, ReserveGranted(t)
    PROVE  Leases!Next
<1> DEFINE h == req[t].hub
           p == req[t].port
           d == req[t].duration
           l == [by |-> req[t].role, expires |-> Leases!Deadline(d)]
<1>1. TypeOK /\ RequestInv /\ pc[t] = "reserve" /\ now' = now
  BY DEF Inv, ReserveGranted
<1>2. /\ h \in Hubs /\ p \in Ports /\ req[t] \in ReserveRequests
      /\ NewReservation(t) \in Reservation
  BY <1>1, AtStep, NewReservationType
<1>3. req[t].role \in Roles /\ d \in Durations
  BY <1>2 DEF ReserveRequests
<1>4. LeaseOf(NewReservation(t)) = l
  BY <1>2, Constants DEF LeaseOf, NewReservation, Leases!Deadline
<1>5. leases' = [leases EXCEPT ![<<h, p>>] = l]
  <2>1. ASSUME NEW k \in Hubs, NEW q \in Ports
        PROVE  LeaseOf(Slot(k, q)') = IF k = h /\ q = p THEN l ELSE LeaseOf(Slot(k, q))
    BY <1>4, GrantSlots
  <2> HIDE DEF l
  <2> QED
    BY <1>2, <2>1, OneLease
<1>6. ~Leases!InForce(leases[<<h, p>>])
  BY <1>1, <1>2, LeaseAt DEF ReserveGranted
<1>7. Leases!Acquire(<<h, p>>, req[t].role, d)
  BY <1>1, <1>5, <1>6 DEF Leases!Acquire
<1>8. <<h, p>> \in Leases!Keys
  BY <1>2 DEF Leases!Keys
<1> QED
  BY <1>3, <1>7, <1>8 DEF Leases!Next

LEMMA ReleaseReleases ==
    ASSUME Inv, NEW t \in Tasks, Release(t) \/ Rollback(t)
    PROVE  Leases!Next \/ (leases' = leases /\ now' = now)
<1> DEFINE h == req[t].hub
           p == req[t].port
<1>1. /\ TypeOK /\ RequestInv /\ pc[t] \in {"release", "rollback"} /\ now' = now
  BY DEF Inv, Release, Rollback
<1>2. h \in Hubs /\ p \in Ports /\ req[t].role \in Roles
  BY <1>1, AtStep DEF ReserveRequests, ReleaseRequests
<1>3. CASE Slot(h, p) # None /\ Slot(h, p).by = req[t].role
  <2>1. leases' = [leases EXCEPT ![<<h, p>>] = None]
    <3>1. ASSUME NEW k \in Hubs, NEW q \in Ports
          PROVE  LeaseOf(Slot(k, q)') = IF k = h /\ q = p THEN None ELSE LeaseOf(Slot(k, q))
      BY <1>3, ReleaseSlots DEF LeaseOf
    <3> QED
      BY <1>2, <3>1, OneLease
  <2>2. leases[<<h, p>>] # None /\ leases[<<h, p>>].by = req[t].role
    BY <1>1, <1>2, <1>3, LeaseAt
  <2>3. Leases!Release(<<h, p>>, req[t].role)
    BY <1>1, <2>1, <2>2 DEF Leases!Release
  <2>4. <<h, p>> \in Leases!Keys
    BY <1>2 DEF Leases!Keys
  <2> QED
    BY <1>2, <2>3, <2>4 DEF Leases!Next
<1>4. CASE ~(Slot(h, p) # None /\ Slot(h, p).by = req[t].role)
  <2>1. \A k \in Hubs, q \in Ports : Slot(k, q)' = Slot(k, q)
    BY <1>4, ReleaseSlots
  <2> QED
    BY <1>1, <2>1, SameLeases
<1> QED
  BY <1>3, <1>4

LEMMA LeaseStep ==
    ASSUME StaticInv, [Next]_vars
    PROVE  [Leases!Next]_(Leases!vars)
<1>1. TypeOK /\ Inv
  BY DEF StaticInv, Inv
<1>2. ASSUME leases' = leases, now' = now
      PROVE  UNCHANGED Leases!vars
  BY <1>2 DEF Leases!vars
<1>3. CASE Tick
  <2>1. leases' = leases
    BY <1>3, EnvironmentSlots, SameLeases
  <2>2. Leases!Tick
    BY <1>3, <2>1 DEF Tick, Leases!Tick
  <2> QED
    BY <2>2 DEF Leases!Next
<1>4. CASE CleanupExpired
  BY <1>1, <1>4, CleanupLapses
<1>5. CASE \/ \E l \in Locations, h \in Hubs \cup {None} : Replug(l, h)
           \/ \E t \in Tasks, r \in Requests : Begin(t, r)
           \/ UNCHANGED vars
  <2>1. leases' = leases
    BY <1>5, EnvironmentSlots, SameLeases
  <2>2. now' = now
    BY <1>5 DEF Replug, Begin, vars
  <2> QED
    BY <1>2, <2>1, <2>2
<1>6. ASSUME NEW t \in Tasks, Step(t)
      PROVE  [Leases!Next]_(Leases!vars)
  <2>1. CASE Insert(t)
    BY <1>1, <2>1, InsertForgets
  <2>2. CASE Merge(t)
    BY <2>2, MergeLapses
  <2>3. CASE ReserveGranted(t)
    BY <1>1, <2>3, GrantAcquires
  <2>4. CASE Release(t) \/ Rollback(t)
    BY <1>1, <1>2, <2>4, ReleaseReleases
  <2>5. CASE \/ List(t) \/ Lookup(t) \/ Query(t) \/ Command(t) \/ Update(t)
             \/ ReserveRefused(t) \/ Reply(t)
    <3>1. leases' = leases
      BY <1>1, <2>5, QuietSlots, SameLeases
    <3>2. now' = now
      BY <2>5 DEF List, Lookup, Query, Command, Update, ReserveRefused, Reply
    <3> QED
      BY <1>2, <3>1, <3>2
  <2> QED
    BY <1>6, <2>1, <2>2, <2>3, <2>4, <2>5 DEF Step
<1> QED
  BY <1>3, <1>4, <1>5, <1>6 DEF Next

\* While no hub is replugged, every interleaving of the requests' lock
\* sections and uhubctl runs is a behaviour of the leases: granted only where
\* none is in force, ended only by their role, their deadline or a
\* rediscovery.
THEOREM LeasesImplemented ==
    ASSUME StaticBus
    PROVE  Spec => ImplementsLeases
<1>1. Init => StaticInv
  BY InvInit DEF Init, StaticInv, Located
<1>2. StaticInv /\ [Next]_vars => StaticInv'
  BY LocatedStep, InvStep DEF StaticInv
<1>3. Init => Leases!Init
  BY DEF Init, Leases!Init, Leases!Keys, leases, LeaseOf, Slot, HasPort
<1>4. StaticInv /\ [Next]_vars => [Leases!Next]_(Leases!vars)
  BY LeaseStep
<1> QED
  BY <1>1, <1>2, <1>3, <1>4, PTL DEF Spec, ImplementsLeases, Leases!Spec

\* Who ended a live reservation that changes at a step.
EndedBy(t, h, p) ==
    \/ /\ pc[t] \in {"release", "rollback"} /\ pc'[t] # pc[t]
       /\ req[t].hub = h /\ req[t].port = p /\ req[t].role = Slot(h, p).by
    \/ pc[t] = "insert" /\ pc'[t] # pc[t] /\ \E r \in found[t] : r.id = h

LEMMA StepEnds ==
    ASSUME StaticInv, NEW t \in Tasks, Step(t), NEW h \in Hubs, NEW p \in Ports,
           Live(Slot(h, p)), Slot(h, p)' # Slot(h, p)
    PROVE  EndedBy(t, h, p)
<1>1. Inv /\ FoundFresh /\ TypeOK
  BY DEF StaticInv, Inv
<1>2. CASE Insert(t)
  <2>1. \E r \in found[t] : r.id = h
    BY <1>1, <1>2, InsertSlots
  <2>2. pc[t] = "insert" /\ pc'[t] # "insert"
    BY <1>1, <1>2 DEF Insert, Answer, Goto, TypeOK
  <2> QED
    BY <2>1, <2>2 DEF EndedBy
<1>3. CASE Release(t) \/ Rollback(t)
  <2>1. /\ req[t].hub = h /\ req[t].port = p
        /\ Slot(h, p).by = req[t].role
    BY <1>1, <1>3, ReleaseSlots
  <2>2. pc[t] \in {"release", "rollback"} /\ pc'[t] # pc[t]
    BY <1>1, <1>3 DEF Release, Rollback, Answer, Goto, TypeOK
  <2> QED
    BY <2>1, <2>2 DEF EndedBy
<1>4. CASE Merge(t)
  BY <1>4, MergeKeepsLive
<1>5. CASE ReserveGranted(t)
  <2>1. ~Live(Slot(req[t].hub, req[t].port))
    BY <1>5 DEF ReserveGranted
  <2> QED
    BY <1>1, <1>5, <2>1, GrantSlots
<1> QED
  BY <1>1, <1>2, <1>3, <1>4, <1>5, QuietSlots DEF Step

LEMMA OthersEndNone ==
    ASSUME Inv, [Next]_vars, ~ \E t \in Tasks : Step(t),
           NEW h \in Hubs, NEW p \in Ports, Live(Slot(h, p))
    PROVE  Slot(h, p)' = Slot(h, p)
BY CleanupSlots, EnvironmentSlots DEF Next, Inv

\* The leases alone do not tell who asked for a release: on an unchanging bus
\* a live reservation goes only at a step of a request of its own role to
\* give it up, or of a discovery that lists its hub.
THEOREM EndsByOwnRole ==
    ASSUME StaticBus
    PROVE  Spec => EndedByOwnRole
<1>1. Init => StaticInv
  BY InvInit DEF Init, StaticInv, Located
<1>2. StaticInv /\ [Next]_vars => StaticInv'
  BY LocatedStep, InvStep DEF StaticInv
<1>3. StaticInv /\ [Next]_vars =>
        [\A h \in Hubs, p \in Ports :
           Live(Slot(h, p)) /\ Slot(h, p)' # Slot(h, p) =>
              \E t \in Tasks :
                \/ /\ pc[t] \in {"release", "rollback"} /\ pc'[t] # pc[t]
                   /\ req[t].hub = h /\ req[t].port = p
                   /\ req[t].role = Slot(h, p).by
                \/ /\ pc[t] = "insert" /\ pc'[t] # pc[t]
                   /\ \E r \in found[t] : r.id = h]_vars
  <2> SUFFICES ASSUME StaticInv, [Next]_vars, NEW h \in Hubs, NEW p \in Ports,
                      Live(Slot(h, p)), Slot(h, p)' # Slot(h, p)
               PROVE  \E t \in Tasks : EndedBy(t, h, p)
    BY DEF EndedBy
  <2>1. Inv
    BY DEF StaticInv, Inv
  <2>2. PICK t \in Tasks : Step(t)
    BY <2>1, OthersEndNone
  <2> QED
    BY <2>2, StepEnds
<1> QED
  BY <1>1, <1>2, <1>3, PTL DEF Spec, EndedByOwnRole

-----------------------------------------------------------------------------
(* With one connection and the bus as it is, the registry's power states   *)
(* are the hardware's.                                                     *)

OneTask == \A t, u \in Tasks : t = u

\* A task has switched port q of hub k and not yet recorded it.
Awaits(k, q) ==
    \E t \in Tasks : pc[t] = "update" /\ req[t].hub = k /\ req[t].port = q

Shown ==
    \A k \in Hubs, q \in Ports :
        HasPort(k, q) =>
            ShownPower(k, q) = power[hubs[k].location][q] \/ Awaits(k, q)

\* The place a command is sent to is where the registry has the hub.
Addressed ==
    \A t \in Tasks :
        pc[t] \in {"command", "update"} =>
            hubs[req[t].hub] # None /\ loc[t] = hubs[req[t].hub].location

\* A command that succeeded left the port as it asked.
Switched ==
    \A t \in Tasks :
        pc[t] = "update" /\ HasPort(req[t].hub, req[t].port) =>
            power[loc[t]][req[t].port] = SwitchesOn(req[t])

\* The listing shows the power as it is.
Current(r) ==
    \A q \in Ports : r.ports[q] # None => r.ports[q].power = power[r.location][q]

Listed ==
    \A t \in Tasks : pc[t] \in {"insert", "merge"} => \A r \in found[t] : Current(r)

PowerInv == Shown /\ Addressed /\ Switched /\ Listed

CoherentInv == StaticInv /\ PowerInv

LEMMA ListingCurrent ==
    ASSUME TypeOK, NEW r \in Listing
    PROVE  Current(r)
<1>1. PICK l \in Locations : bus[l] # None /\ r = Parsed(l)
  BY DEF Listing
<1>2. ASSUME NEW q \in Ports, r.ports[q] # None
      PROVE  r.ports[q].power = power[l][q]
  <2>1. r.ports[q] = IF q \in PortsOf[bus[l]]
                     THEN [power |-> power[l][q], reservation |-> None]
                     ELSE None
    BY <1>1 DEF Parsed
  <2> QED
    BY <1>2, <2>1
<1>3. r.location = l
  BY <1>1 DEF Parsed
<1> QED
  BY <1>2, <1>3 DEF Current

LEMMA CleanupPower ==
    ASSUME TypeOK, CleanupExpired
    PROVE  SamePower
<1>1. ASSUME NEW k \in Hubs, NEW q \in Ports, HasPort(k, q)
      PROVE  ShownPower(k, q)' = ShownPower(k, q)
  <2>1. hubs[k] \in Hub /\ hubs[k].ports[q] \in Port
    BY <1>1, SlotType
  <2>2. hubs'[k] = [hubs[k] EXCEPT !.ports = WithoutExpired(k)]
    BY <1>1 DEF CleanupExpired, HasPort
  <2>3. [hubs[k] EXCEPT !.ports = WithoutExpired(k)].ports = WithoutExpired(k)
    BY <2>1 DEF Hub
  <2>4. WithoutExpired(k)[q].power = hubs[k].ports[q].power
    BY <2>1 DEF WithoutExpired, Port
  <2> QED
    BY <2>2, <2>3, <2>4 DEF ShownPower
<1> QED
  BY <1>1, CleanupShape DEF SamePower

\* Merging brings reservations over and takes the power from the listing.
LEMMA MergedCurrent ==
    ASSUME TypeOK, NEW h \in Hubs, NEW new \in Hub, Current(new)
    PROVE  Current(Merged(h, new))
<1>1. Merged(h, new).location = new.location
  BY MergedShape
<1>2. ASSUME NEW q \in Ports, Merged(h, new).ports[q] # None
      PROVE  Merged(h, new).ports[q].power = new.ports[q].power
  <2>1. new.ports[q] \in Port
    BY <1>2, MergedShape DEF Hub
  <2>2. Merged(h, new).ports[q] \in
          {new.ports[q], [new.ports[q] EXCEPT !.reservation = Slot(h, q)]}
    BY DEF Merged, Hub
  <2> QED
    BY <2>1, <2>2 DEF Port
<1>3. ASSUME NEW q \in Ports, Merged(h, new).ports[q] # None
      PROVE  new.ports[q] # None
  BY <1>3, MergedShape
<1> QED
  BY <1>1, <1>2, <1>3 DEF Current

\* A step that changes no power, shown or real, and no task that is sending
\* or recording a command or holding a listing.
LEMMA QuietPower ==
    ASSUME TypeOK, RequestInv, PowerInv, SamePower, power' = power,
           \A u \in Tasks :
             /\ pc[u] = "update" => pc'[u] = "update"
             /\ pc'[u] \in {"command", "update", "insert", "merge"} =>
                  /\ pc[u] = pc'[u] /\ req'[u] = req[u] /\ loc'[u] = loc[u]
                  /\ found'[u] = found[u]
    PROVE  PowerInv'
<1>1. SameShape /\ \A k \in Hubs, q \in Ports :
        /\ HasPort(k, q)' <=> HasPort(k, q)
        /\ HasPort(k, q) => /\ hubs'[k].location = hubs[k].location
                            /\ ShownPower(k, q)' = ShownPower(k, q)
  BY DEF SamePower, SameShape, HasPort
<1>2. Shown'
  <2>1. ASSUME NEW k \in Hubs, NEW q \in Ports, Awaits(k, q)
        PROVE  Awaits(k, q)'
    BY <2>1 DEF Awaits
  <2> QED
    BY <1>1, <2>1 DEF PowerInv, Shown
<1>3. ASSUME NEW u \in Tasks, pc'[u] \in {"command", "update"}
      PROVE  hubs'[req'[u].hub] # None /\ loc'[u] = hubs'[req'[u].hub].location
  <2>1. req[u].hub \in Hubs
    BY <1>3, AtStep
  <2> QED
    BY <1>1, <1>3, <2>1 DEF PowerInv, Addressed, SameShape
<1>4. ASSUME NEW u \in Tasks, pc'[u] = "update", HasPort(req[u].hub, req[u].port)'
      PROVE  power'[loc'[u]][req'[u].port] = SwitchesOn(req'[u])
  <2>1. req[u].hub \in Hubs /\ req[u].port \in Ports /\ req'[u] = req[u]
    BY <1>4, AtStep
  <2>2. HasPort(req[u].hub, req[u].port)
    BY <1>1, <1>4, <2>1 DEF HasPort, SameShape
  <2> QED
    BY <1>4, <2>2 DEF PowerInv, Switched
<1>5. Listed'
  BY DEF PowerInv, Listed, Current
<1>6. Addressed' /\ Switched'
  BY <1>3, <1>4 DEF Addressed, Switched
<1> QED
  BY <1>2, <1>5, <1>6 DEF PowerInv

\* The environment, and the start of a request.
LEMMA EnvironmentPower ==
    ASSUME StaticBus, CoherentInv,
           \/ Tick \/ CleanupExpired \/ UNCHANGED vars
           \/ \E l \in Locations, h \in Hubs \cup {None} : Replug(l, h)
           \/ \E t \in Tasks, r \in Requests : Begin(t, r)
    PROVE  PowerInv'
<1>1. TypeOK /\ RequestInv /\ PowerInv
  BY DEF CoherentInv, StaticInv, Inv
<1>2. ASSUME NEW l \in Locations, NEW h \in Hubs \cup {None}
      PROVE  ~Replug(l, h)
  BY <1>1 DEF Replug, StaticBus, TypeOK
<1>3. CASE Tick \/ CleanupExpired \/ UNCHANGED vars
  <2>1. SamePower
    BY <1>1, <1>3, CleanupPower
       DEF Tick, vars, SamePower, SameShape, ShownPower
  <2> QED
    BY <1>1, <1>3, <2>1, QuietPower DEF Tick, CleanupExpired, vars, hardware
<1>4. ASSUME NEW t \in Tasks, NEW r \in Requests, Begin(t, r)
      PROVE  PowerInv'
  <2>1. FirstStep(r) \notin {"command", "update", "insert", "merge"}
    BY DEF FirstStep
  <2>2. SamePower /\ power' = power
    BY <1>4 DEF Begin, hardware, SamePower, SameShape, ShownPower
  <2>3. pc' = [pc EXCEPT ![t] = FirstStep(r)] /\ pc[t] = "idle"
    BY <1>4 DEF Begin, Goto
  <2>4. ASSUME NEW u \in Tasks
        PROVE  /\ pc[u] = "update" => pc'[u] = "update"
               /\ pc'[u] \in {"command", "update", "insert", "merge"} =>
                    /\ pc[u] = pc'[u] /\ req'[u] = req[u] /\ loc'[u] = loc[u]
                    /\ found'[u] = found[u]
    <3>1. CASE u = t
      BY <1>1, <2>1, <2>3, <3>1 DEF TypeOK
    <3>2. CASE u # t
      BY <1>1, <1>4, <2>3, <3>2 DEF TypeOK, Begin
    <3> QED
      BY <3>1, <3>2
  <2> QED
    BY <1>1, <2>2, <2>4, QuietPower
<1> QED
  BY <1>2, <1>3, <1>4

\* The steps about reservations, and the answer.
LEMMA ReservationPower ==
    ASSUME OneTask, CoherentInv, NEW t \in Tasks,
           \/ ReserveRefused(t) \/ ReserveGranted(t) \/ Release(t) \/ Rollback(t)
           \/ Reply(t)
    PROVE  PowerInv'
<1>1. TypeOK /\ RequestInv /\ PowerInv
  BY DEF CoherentInv, StaticInv, Inv
<1>2. SamePower
  <2>1. CASE ReserveRefused(t) \/ Reply(t)
    BY <2>1 DEF ReserveRefused, Reply, SamePower, SameShape, ShownPower
  <2>2. CASE ReserveGranted(t)
    <3>1. /\ req[t].hub \in Hubs /\ req[t].port \in Ports
          /\ NewReservation(t) \in Reservation
      BY <1>1, <2>2, AtStep, NewReservationType DEF ReserveGranted
    <3>2. /\ HasPort(req[t].hub, req[t].port)
          /\ hubs' = WithReservation(req[t].hub, req[t].port, NewReservation(t))
      BY <2>2 DEF ReserveGranted
    <3> QED
      BY <1>1, <3>1, <3>2, WithReservationSlots
  <2>3. CASE Release(t) \/ Rollback(t)
    <3>1. /\ pc[t] \in {"release", "rollback"}
          /\ ReleasePort(req[t].hub, req[t].port, req[t].role)
      BY <2>3 DEF Release, Rollback
    <3>2. ReleaseOutcome(req[t].hub, req[t].port, req[t].role) = "OK" =>
            HasPort(req[t].hub, req[t].port)
      BY DEF ReleaseOutcome, HasPort
    <3>3. CASE hubs' = hubs
      BY <3>3 DEF SamePower, SameShape, ShownPower
    <3>4. CASE hubs' # hubs
      <4>1. /\ HasPort(req[t].hub, req[t].port)
            /\ hubs' = WithReservation(req[t].hub, req[t].port, None)
        BY <3>1, <3>2, <3>4 DEF ReleasePort
      <4> QED
        BY <1>1, <3>1, <4>1, AtStep, WithReservationSlots
    <3> QED
      BY <3>3, <3>4
  <2> QED
    BY <2>1, <2>2, <2>3
<1>3. /\ pc'[t] \in {"reply", "lookup", "idle"}
      /\ pc[t] \in {"reserve", "release", "rollback", "reply"}
      /\ power' = power
  BY <1>1 DEF ReserveRefused, ReserveGranted, Release, Rollback, Reply, Answer,
              Goto, TypeOK, hardware
<1> QED
  BY <1>1, <1>2, <1>3, QuietPower DEF OneTask

\* Looking a hub up, and the runs of uhubctl that only list.
LEMMA ListingPower ==
    ASSUME OneTask, CoherentInv, NEW t \in Tasks, List(t) \/ Lookup(t) \/ Query(t)
    PROVE  PowerInv'
<1>1. TypeOK /\ RequestInv /\ PowerInv
  BY DEF CoherentInv, StaticInv, Inv
<1>2. /\ hubs' = hubs /\ power' = power /\ req' = req
      /\ pc[t] \in {"list", "lookup", "query"}
      /\ pc'[t] # "update"
  BY <1>1 DEF List, Lookup, Query, Answer, Fail, Goto, TypeOK, hardware
<1>3. Shown' /\ Switched'
  BY <1>1, <1>2 DEF OneTask, PowerInv, Shown, Switched, Awaits, ShownPower, HasPort
<1>4. ASSUME pc'[t] \in {"command", "update"}
      PROVE  hubs[req[t].hub] # None /\ loc'[t] = hubs[req[t].hub].location
  <2>1. Lookup(t)
    BY <1>1, <1>4 DEF List, Query, Answer, Fail, Goto, TypeOK
  <2> QED
    BY <1>1, <1>4, <2>1 DEF Lookup, Fail, Goto, TypeOK
<1>5. ASSUME pc'[t] \in {"insert", "merge"}
      PROVE  found'[t] \subseteq Listing
  BY <1>1, <1>5 DEF List, Lookup, Query, Answer, Fail, Goto, TypeOK, ListedAt
<1>6. Addressed'
  BY <1>2, <1>4 DEF OneTask, Addressed
<1>7. \A r \in Listing : Current(r)'
  BY <1>1, <1>2, ListingCurrent DEF Current
<1>8. Listed'
  BY <1>5, <1>7 DEF OneTask, Listed
<1> QED
  BY <1>3, <1>6, <1>8 DEF PowerInv

\* A command changes the power of the port that its task then awaits to
\* record: the place it was sent to is the place of no other hub.
LEMMA CommandPower ==
    ASSUME OneTask, CoherentInv, NEW t \in Tasks, Command(t)
    PROVE  PowerInv'
<1> DEFINE h == req[t].hub
           p == req[t].port
<1>1. TypeOK /\ RequestInv /\ PowerInv /\ Located /\ pc[t] = "command"
  BY DEF CoherentInv, StaticInv, Inv, Command
<1>2. /\ h \in Hubs /\ p \in Ports /\ loc[t] \in Locations
      /\ SwitchesOn(req[t]) \in BOOLEAN
  BY <1>1, AtStep DEF RequestInv, SwitchesOn
<1>3. /\ hubs' = hubs /\ req' = req /\ loc' = loc /\ found' = found
      /\ pc' = [pc EXCEPT ![t] = pc'[t]]
  BY <1>1 DEF Command, Fail, Goto, TypeOK
<1>4. CASE pc'[t] # "update"
  <2>1. power' = power /\ pc'[t] \in {"rollback", "reply"}
    BY <1>1, <1>4 DEF Command, Fail, Goto, TypeOK
  <2>2. SamePower
    BY <1>3 DEF SamePower, SameShape, ShownPower
  <2> QED
    BY <1>1, <2>1, <2>2, QuietPower DEF OneTask
<1>5. CASE pc'[t] = "update"
  <2>1. /\ bus[loc[t]] # None
        /\ power' = IF p \in PortsOf[bus[loc[t]]]
                    THEN [power EXCEPT ![loc[t]][p] = SwitchesOn(req[t])]
                    ELSE power
    BY <1>1, <1>5 DEF Command, Fail, Goto, TypeOK
  <2>2. /\ hubs[h] # None /\ loc[t] = hubs[h].location
        /\ bus[loc[t]] = h
        /\ \A q \in Ports : hubs[h].ports[q] # None <=> q \in PortsOf[h]
    BY <1>1, <1>2 DEF PowerInv, Addressed, Located, Describes
  <2>3. ASSUME NEW l \in Locations, NEW q \in Ports, l # loc[t] \/ q # p
        PROVE  power'[l][q] = power[l][q]
    BY <1>1, <2>1, <2>3 DEF TypeOK
  <2>4. p \in PortsOf[h] => power'[loc[t]][p] = SwitchesOn(req[t])
    BY <1>1, <1>2, <2>1, <2>2 DEF TypeOK
  <2>5. ASSUME NEW k \in Hubs, NEW q \in Ports, HasPort(k, q), k # h \/ q # p
        PROVE  ShownPower(k, q) = power'[hubs[k].location][q]
    <3>1. hubs[k].location \in Locations /\ bus[hubs[k].location] = k
      BY <1>1, <2>5 DEF HasPort, TypeOK, Hub, Located, Describes
    <3>2. hubs[k].location # loc[t] \/ q # p
      BY <2>2, <2>5, <3>1
    <3>3. ShownPower(k, q) = power[hubs[k].location][q]
      BY <1>1, <2>5 DEF PowerInv, Shown, Awaits, OneTask
    <3> QED
      BY <2>3, <3>1, <3>2, <3>3
  <2>6. Shown'
    <3>1. ASSUME NEW k \in Hubs, NEW q \in Ports, HasPort(k, q)'
          PROVE  ShownPower(k, q)' = power'[hubs'[k].location][q] \/ Awaits(k, q)'
      <4>1. HasPort(k, q) /\ ShownPower(k, q)' = ShownPower(k, q)
        BY <1>3, <3>1 DEF HasPort, ShownPower
      <4>2. CASE k = h /\ q = p
        BY <1>3, <1>5, <4>2 DEF Awaits
      <4>3. CASE k # h \/ q # p
        BY <1>3, <2>5, <4>1, <4>3
      <4> QED
        BY <4>2, <4>3
    <3> QED
      BY <3>1 DEF Shown
  <2>7. Addressed'
    BY <1>3, <1>5, <2>2 DEF OneTask, Addressed
  <2>8. Switched'
    <3>1. HasPort(h, p) => p \in PortsOf[h]
      BY <1>2, <2>2 DEF HasPort
    <3> QED
      BY <1>3, <2>4, <3>1 DEF OneTask, Switched, HasPort, SwitchesOn
  <2>9. Listed'
    BY <1>5 DEF OneTask, Listed
  <2> QED
    BY <2>6, <2>7, <2>8, <2>9 DEF PowerInv
<1> QED
  BY <1>4, <1>5

\* Recording a command makes the registry show what the command did.
LEMMA UpdatePower ==
    ASSUME OneTask, CoherentInv, NEW t \in Tasks, Update(t)
    PROVE  PowerInv'
<1> DEFINE h == req[t].hub
           p == req[t].port
           on == SwitchesOn(req[t])
<1>1. TypeOK /\ RequestInv /\ PowerInv /\ pc[t] = "update"
  BY DEF CoherentInv, StaticInv, Inv, Update
<1>2. h \in Hubs /\ p \in Ports /\ on \in BOOLEAN
  BY <1>1, AtStep DEF SwitchesOn
<1>3. /\ power' = power /\ req' = req /\ loc' = loc /\ found' = found
      /\ hubs' = WithPower(h, p, on)
      /\ pc'[t] \in {"release", "reply"}
  BY <1>1 DEF Update, Answer, Goto, TypeOK, hardware
<1>4. /\ SameShape
      /\ \A k \in Hubs, q \in Ports :
           HasPort(k, q) => ShownPower(k, q)' =
               IF k = h /\ q = p THEN on ELSE ShownPower(k, q)
  BY <1>1, <1>2, <1>3, WithPowerSlots
<1>5. HasPort(h, p) => power[hubs[h].location][p] = on
  BY <1>1 DEF PowerInv, Addressed, Switched
<1>6. ASSUME NEW k \in Hubs, NEW q \in Ports, HasPort(k, q)'
      PROVE  ShownPower(k, q)' = power'[hubs'[k].location][q]
  <2>1. HasPort(k, q) /\ hubs'[k].location = hubs[k].location
    BY <1>4, <1>6 DEF SameShape, HasPort
  <2>2. CASE k = h /\ q = p
    BY <1>3, <1>4, <1>5, <2>1, <2>2
  <2>3. CASE ~(k = h /\ q = p)
    <3>1. ShownPower(k, q) = power[hubs[k].location][q]
      BY <1>1, <2>1, <2>3 DEF PowerInv, Shown, Awaits, OneTask
    <3> QED
      BY <1>3, <1>4, <2>1, <2>3, <3>1
  <2> QED
    BY <2>2, <2>3
<1>7. Shown'
  BY <1>6 DEF Shown
<1>8. Addressed' /\ Switched' /\ Listed'
  BY <1>3 DEF OneTask, Addressed, Switched, Listed
<1> QED
  BY <1>7, <1>8 DEF PowerInv

\* A record from a listing that is current goes into the registry as it is.
LEMMA InsertPower ==
    ASSUME OneTask, CoherentInv, NEW t \in Tasks, Insert(t)
    PROVE  PowerInv'
<1> DEFINE ids == {r.id : r \in found[t]}
<1>1. TypeOK /\ PowerInv /\ pc[t] = "insert" /\ power' = power /\ pc'[t] = "reply"
  BY DEF CoherentInv, StaticInv, Inv, Insert, Answer, Goto, TypeOK, hardware
<1>2. PICK last \in [ids -> found[t]] :
        hubs' = [k \in Hubs |-> IF k \in ids THEN last[k] ELSE hubs[k]]
  BY DEF Insert
<1>3. ASSUME NEW k \in Hubs, NEW q \in Ports, HasPort(k, q)'
      PROVE  ShownPower(k, q)' = power'[hubs'[k].location][q]
  <2>1. CASE k \in ids
    <3>1. last[k] \in found[t] /\ hubs'[k] = last[k]
      BY <1>2, <2>1
    <3>2. Current(last[k])
      BY <1>1, <3>1 DEF PowerInv, Listed
    <3> QED
      BY <1>1, <1>3, <3>1, <3>2 DEF Current, HasPort, ShownPower
  <2>2. CASE k \notin ids
    <3>1. hubs'[k] = hubs[k]
      BY <1>2, <2>2
    <3>2. ShownPower(k, q) = power[hubs[k].location][q]
      BY <1>1, <1>3, <3>1 DEF PowerInv, Shown, Awaits, OneTask, HasPort
    <3> QED
      BY <1>1, <3>1, <3>2 DEF ShownPower
  <2> QED
    BY <2>1, <2>2
<1>4. Shown'
  BY <1>3 DEF Shown
<1>5. Addressed' /\ Switched' /\ Listed'
  BY <1>1 DEF OneTask, Addressed, Switched, Listed
<1> QED
  BY <1>4, <1>5 DEF PowerInv

LEMMA MergePower ==
    ASSUME OneTask, CoherentInv, NEW t \in Tasks, Merge(t)
    PROVE  PowerInv'
<1> DEFINE h == req[t].hub
<1>1. /\ TypeOK /\ RequestInv /\ PowerInv /\ pc[t] = "merge" /\ power' = power
      /\ pc'[t] = "reply"
  BY DEF CoherentInv, StaticInv, Inv, Merge, Answer, Goto, TypeOK, hardware
<1>2. h \in Hubs
  BY <1>1, AtStep
<1>3. PICK new \in found[t] : hubs' = [hubs EXCEPT ![h] = Merged(h, new)]
  BY DEF Merge
<1>4. new \in Hub /\ Current(new)
  BY <1>1 DEF TypeOK, PowerInv, Listed
<1>5. Current(Merged(h, new))
  BY <1>1, <1>2, <1>4, MergedCurrent
<1>6. ASSUME NEW k \in Hubs, NEW q \in Ports, HasPort(k, q)'
      PROVE  ShownPower(k, q)' = power'[hubs'[k].location][q]
  <2>1. CASE k = h
    <3>1. hubs'[k] = Merged(h, new)
      BY <1>1, <1>3, <2>1 DEF TypeOK
    <3> QED
      BY <1>1, <1>5, <1>6, <3>1 DEF Current, HasPort, ShownPower
  <2>2. CASE k # h
    <3>1. hubs'[k] = hubs[k]
      BY <1>1, <1>2, <1>3, <2>2 DEF TypeOK
    <3>2. ShownPower(k, q) = power[hubs[k].location][q]
      BY <1>1, <1>6, <3>1 DEF PowerInv, Shown, Awaits, OneTask, HasPort
    <3> QED
      BY <1>1, <3>1, <3>2 DEF ShownPower
  <2> QED
    BY <2>1, <2>2
<1>7. Shown'
  BY <1>6 DEF Shown
<1>8. Addressed' /\ Switched' /\ Listed'
  BY <1>1 DEF OneTask, Addressed, Switched, Listed
<1> QED
  BY <1>7, <1>8 DEF PowerInv

LEMMA PowerStep ==
    ASSUME StaticBus, OneTask, CoherentInv, [Next]_vars
    PROVE  PowerInv'
<1>1. ASSUME NEW t \in Tasks, Step(t)
      PROVE  PowerInv'
  BY <1>1, ReservationPower, ListingPower, CommandPower, UpdatePower,
     InsertPower, MergePower DEF Step
<1> QED
  BY <1>1, EnvironmentPower DEF Next

\* With one connection and no replugging, once no request is in flight the
\* registry shows for every port the power the port has: the sequence of
\* look-up, command and record (set_power, then the write under the lock)
\* loses no change, whatever fails on the way and however many hubs share an
\* id.
THEOREM PowerCoherent ==
    ASSUME StaticBus, OneTask
    PROVE  Spec => []CoherentAtRest
<1>1. Init => CoherentInv
  BY InvInit DEF Init, CoherentInv, StaticInv, Located, PowerInv, Shown,
                 Addressed, Switched, Listed, HasPort
<1>2. CoherentInv /\ [Next]_vars => CoherentInv'
  BY LocatedStep, InvStep, PowerStep DEF CoherentInv, StaticInv
<1>3. CoherentInv => CoherentAtRest
  BY DEF CoherentInv, PowerInv, Shown, Awaits, CoherentAtRest, ShownPower
<1> QED
  BY <1>1, <1>2, <1>3, PTL DEF Spec
===============================================================================
