------------------------------ MODULE HubManager ------------------------------
(***************************************************************************)
(* The USB hub manager of tstctl's remote (src/usb_hub/manager.rs) under   *)
(* the request handlers that call it (src/bin/remote.rs).                  *)
(*                                                                         *)
(* Every connection of the remote is a tokio task that handles one request *)
(* at a time; the requests of different connections interleave.  A handler *)
(* holds the lock on the manager's `hubs` map only for short sections, and *)
(* none while it runs the external uhubctl command, so a request is a      *)
(* sequence of steps here: one for each section of the lock, one for each  *)
(* run of uhubctl.  (The handlers keep a shared read guard of RemoteState  *)
(* throughout, which does not exclude one another.)                        *)
(***************************************************************************)
EXTENDS Naturals

CONSTANTS
    Hubs,        \* hub ids: uhubctl's "vendor:product"
    Locations,   \* places on the USB tree ("1-1.4")
    Ports,       \* port numbers a request may name
    PortsOf,     \* the port numbers a hub really has
    InitBus,     \* the hub plugged in at each location at first, or None
    Roles,       \* DeviceRole: master, uut, slave
    Tasks,       \* the connections of the remote
    Durations,   \* what duration_secs may be: numbers, or None (no deadline)
    Ops,         \* the operations that are issued
    MaxTime,     \* bound on the clock
    MaxReplugs,  \* bound on the changes of the bus
    None         \* the absent value (Rust's Option::None)

VARIABLES
    now,         \* the system clock, in seconds
    bus,         \* hardware: the hub plugged in at each location
    power,       \* hardware: is VBUS on, for each port of each location
    replugs,     \* number of changes of the bus so far
    hubs,        \* UsbHubManager.hubs: the registered hubs, by id
    pc,          \* where each task is in its request
    req,         \* the request each task is handling
    loc,         \* the `location` a task copied out of the registry
    found,       \* the hubs a task's run of uhubctl reported
    result       \* the outcome of a task's request

hardware == <<bus, power, replugs>>
vars == <<now, bus, power, replugs, hubs, pc, req, loc, found, result>>

-----------------------------------------------------------------------------
(* Data.                                                                   *)

\* PortReservation.  holder is not in the code: it records the task whose
\* request made the reservation, and no step's outcome depends on it.
Reservation == [by : Roles, expires : Nat \cup {None}, holder : Tasks]

\* UsbPort and UsbHub; a port number the hub does not have maps to None.
Port == [power : BOOLEAN, reservation : Reservation \cup {None}]
Hub == [id : Hubs, location : Locations, ports : [Ports -> Port \cup {None}]]

AllOps == {"hub_discover", "hub_status", "hub_port_power_on",
           "hub_port_power_off", "hub_port_reserve", "hub_port_release",
           "cleanup"}

\* The parameter structures of the hub methods.
DiscoverRequests == [op : {"hub_discover"}]
StatusRequests == [op : {"hub_status"}, hub : Hubs]
PowerRequests ==
    [op : {"hub_port_power_on", "hub_port_power_off"}, hub : Hubs, port : Ports]
ReserveRequests ==
    [op : {"hub_port_reserve"}, hub : Hubs, port : Ports,
     role : Roles, duration : Durations, power_on : BOOLEAN]
ReleaseRequests ==
    [op : {"hub_port_release"}, hub : Hubs, port : Ports,
     role : Roles, power_off : BOOLEAN]
Requests == DiscoverRequests \cup StatusRequests \cup PowerRequests
                \cup ReserveRequests \cup ReleaseRequests

\* "OK" or the name of the error code in the answer.
Results == {"OK", "INTERNAL_ERROR", "HUB_NOT_FOUND", "HUB_PORT_NOT_FOUND",
            "HUB_PORT_ALREADY_RESERVED", "HUB_RESERVATION_NOT_FOUND",
            "HUB_POWER_CONTROL_FAILED", "UHUBCTL_NOT_AVAILABLE",
            "HUB_INVALID_OPERATION"}

\* "list", "query" and "command" run uhubctl; the others are the sections
\* of the lock, and "reply" writes the answer on the connection.
Steps == {"idle", "list", "insert", "lookup", "query", "merge", "command",
          "update", "reserve", "release", "rollback", "reply"}

ASSUME OpsAssumption == Ops \subseteq AllOps
ASSUME DurationsAssumption == Durations \subseteq Nat \cup {None}
ASSUME BusAssumption ==
    /\ InitBus \in [Locations -> Hubs \cup {None}]
    /\ PortsOf \in [Hubs -> SUBSET Ports]
ASSUME BoundsAssumption == MaxTime \in Nat /\ MaxReplugs \in Nat
ASSUME NoneAssumption ==
    /\ None \notin Hubs /\ None \notin Nat
    /\ None \notin Reservation /\ None \notin Port /\ None \notin Hub
    /\ None \notin [by : Roles, expires : Nat \cup {None}]

-----------------------------------------------------------------------------
(* The registry and the hardware as the steps read them.                   *)

HasPort(h, p) == hubs[h] # None /\ hubs[h].ports[p] # None

\* The reservation recorded for port p of hub h, expired or not, or None.
Slot(h, p) == IF HasPort(h, p) THEN hubs[h].ports[p].reservation ELSE None

\* is_expired: strictly later than the deadline; no deadline never expires.
IsExpiredAtDeadline(r) == r.expires # None /\ now >= r.expires   \* a mutant
IsExpired(r) == r.expires # None /\ now > r.expires

Live(r) == r # None /\ ~IsExpired(r)

\* PortReservation::new on behalf of task t.
NewReservation(t) ==
    [by |-> req[t].role,
     expires |-> IF req[t].duration = None THEN None ELSE now + req[t].duration,
     holder |-> t]

WithReservation(h, p, r) == [hubs EXCEPT ![h].ports[p].reservation = r]

\* The registry after `power_state` of a port is set, if it has the port.
WithPowerDropped(h, p, on) == hubs                               \* a mutant
WithPower(h, p, on) ==
    IF HasPort(h, p) THEN [hubs EXCEPT ![h].ports[p].power = on] ELSE hubs

\* What uhubctl's listing parses to for the hub at location l: the ports'
\* power as the hardware has it, and no reservations.
ParsedKeepingReservations(l) ==                                  \* a mutant
    [id |-> bus[l],
     location |-> l,
     ports |-> [p \in Ports |->
                  IF p \in PortsOf[bus[l]]
                  THEN [power |-> power[l][p], reservation |-> Slot(bus[l], p)]
                  ELSE None]]
Parsed(l) ==
    [id |-> bus[l],
     location |-> l,
     ports |-> [p \in Ports |->
                  IF p \in PortsOf[bus[l]]
                  THEN [power |-> power[l][p], reservation |-> None]
                  ELSE None]]

Listing == {Parsed(l) : l \in {m \in Locations : bus[m] # None}}

\* get_hub_status: the listed hub whose location is the one asked for.
ListedAnywhere(l) == Listing                                     \* a mutant
ListedAt(l) == {r \in Listing : r.location = l}

-----------------------------------------------------------------------------
(* Control: where a request starts, goes on, and ends.                     *)

Goto(t, step) == pc' = [pc EXCEPT ![t] = step]

Answer(t, code) ==
    /\ Goto(t, "reply")
    /\ result' = [result EXCEPT ![t] = code]

\* An error after the first step: a reserve request that already reserved
\* takes its reservation back before it answers.
FailWithoutRollback(t, code) == Answer(t, code)                  \* a mutant
Fail(t, code) ==
    /\ Goto(t, IF req[t].op = "hub_port_reserve" THEN "rollback" ELSE "reply")
    /\ result' = [result EXCEPT ![t] = code]

\* The error code each handler gives to a failing run of uhubctl.
UhubctlFailureUnmapped(op) == "UHUBCTL_ERROR"                    \* a mutant
UhubctlFailure(op) ==
    CASE op \in {"hub_port_power_on", "hub_port_power_off"} ->
            "HUB_POWER_CONTROL_FAILED"
      [] op = "hub_port_reserve" -> "HUB_INVALID_OPERATION"
      [] OTHER -> "INTERNAL_ERROR"

\* The manager's method a handler calls, by its first step.
FirstStep(r) ==
    CASE r.op = "hub_discover" -> "list"
      [] r.op = "hub_port_reserve" -> "reserve"
      [] r.op = "hub_port_release" -> IF r.power_off THEN "lookup" ELSE "release"
      [] OTHER -> "lookup"

-----------------------------------------------------------------------------
(* The environment.                                                        *)

Tick ==
    /\ now < MaxTime
    /\ now' = now + 1
    /\ UNCHANGED <<hardware, hubs, pc, req, loc, found, result>>

\* A hub is plugged in or out at l; the ports of a new hub are powered.
Replug(l, h) ==
    /\ replugs < MaxReplugs
    /\ bus[l] # h
    /\ replugs' = replugs + 1
    /\ bus' = [bus EXCEPT ![l] = h]
    /\ power' = [power EXCEPT ![l] =
                   [p \in Ports |-> h # None /\ p \in PortsOf[h]]]
    /\ UNCHANGED <<now, hubs, pc, req, loc, found, result>>

\* handle_connection reads the next request and dispatches it.
Begin(t, r) ==
    /\ pc[t] = "idle"
    /\ r.op \in Ops
    /\ req' = [req EXCEPT ![t] = r]
    /\ Goto(t, FirstStep(r))
    /\ UNCHANGED <<now, hardware, hubs, loc, found, result>>

\* handle_connection writes the answer and is ready for the next request.
Reply(t) ==
    /\ pc[t] = "reply"
    /\ Goto(t, "idle")
    /\ req' = [req EXCEPT ![t] = None]
    /\ loc' = [loc EXCEPT ![t] = None]
    /\ found' = [found EXCEPT ![t] = {}]
    /\ result' = [result EXCEPT ![t] = None]
    /\ UNCHANGED <<now, hardware, hubs>>

-----------------------------------------------------------------------------
(* discover_hubs                                                           *)

\* is_uhubctl_available, then list_hubs, before the lock is taken.
List(t) ==
    /\ pc[t] = "list"
    /\ \/ /\ \E code \in {"UHUBCTL_NOT_AVAILABLE", "INTERNAL_ERROR"} :
               Answer(t, code)
          /\ UNCHANGED found
       \/ /\ found' = [found EXCEPT ![t] = Listing]
          /\ Goto(t, "insert")
          /\ UNCHANGED result
    /\ UNCHANGED <<now, hardware, hubs, req, loc>>

\* Each listed hub is inserted under its id, over what was there; of several
\* listed with one id the last stays, and uhubctl's order is any.
Insert(t) ==
    /\ pc[t] = "insert"
    /\ LET ids == {r.id : r \in found[t]} IN
       \E last \in [ids -> found[t]] :
         /\ \A h \in ids : last[h].id = h
         /\ hubs' = [h \in Hubs |-> IF h \in ids THEN last[h] ELSE hubs[h]]
    /\ Answer(t, "OK")
    /\ UNCHANGED <<now, hardware, req, loc, found>>

-----------------------------------------------------------------------------
(* refresh_hub, power_on_port, power_off_port                              *)

\* The location is copied out under the read lock.
Lookup(t) ==
    /\ pc[t] = "lookup"
    /\ \/ /\ hubs[req[t].hub] = None
          /\ Fail(t, "HUB_NOT_FOUND")
          /\ UNCHANGED loc
       \/ /\ hubs[req[t].hub] # None
          /\ loc' = [loc EXCEPT ![t] = hubs[req[t].hub].location]
          /\ Goto(t, IF req[t].op = "hub_status" THEN "query" ELSE "command")
          /\ UNCHANGED result
    /\ UNCHANGED <<now, hardware, hubs, req, found>>

\* uhubctl is run with no lock held; it may fail, or list no such hub.
Query(t) ==
    /\ pc[t] = "query"
    /\ \/ /\ \E r \in ListedAt(loc[t]) : found' = [found EXCEPT ![t] = {r}]
          /\ Goto(t, "merge")
          /\ UNCHANGED result
       \/ /\ Fail(t, UhubctlFailure(req[t].op))
          /\ UNCHANGED found
    /\ UNCHANGED <<now, hardware, hubs, req, loc>>

\* The fresh record, with the reservation the registry has now for a port
\* if that one has not expired.
MergedForgetful(h, new) == new                                   \* a mutant
Merged(h, new) ==
    [new EXCEPT !.ports = [p \in Ports |->
        IF new.ports[p] # None /\ Live(Slot(h, p))
        THEN [new.ports[p] EXCEPT !.reservation = Slot(h, p)]
        ELSE new.ports[p]]]

\* Under the write lock; the record goes in under the id that was asked for.
Merge(t) ==
    /\ pc[t] = "merge"
    /\ \E new \in found[t] :
         hubs' = [hubs EXCEPT ![req[t].hub] = Merged(req[t].hub, new)]
    /\ Answer(t, "OK")
    /\ UNCHANGED <<now, hardware, req, loc, found>>

SwitchesOn(r) == r.op \in {"hub_port_power_on", "hub_port_reserve"}

\* set_power: uhubctl fails if nothing is at the location, and may fail at
\* any time; a failing run leaves the power alone, and so does one for a port
\* the hub does not have.
Command(t) ==
    /\ pc[t] = "command"
    /\ \/ /\ bus[loc[t]] # None
          /\ power' = IF req[t].port \in PortsOf[bus[loc[t]]]
                      THEN [power EXCEPT ![loc[t]][req[t].port] = SwitchesOn(req[t])]
                      ELSE power
          /\ Goto(t, "update")
          /\ UNCHANGED result
       \/ /\ Fail(t, UhubctlFailure(req[t].op))
          /\ UNCHANGED power
    /\ UNCHANGED <<now, bus, replugs, hubs, req, loc, found>>

\* The registry's power state, if it has the port; then power_off_and_release
\* goes on to release, and the others are done.
Update(t) ==
    /\ pc[t] = "update"
    /\ hubs' = WithPower(req[t].hub, req[t].port, SwitchesOn(req[t]))
    /\ \/ /\ req[t].op = "hub_port_release"
          /\ Goto(t, "release")
          /\ UNCHANGED result
       \/ /\ req[t].op # "hub_port_release"
          /\ Answer(t, "OK")
    /\ UNCHANGED <<now, hardware, req, loc, found>>

-----------------------------------------------------------------------------
(* reserve_port, release_port and the operations that combine them         *)

ReserveRefused(t) ==
    /\ pc[t] = "reserve"
    /\ LET h == req[t].hub
           p == req[t].port
       IN  \/ hubs[h] = None /\ Answer(t, "HUB_NOT_FOUND")
           \/ hubs[h] # None /\ ~HasPort(h, p) /\ Answer(t, "HUB_PORT_NOT_FOUND")
           \/ Live(Slot(h, p)) /\ Answer(t, "HUB_PORT_ALREADY_RESERVED")
    /\ UNCHANGED <<now, hardware, hubs, req, loc, found>>

\* Over an expired reservation or none; reserve_and_power_on goes on to
\* power the port.
ReserveGranted(t) ==
    /\ pc[t] = "reserve"
    /\ LET h == req[t].hub
           p == req[t].port
       IN  /\ HasPort(h, p) /\ ~Live(Slot(h, p))
           /\ hubs' = WithReservation(h, p, NewReservation(t))
    /\ \/ req[t].power_on /\ Goto(t, "lookup") /\ UNCHANGED result
       \/ ~req[t].power_on /\ Answer(t, "OK")
    /\ UNCHANGED <<now, hardware, req, loc, found>>

\* release_port: by role, whether or not the reservation has expired.
ReleaseOutcomeLiveOnly(h, p, role) ==                            \* a mutant
    CASE ~HasPort(h, p) -> "HUB_PORT_NOT_FOUND"
      [] HasPort(h, p) /\ ~Live(Slot(h, p)) -> "HUB_RESERVATION_NOT_FOUND"
      [] HasPort(h, p) /\ Live(Slot(h, p)) ->
            IF Slot(h, p).by = role THEN "OK" ELSE "HUB_INVALID_OPERATION"
ReleaseOutcome(h, p, role) ==
    CASE hubs[h] = None -> "HUB_NOT_FOUND"
      [] hubs[h] # None /\ ~HasPort(h, p) -> "HUB_PORT_NOT_FOUND"
      [] HasPort(h, p) /\ Slot(h, p) = None -> "HUB_RESERVATION_NOT_FOUND"
      [] HasPort(h, p) /\ Slot(h, p) # None ->
            IF Slot(h, p).by = role THEN "OK" ELSE "HUB_INVALID_OPERATION"

ReleasePort(h, p, role) ==
    hubs' = IF ReleaseOutcome(h, p, role) = "OK"
            THEN WithReservation(h, p, None)
            ELSE hubs

Release(t) ==
    /\ pc[t] = "release"
    /\ ReleasePort(req[t].hub, req[t].port, req[t].role)
    /\ Answer(t, ReleaseOutcome(req[t].hub, req[t].port, req[t].role))
    /\ UNCHANGED <<now, hardware, req, loc, found>>

\* The error path of reserve_and_power_on: release by role, outcome ignored,
\* and the power-on's error is the answer.
Rollback(t) ==
    /\ pc[t] = "rollback"
    /\ ReleasePort(req[t].hub, req[t].port, req[t].role)
    /\ Goto(t, "reply")
    /\ UNCHANGED <<now, hardware, req, loc, found, result>>

\* cleanup_expired_reservations, in one section of the lock.  (Public, but
\* nothing in the remote calls it; the runs that include it say so.)
WithoutExpired(h) ==
    [p \in Ports |-> IF Slot(h, p) # None /\ IsExpired(Slot(h, p))
                     THEN [hubs[h].ports[p] EXCEPT !.reservation = None]
                     ELSE hubs[h].ports[p]]

CleanupExpired ==
    /\ "cleanup" \in Ops
    /\ hubs' = [h \in Hubs |->
                  IF hubs[h] = None THEN None
                  ELSE [hubs[h] EXCEPT !.ports = WithoutExpired(h)]]
    /\ UNCHANGED <<now, hardware, pc, req, loc, found, result>>

-----------------------------------------------------------------------------
(* The specification.                                                      *)

Init ==
    /\ now = 0
    /\ bus = InitBus
    /\ power \in [Locations -> [Ports -> BOOLEAN]]
    /\ \A l \in Locations, p \in Ports :
         power[l][p] => bus[l] # None /\ p \in PortsOf[bus[l]]
    /\ replugs = 0
    /\ hubs = [h \in Hubs |-> None]
    /\ pc = [t \in Tasks |-> "idle"]
    /\ req = [t \in Tasks |-> None]
    /\ loc = [t \in Tasks |-> None]
    /\ found = [t \in Tasks |-> {}]
    /\ result = [t \in Tasks |-> None]

Step(t) ==
    \/ List(t) \/ Insert(t)
    \/ Lookup(t) \/ Query(t) \/ Merge(t)
    \/ Command(t) \/ Update(t)
    \/ ReserveRefused(t) \/ ReserveGranted(t)
    \/ Release(t) \/ Rollback(t)
    \/ Reply(t)

Next ==
    \/ Tick
    \/ CleanupExpired
    \/ \E l \in Locations, h \in Hubs \cup {None} : Replug(l, h)
    \/ \E t \in Tasks, r \in Requests : Begin(t, r)
    \/ \E t \in Tasks : Step(t)

Spec == Init /\ [][Next]_vars
-----------------------------------------------------------------------------
(* Properties.                                                             *)

\* Every variable has its type (the fields of RemoteState and UsbHubManager,
\* and the locals of the handlers).
TypeOK ==
    /\ now \in Nat
    /\ bus \in [Locations -> Hubs \cup {None}]
    /\ power \in [Locations -> [Ports -> BOOLEAN]]
    /\ replugs \in 0 .. MaxReplugs
    /\ hubs \in [Hubs -> Hub \cup {None}]
    /\ pc \in [Tasks -> Steps]
    /\ req \in [Tasks -> Requests \cup {None}]
    /\ loc \in [Tasks -> Locations \cup {None}]
    /\ found \in [Tasks -> SUBSET Hub]
    /\ result \in [Tasks -> Results \cup {None}]

\* reserve_and_power_on, when the power-on fails, answers with no
\* reservation of its own left behind, whatever the other requests did to
\* the port between its reservation and its rollback.
NoLeakedGrant ==
    \A t \in Tasks :
        pc[t] = "reply" /\ req[t].op = "hub_port_reserve"
            /\ result[t] = "HUB_INVALID_OPERATION"
        => LET r == Slot(req[t].hub, req[t].port)
           IN  r = None \/ r.holder # t

\* A reservation appears on a port only by a reserve request being granted
\* on it at that moment: none that was released, or lapsed, or wiped comes
\* back from a copy some request in flight (a refresh between its query and
\* its merge) still holds.
NoResurrection ==
    [][\A h \in Hubs, p \in Ports :
         \/ Slot(h, p)' \in {Slot(h, p), None}
         \/ \E t \in Tasks :
              /\ pc[t] = "reserve" /\ pc'[t] # "reserve"
              /\ req[t].hub = h /\ req[t].port = p
              /\ Slot(h, p)' = NewReservation(t)]_vars

\* "Exclusive access" in the hardware's terms: while the bus stays as it is,
\* no two live reservations are for one physical port, although the registry
\* is keyed by hub id and commands are addressed by location.
PhysicalExclusive ==
    \A h1, h2 \in Hubs, p \in Ports :
        h1 # h2 /\ Live(Slot(h1, p)) /\ Live(Slot(h2, p))
        => hubs[h1].location # hubs[h2].location

\* Once no request is in flight, the power the registry shows for a port is
\* the power the port has.
CoherentAtRest ==
    (\A t \in Tasks : pc[t] = "idle") =>
        \A h \in Hubs, p \in Ports :
            HasPort(h, p) => hubs[h].ports[p].power = power[hubs[h].location][p]

\* While the bus stays as it is, a live reservation ends only by a release (or
\* rollback) its own role asked for, or by a discovery that lists its hub:
\* neither a refresh nor a power command nor the clean-up loses one, also one
\* that was made while they were talking to uhubctl.
EndedByOwnRole ==
    [][\A h \in Hubs, p \in Ports :
         Live(Slot(h, p)) /\ Slot(h, p)' # Slot(h, p) =>
            \E t \in Tasks :
              \/ /\ pc[t] \in {"release", "rollback"} /\ pc'[t] # pc[t]
                 /\ req[t].hub = h /\ req[t].port = p
                 /\ req[t].role = Slot(h, p).by
              \/ /\ pc[t] = "insert" /\ pc'[t] # pc[t]
                 /\ \E r \in found[t] : r.id = h]_vars

\* A live reservation ends only by a release (or rollback) of its own role:
\* "Reserve ports for exclusive access".
LeaseKept ==
    [][\A h \in Hubs, p \in Ports :
         Live(Slot(h, p)) /\ Slot(h, p)' # Slot(h, p) =>
            \E t \in Tasks : /\ pc[t] \in {"release", "rollback"}
                             /\ req[t].hub = h /\ req[t].port = p
                             /\ req[t].role = Slot(h, p).by]_vars

\* power_off_and_release as one operation: a port whose reservation the caller
\* may not release is not switched off on the way to that refusal.
OthersKeepPower ==
    [][\A t \in Tasks :
         pc[t] = "command" /\ pc'[t] = "update" /\ power' # power
            /\ req[t].op = "hub_port_release"
         => LET r == Slot(req[t].hub, req[t].port)
            IN  r = None \/ IsExpired(r) \/ r.by = req[t].role]_vars

-----------------------------------------------------------------------------
(* The registry's reservations are the leases of PortLease: every step of  *)
(* every request is at most one of its actions.                            *)

LeaseOf(r) == IF r = None THEN None ELSE [by |-> r.by, expires |-> r.expires]

leases == [k \in Hubs \X Ports |-> LeaseOf(Slot(k[1], k[2]))]

Leases == INSTANCE PortLease WITH lease <- leases

\* While the bus stays as it is, whatever the interleaving, a reservation is
\* granted only where none is in force and goes only by its role's release,
\* after its deadline, or by a rediscovery of its hub.
ImplementsLeases == Leases!Spec
=============================================================================
