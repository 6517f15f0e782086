------------------------------ MODULE PortLease ------------------------------
(***************************************************************************)
(* What the port reservations of the USB hub manager promise, free of how  *)
(* the manager keeps them: every port of every hub carries at most one     *)
(* lease; a lease is taken only where none is in force, and goes only when *)
(* its own role gives it up, when its deadline has passed, or when its     *)
(* whole hub is forgotten.  (Forgetting is what a rediscovery does to the  *)
(* reservations: src/usb_hub/manager.rs, discover_hubs.)  HubManager shows *)
(* that the manager, with its requests in flight, implements this.         *)
(***************************************************************************)
EXTENDS Naturals

CONSTANTS
    Hubs,        \* hub ids ("vendor:product")
    Ports,       \* port numbers
    Roles,       \* master, uut, slave
    Durations,   \* what duration_secs may be: numbers, or None (no deadline)
    None         \* the absent value (Rust's Option::None)

VARIABLES
    now,         \* the system clock, in seconds
    lease        \* for every port of every hub, its lease or None

vars == <<now, lease>>

Keys == Hubs \X Ports

Lease == [by : Roles, expires : Nat \cup {None}]

\* PortReservation::is_expired: strictly later than the deadline.
Expired(l) == l.expires # None /\ now > l.expires

InForce(l) == l # None /\ ~Expired(l)

Deadline(d) == IF d = None THEN None ELSE now + d

Init ==
    /\ now = 0
    /\ lease = [k \in Keys |-> None]

Tick ==
    /\ now' = now + 1
    /\ UNCHANGED lease

\* A port is leased only while no lease is in force on it.
Acquire(k, r, d) ==
    /\ ~InForce(lease[k])
    /\ lease' = [lease EXCEPT ![k] = [by |-> r, expires |-> Deadline(d)]]
    /\ UNCHANGED now

\* Only the leasing role gives a lease up (before or after its deadline).
Release(k, r) ==
    /\ lease[k] # None
    /\ lease[k].by = r
    /\ lease' = [lease EXCEPT ![k] = None]
    /\ UNCHANGED now

\* Leases past their deadline are dropped.
Lapse(K) ==
    /\ \A k \in K : ~InForce(lease[k])
    /\ lease' = [k \in Keys |-> IF k \in K THEN None ELSE lease[k]]
    /\ UNCHANGED now

\* A set of hubs is registered afresh: nothing is leased on them any more.
Forget(H) ==
    /\ lease' = [k \in Keys |-> IF k[1] \in H THEN None ELSE lease[k]]
    /\ UNCHANGED now

Next ==
    \/ Tick
    \/ \E k \in Keys, r \in Roles, d \in Durations : Acquire(k, r, d)
    \/ \E k \in Keys, r \in Roles : Release(k, r)
    \/ \E K \in SUBSET Keys : Lapse(K)
    \/ \E H \in SUBSET Hubs : Forget(H)

Spec == Init /\ [][Next]_vars
==============================================================================
