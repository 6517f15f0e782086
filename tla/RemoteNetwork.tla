---------------------------- MODULE RemoteNetwork ----------------------------
(***************************************************************************)
(* The remote's start-up and the network it serves on: the USB gadget in   *)
(* configfs and the interface usb0 (src/protocol/transport.rs, main of     *)
(* src/bin/remote.rs), and the requests that configure and report usb0     *)
(* while it serves.                                                        *)
(*                                                                         *)
(* Everything here is a sequence of commands and file writes that leave    *)
(* the kernel as it is when one of them fails, and that are repeated by    *)
(* the next start: the kernel's state outlives the process, and ends with  *)
(* a reboot only.                                                          *)
(***************************************************************************)
EXTENDS Naturals, Sequences

CONSTANTS
    Tasks,         \* the connections
    Inet,          \* the IPv4 addresses clients configure, not of 127/8
    Inet6,         \* and the IPv6 addresses
    Own,           \* the address of UsbGadgetConfig::remote, an IPv4 one
    LinkLocal,     \* the IPv6 address the kernel itself gives the interface
    AnyAddress,    \* 0.0.0.0
    Gateways4,     \* the gateways clients ask for, of either family
    Gateways6,
    OnLink,        \* <<a, g>>: gateway g is on the link of address a
    Elsewhere,     \* the gateways on the link of another interface
    Issued,        \* the network_configure requests of the clients
    Invocations,   \* the command lines the remote is started with
    MaxStarts,     \* bound on the starts of the remote
    MaxBoots,      \* bound on the reboots of the device
    None

Addresses == Inet \cup Inet6
Gateways == Gateways4 \cup Gateways6

Families == {"inet", "inet6"}
FamilyOf(g) == IF g \in Gateways4 THEN "inet" ELSE "inet6"

\* --setup-gadget, --tcp, and the address listened on.
Flags == {f \in [setup : BOOLEAN, tcp : BOOLEAN, listen : {Own, AnyAddress}] :
              f.tcp \/ f.listen = Own}

\* NetworkConfigureParams; the interface is usb0, and a prefix length belongs
\* to its address.
Configure == [address : Addresses, gateway : Gateways \cup {None}]

ASSUME NetworkAssumption ==
    /\ Invocations \subseteq Flags
    /\ MaxStarts \in Nat /\ MaxBoots \in Nat
    /\ Issued \subseteq Configure
    /\ Own \in Inet /\ LinkLocal \notin Inet
    /\ Inet \cap Inet6 = {} /\ Gateways4 \cap Gateways6 = {}
    /\ Elsewhere \subseteq Gateways
    /\ AnyAddress \notin Addresses
    /\ None \notin Flags \cup Inet \cup Gateways

VARIABLES
    mounted,       \* configfs is mounted
    built,         \* how many parts of the gadget exist, in the order of Parts
    usb0,          \* the interface exists
    up,            \* and has been brought up
    addresses,     \* the addresses it was given
    primary,       \* the IPv4 one it was given first, or None
    route,         \* each family: the gateway of the default route, or None
    pc,            \* where the remote's process is
    flags,         \* what it was started with, or None
    starts, boots,
    found,         \* history: the gadget as this start found it
    fault,         \* history: something failed in this start of itself, or
                   \* it waited for usb0 in vain
    lacked,        \* history: a command of this start met no interface
    step,          \* each connection: the command it is about to run, or idle
    request,       \* the network_configure it handles, or handled last
    answer,        \* its answer
    spoilt,        \* history: one of its commands failed of itself, or there
                   \* was no interface
    met            \* history: the default route its own command met, or None

kernel == <<mounted, built, usb0, up, addresses, primary, route>>
process == <<pc, flags, starts, boots, found, fault, lacked>>
tasks == <<step, request, answer, spoilt, met>>
vars == <<kernel, process, tasks>>

\* What setup_usb_gadget_device makes, in order; the last one enables it.
Parts == <<"directory", "ids", "strings", "config", "function", "link", "udc">>
Whole == Len(Parts)

-----------------------------------------------------------------------------
(* The kernel's part: commands, and the interface of an enabled gadget.    *)

\* How a command that could be run ended; "unspawned" if it could not be.
\* A command may fail though there is no reason to.
Outcomes(possible) == {"nonzero", "unspawned"} \cup IF possible THEN {"ok"} ELSE {}

CanAssign(a) == usb0 /\ a \notin addresses
CanRaise == usb0

\* A default route is added if its family has none yet, by whatever gateway,
\* and the gateway is on the link of some address.
Reachable(g) ==
    \/ g \in Elsewhere
    \/ up /\ \E a \in addresses : <<a, g>> \in OnLink
CanRoute(g) == route[FamilyOf(g)] = None /\ Reachable(g)

AssignedBy(o, a) ==
    /\ addresses' = IF o = "ok" THEN addresses \cup {a} ELSE addresses
    /\ primary' = IF o = "ok" /\ a \in Inet /\ primary = None THEN a ELSE primary
RaisedBy(o) == up' = (up \/ o = "ok")
RoutedBy(o, g) ==
    route' = IF o = "ok" THEN [route EXCEPT ![FamilyOf(g)] = g] ELSE route

\* Default routes of the device when it has booted, by another interface.
BootRoutes == {r \in [Families -> Elsewhere \cup {None}] :
                   \A f \in Families : r[f] # None => FamilyOf(r[f]) = f}

\* A failure of itself: one the state of the kernel does not explain.
Spurious(o, possible) == o = "unspawned" \/ (possible /\ o # "ok")

\* The kernel makes the interface some time after the gadget is enabled.
Appear ==
    /\ built = Whole /\ ~usb0
    /\ usb0' = TRUE
    /\ UNCHANGED <<mounted, built, up, addresses, primary, route, process, tasks>>

\* What the request of a new connection's task is before its first.
NoRequest == [address |-> Own, gateway |-> None]

\* The tasks end with the process.
ForgetTasks ==
    /\ step' = [t \in Tasks |-> "idle"]
    /\ request' = [t \in Tasks |-> NoRequest]
    /\ answer' = [t \in Tasks |-> "none"]
    /\ spoilt' = [t \in Tasks |-> FALSE]
    /\ met' = [t \in Tasks |-> None]

Reboot ==
    /\ boots < MaxBoots
    /\ boots' = boots + 1
    /\ mounted' \in BOOLEAN
    /\ built' = 0
    /\ usb0' = FALSE /\ up' = FALSE /\ addresses' = {} /\ primary' = None
    /\ route' \in BootRoutes
    /\ pc' = "off"
    /\ ForgetTasks
    /\ UNCHANGED <<flags, starts, found, fault, lacked>>

-----------------------------------------------------------------------------
(* The start.                                                              *)

Init ==
    /\ mounted \in BOOLEAN
    /\ built = 0
    /\ usb0 = FALSE /\ up = FALSE /\ addresses = {} /\ primary = None
    /\ route \in BootRoutes
    /\ pc = "off" /\ flags = None /\ starts = 0 /\ boots = 0
    /\ found = "nothing" /\ fault = FALSE /\ lacked = FALSE
    /\ step = [t \in Tasks |-> "idle"]
    /\ request = [t \in Tasks |-> NoRequest]
    /\ answer = [t \in Tasks |-> "none"]
    /\ spoilt = [t \in Tasks |-> FALSE]
    /\ met = [t \in Tasks |-> None]

Found ==
    CASE built = 0 -> "nothing"
      [] built \in 1..(Whole - 1) -> "part"
      [] built = Whole /\ ~usb0 -> "no interface"
      [] built = Whole /\ usb0 -> "all"

\* main: the gadget is set up if it is asked for and TCP is not.
WantsSetup(f) == f.setup /\ ~f.tcp

Start(f) ==
    /\ pc \in {"off", "exited"}
    /\ starts < MaxStarts
    /\ starts' = starts + 1
    /\ flags' = f
    /\ found' = Found
    /\ fault' = FALSE /\ lacked' = FALSE
    /\ pc' = IF WantsSetup(f) THEN "mounting" ELSE "listening"
    /\ UNCHANGED <<kernel, boots, tasks>>

\* Ends a step of the start; what the commands of setup_usb_gadget need is
\* the interface.
Go(place, failed) ==
    /\ pc' = place
    /\ fault' = (fault \/ failed)
    /\ lacked' = (lacked \/ (pc \in {"addressing", "raising"} /\ ~usb0))
    /\ UNCHANGED <<flags, starts, boots, found, tasks>>

MountUnchecked ==                                                \* a mutant
    /\ pc = "mounting" /\ mounted
    /\ Go("building", FALSE)
    /\ UNCHANGED kernel

\* setup_usb_gadget_device up to the check for the gadget's directory.  An
\* error of this function is only logged, and the start goes on.
Mount ==
    /\ pc = "mounting"
    /\ IF mounted
       THEN /\ Go(IF built > 0 THEN "addressing" ELSE "building", FALSE)
            /\ UNCHANGED mounted
       ELSE \E o \in Outcomes(TRUE) :
                /\ mounted' = (o = "ok")
                /\ Go(IF o = "unspawned" THEN "addressing" ELSE "building", o # "ok")
    /\ UNCHANGED <<built, usb0, up, addresses, primary, route>>

\* One directory, file or link of the gadget is made; the last is the write
\* that binds it to the device controller.
Build ==
    /\ pc = "building" /\ mounted
    /\ built' = built + 1
    /\ Go(IF built' = Whole THEN "waiting" ELSE "building", FALSE)
    /\ UNCHANGED <<mounted, usb0, up, addresses, primary, route>>

\* ... or it cannot be, or there is no controller.
BuildFails ==
    /\ pc = "building"
    /\ Go("addressing", TRUE)
    /\ UNCHANGED kernel

AwaitForever ==                                                  \* a mutant
    /\ pc = "waiting" /\ usb0
    /\ Go("addressing", FALSE)
    /\ UNCHANGED kernel

\* The loop that looks for usb0 every 100 ms, for 5 s.
Await ==
    /\ pc = "waiting"
    /\ Go("addressing", ~usb0)
    /\ UNCHANGED kernel

AssignOwnOnce ==                                                 \* a mutant
    /\ pc = "addressing"
    /\ \E o \in Outcomes(CanAssign(Own)) :
           /\ AssignedBy(o, Own)
           /\ Go(IF o = "ok" THEN "raising" ELSE "exited", Spurious(o, CanAssign(Own)))
    /\ UNCHANGED <<mounted, built, usb0, up, route>>

\* setup_usb_gadget: that the address is there already is no error.
AssignOwn ==
    /\ pc = "addressing"
    /\ \E o \in Outcomes(CanAssign(Own)) :
           /\ AssignedBy(o, Own)
           /\ Go(IF o = "unspawned" THEN "exited" ELSE "raising",
                 Spurious(o, CanAssign(Own)))
    /\ UNCHANGED <<mounted, built, usb0, up, route>>

RaiseIgnored ==                                                  \* a mutant
    /\ pc = "raising"
    /\ \E o \in Outcomes(CanRaise) :
           /\ RaisedBy(o)
           /\ Go(IF o = "unspawned" THEN "exited" ELSE "listening",
                 Spurious(o, CanRaise))
    /\ UNCHANGED <<mounted, built, usb0, addresses, primary, route>>

Raise ==
    /\ pc = "raising"
    /\ \E o \in Outcomes(CanRaise) :
           /\ RaisedBy(o)
           /\ Go(IF o = "ok" THEN "listening" ELSE "exited", Spurious(o, CanRaise))
    /\ UNCHANGED <<mounted, built, usb0, addresses, primary, route>>

\* bind_tcp, bind_usb_gadget: the address must be one of the device's, and
\* the port may be taken.
Listen ==
    /\ pc = "listening"
    /\ \/ /\ flags.listen = AnyAddress \/ flags.listen \in addresses
          /\ Go("serving", FALSE)
       \/ Go("exited", flags.listen = AnyAddress \/ flags.listen \in addresses)
    /\ UNCHANGED kernel

Startup == Mount \/ Build \/ BuildFails \/ Await \/ AssignOwn \/ Raise \/ Listen

\* The process is killed, wherever it is.
Kill ==
    /\ pc \notin {"off", "exited"}
    /\ pc' = "off"
    /\ ForgetTasks
    /\ UNCHANGED <<kernel, flags, starts, boots, found, fault, lacked>>

-----------------------------------------------------------------------------
(* The requests of a remote that serves.                                   *)

\* handle_network_configure takes request r.
Receive(t, r) ==
    /\ pc = "serving" /\ step[t] = "idle"
    /\ step' = [step EXCEPT ![t] = "assign"]
    /\ request' = [request EXCEPT ![t] = r]
    /\ answer' = [answer EXCEPT ![t] = "none"]
    /\ spoilt' = [spoilt EXCEPT ![t] = ~usb0]
    /\ met' = [met EXCEPT ![t] = None]
    /\ UNCHANGED <<kernel, process>>

\* Connection t's command ended as o; the handler goes on with `next`, which
\* is its answer or another command.
Proceed(t, o, possible, next) ==
    /\ IF next \in {"configured", "failed"}
       THEN /\ step' = [step EXCEPT ![t] = "idle"]
            /\ answer' = [answer EXCEPT ![t] = next]
       ELSE step' = [step EXCEPT ![t] = next] /\ UNCHANGED answer
    /\ spoilt' = [spoilt EXCEPT ![t] = @ \/ Spurious(o, possible)]
    /\ UNCHANGED <<process, request>>

\* ip addr add: only that it cannot be run is an error.
Assign(t) ==
    /\ step[t] = "assign"
    /\ LET a == request[t].address
       IN  \E o \in Outcomes(CanAssign(a)) :
              /\ AssignedBy(o, a)
              /\ Proceed(t, o, CanAssign(a),
                         IF o = "unspawned" THEN "failed" ELSE "raise")
    /\ UNCHANGED <<mounted, built, usb0, up, route, met>>

AfterRaise(t) == IF request[t].gateway # None THEN "route" ELSE "configured"

\* ip link set up, likewise.
Bring(t) ==
    /\ step[t] = "raise"
    /\ \E o \in Outcomes(CanRaise) :
           /\ RaisedBy(o)
           /\ Proceed(t, o, CanRaise,
                      IF o = "unspawned" THEN "failed" ELSE AfterRaise(t))
    /\ UNCHANGED <<mounted, built, usb0, addresses, primary, route, met>>

RouteReplaced(t) ==                                              \* a mutant
    /\ step[t] = "route"
    /\ LET g == request[t].gateway
       IN  /\ met' = [met EXCEPT ![t] = route[FamilyOf(g)]]
           /\ \E o \in Outcomes(Reachable(g)) :
                  RoutedBy(o, g) /\ Proceed(t, o, Reachable(g), "configured")
    /\ UNCHANGED <<mounted, built, usb0, up, addresses, primary>>

\* ip route add default via, whose failure is logged at most.
Route(t) ==
    /\ step[t] = "route"
    /\ LET g == request[t].gateway
       IN  /\ met' = [met EXCEPT ![t] = route[FamilyOf(g)]]
           /\ \E o \in Outcomes(CanRoute(g)) :
                  RoutedBy(o, g) /\ Proceed(t, o, CanRoute(g), "configured")
    /\ UNCHANGED <<mounted, built, usb0, up, addresses, primary>>

\* The IPv6 addresses `ip addr show` may list, in an order of the kernel's.
Shown6 == (addresses \cap Inet6) \cup IF up THEN {LinkLocal} ELSE {}

ReportsAnyLine ==                                                \* a mutant
    IF addresses = {} THEN {None} ELSE addresses
\* What network_status may report: the address of the first line of ip's with
\* "inet " or "inet6 ".  IPv4 is listed first, and of IPv4 what came first;
\* the interface's own IPv6 address comes some time after it was raised.
Reports ==
    CASE primary # None -> {primary}
      [] primary = None /\ addresses = {} -> Shown6 \cup {None}
      [] primary = None /\ addresses # {} -> Shown6

-----------------------------------------------------------------------------
Next ==
    \/ \E f \in Invocations : Start(f)
    \/ Startup
    \/ Kill \/ Reboot \/ Appear
    \/ \E t \in Tasks : \/ \E r \in Issued : Receive(t, r)
                        \/ Assign(t) \/ Bring(t) \/ Route(t)

Spec == Init /\ [][Next]_vars

\* Every command of the start-up returns, and its loop ends by the clock.
FairSpec == Spec /\ WF_vars(Startup)

-----------------------------------------------------------------------------
(* Properties.                                                             *)

StartPlaces == {"mounting", "building", "waiting", "addressing", "raising",
                "listening"}

TypeOK ==
    /\ mounted \in BOOLEAN
    /\ built \in 0..Whole
    /\ usb0 \in BOOLEAN /\ up \in BOOLEAN
    /\ addresses \subseteq Addresses
    /\ primary \in Inet \cup {None}
    /\ route \in [Families -> Gateways \cup {None}]
    /\ pc \in StartPlaces \cup {"off", "exited", "serving"}
    /\ flags \in Flags \cup {None}
    /\ starts \in 0..MaxStarts /\ boots \in 0..MaxBoots
    /\ found \in {"nothing", "part", "no interface", "all"}
    /\ fault \in BOOLEAN /\ lacked \in BOOLEAN
    /\ step \in [Tasks -> {"idle", "assign", "raise", "route"}]
    /\ request \in [Tasks -> Configure]
    /\ answer \in [Tasks -> {"none", "configured", "failed"}]
    /\ spoilt \in [Tasks -> BOOLEAN]
    /\ met \in [Tasks -> Gateways \cup {None}]

\* A remote that was told to set the gadget up and serves has its interface
\* up, with its own address: however often earlier starts were killed or
\* failed, wherever they stopped, and whatever clients configure meanwhile.
\* In particular a gadget that is there only in part is never served on.
ServingConfigured ==
    pc = "serving" /\ WantsSetup(flags) => usb0 /\ up /\ Own \in addresses

\* A start with --setup-gadget gives up for one of three reasons: something
\* failed in this very start, or it waited for usb0 in vain; an earlier start
\* left the gadget in part; or an earlier start had enabled the gadget, usb0
\* was not there yet, for which only the start that enables it waits, and a
\* command for usb0 came too early.  Nothing else that earlier starts and
\* clients have done is in its way (setup_usb_gadget_device, setup_usb_gadget,
\* bind_usb_gadget).
StartExplained ==
    pc = "exited" /\ flags # None /\ WantsSetup(flags) =>
        \/ fault
        \/ found = "part"
        \/ found = "no interface" /\ lacked

\* The command line of the guide's quick test, with --tcp beside --setup-gadget
\* and the gadget's address to listen on, gives up only if something failed.
QuickTestStarts ==
    pc = "exited" /\ flags # None /\ flags.setup /\ flags.tcp => fault

\* What became of the default route that connection t's request asked for: it
\* is there, unless there was another in the way, which is there still.
RouteStands(t) ==
    LET r == request[t]
    IN  r.gateway # None /\ <<r.address, r.gateway>> \in OnLink =>
            route[FamilyOf(r.gateway)] = IF met[t] = None THEN r.gateway ELSE met[t]

\* "configured" of handle_network_configure is the truth of the address and
\* the interface, if none of the request's commands failed of itself and the
\* interface was there: however other requests for the same or other addresses
\* and gateways interleave with it, and whatever is set already.  Of the route
\* it is true only if there was no default route in the way: the first gateway
\* stays, and nobody is told.
ConfiguredHolds ==
    \A t \in Tasks : answer[t] = "configured" /\ ~spoilt[t] =>
        /\ request[t].address \in addresses
        /\ up
        /\ RouteStands(t)

\* An IPv4 address that network_status reports of usb0 is the one it reports
\* until a reboot, whatever addresses of either family are added.  (An IPv6
\* address may give way to a later one, and to any IPv4 address.)
ReportKept ==
    [][boots' = boots => \A a \in Inet : Reports = {a} => Reports' = {a}]_vars

\* A start ends: the remote serves, or has given up, or was killed.
StartEnds == pc \in StartPlaces ~> pc \notin StartPlaces
===============================================================================
