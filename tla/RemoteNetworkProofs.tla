------------------------- MODULE RemoteNetworkProofs -------------------------
(***************************************************************************)
(* Proofs about RemoteNetwork: types, what a start leads to, and what the  *)
(* requests leave, for any number of clients, addresses, starts, reboots   *)
(* and any command lines.                                                  *)
(***************************************************************************)
EXTENDS RemoteNetwork, TLAPS

-----------------------------------------------------------------------------
(* The strengthening.                                                      *)

\* A gadget is built in a mounted configfs only, and never past its last part.
BuildInv ==
    /\ built > 0 => mounted
    /\ pc = "building" => built < Whole

\* The setup is run by those who asked for it alone.
FlagsInv ==
    /\ pc \in StartPlaces \cup {"serving"} => flags \in Flags
    /\ pc \in StartPlaces \ {"listening"} => WantsSetup(flags)

\* After the interface was raised it is up, and nothing takes it down.
RaisedInv ==
    /\ pc \in {"listening", "serving"} /\ WantsSetup(flags) => usb0 /\ up
    /\ pc = "serving" /\ WantsSetup(flags) => Own \in addresses

\* A start that has had no reason to give up so far has made what its place
\* requires; one that found a whole gadget without its interface has had the
\* interface for every command for it.
Sound ==
    /\ found # "part" /\ ~fault
    /\ ~(found = "no interface" /\ lacked)

StartInv ==
    /\ pc = "mounting" => /\ found = "nothing" => built = 0
                          /\ found = "all" => usb0 /\ built = Whole
    /\ pc \in {"addressing", "raising"} /\ Sound => usb0 \/ found = "no interface"
    /\ pc \in {"raising", "listening"} /\ WantsSetup(flags) /\ Sound =>
           Own \in addresses
    /\ pc = "exited" /\ flags \in Flags /\ WantsSetup(flags) => ~Sound

\* A request that did not fail of itself has made what its step requires.
Fulfils(t) ==
    /\ step[t] = "route" => request[t].gateway # None
    /\ ~spoilt[t] =>
        /\ step[t] # "idle" => usb0
        /\ step[t] \in {"raise", "route"} => request[t].address \in addresses
        /\ step[t] = "route" => up
        /\ answer[t] = "configured" =>
               /\ request[t].address \in addresses
               /\ up
               /\ RouteStands(t)

RequestInv == \A t \in Tasks : Fulfils(t)

IInv == TypeOK /\ BuildInv /\ FlagsInv /\ RaisedInv /\ StartInv /\ RequestInv

-----------------------------------------------------------------------------
(* The kernel.                                                             *)

LEMMA WholeGadget == Whole = 7
  BY DEF Whole, Parts

\* The numbers of the state.
LEMMA Numbers ==
    ASSUME TypeOK
    PROVE  built \in 0..7 /\ starts \in 0..MaxStarts /\ boots \in 0..MaxBoots
<1>1. built \in 0..Whole /\ starts \in 0..MaxStarts /\ boots \in 0..MaxBoots
  BY DEF TypeOK
<1> QED
  BY <1>1, WholeGadget

\* What a start finds says how far the gadget is.
LEMMA FoundSays ==
    ASSUME built \in 0..Whole, usb0 \in BOOLEAN
    PROVE  /\ Found \in {"nothing", "part", "no interface", "all"}
           /\ Found = "nothing" => built = 0
           /\ Found = "all" => usb0 /\ built = Whole
<1>1. \/ built = 0
      \/ built \in 1..(Whole - 1)
      \/ built = Whole /\ ~usb0
      \/ built = Whole /\ usb0
  BY WholeGadget
<1>2. CASE built = 0
  BY <1>2, WholeGadget DEF Found
<1>3. CASE built \in 1..(Whole - 1)
  BY <1>3, WholeGadget DEF Found
<1>4. CASE built = Whole /\ ~usb0
  BY <1>4, WholeGadget DEF Found
<1>5. CASE built = Whole /\ usb0
  BY <1>5, WholeGadget DEF Found
<1> QED
  BY <1>1, <1>2, <1>3, <1>4, <1>5

\* What ip addr add does: no address is lost, the first IPv4 one is the same,
\* and the new one is there unless the command failed of itself.
LEMMA AddressAssigned ==
    ASSUME addresses \subseteq Addresses, primary \in Inet \cup {None},
           NEW a \in Addresses, NEW o \in Outcomes(CanAssign(a)),
           AssignedBy(o, a)
    PROVE  /\ addresses' \subseteq Addresses /\ primary' \in Inet \cup {None}
           /\ addresses \subseteq addresses'
           /\ primary # None => primary' = primary
           /\ usb0 /\ ~Spurious(o, CanAssign(a)) => a \in addresses'
<1>1. addresses' \subseteq Addresses /\ addresses \subseteq addresses'
  BY DEF AssignedBy
<1>2. primary' \in Inet \cup {None} /\ (primary # None => primary' = primary)
  BY DEF AssignedBy
<1>3. usb0 /\ ~Spurious(o, CanAssign(a)) => a \in addresses'
  BY DEF AssignedBy, Spurious, CanAssign
<1> QED
  BY <1>1, <1>2, <1>3

\* What ip route add does: a default route there is stays, and if there was
\* none the new one is there unless the command failed of itself.
LEMMA RouteAdded ==
    ASSUME route \in [Families -> Gateways \cup {None}],
           NEW g \in Gateways, NEW o \in Outcomes(CanRoute(g)), RoutedBy(o, g)
    PROVE  /\ route' \in [Families -> Gateways \cup {None}]
           /\ \A f \in Families : route[f] # None => route'[f] = route[f]
           /\ Reachable(g) /\ ~Spurious(o, CanRoute(g)) =>
                  route'[FamilyOf(g)] = IF route[FamilyOf(g)] = None
                                        THEN g ELSE route[FamilyOf(g)]
<1>1. FamilyOf(g) \in Families
  BY DEF FamilyOf, Families
<1>2. CASE o = "ok"
  <2>1. route[FamilyOf(g)] = None
    BY <1>2 DEF Outcomes, CanRoute
  <2>2. route' = [route EXCEPT ![FamilyOf(g)] = g]
    BY <1>2 DEF RoutedBy
  <2> QED
    BY <1>1, <2>1, <2>2
<1>3. CASE o # "ok"
  <2>1. route' = route
    BY <1>3 DEF RoutedBy
  <2>2. Reachable(g) /\ ~Spurious(o, CanRoute(g)) => route[FamilyOf(g)] # None
    BY <1>3 DEF Spurious, CanRoute
  <2> QED
    BY <2>1, <2>2
<1> QED
  BY <1>2, <1>3

\* What a step never takes away, but for a reboot.
Grows ==
    /\ usb0 => usb0'
    /\ up => up'
    /\ addresses \subseteq addresses'
    /\ \A f \in Families : route[f] # None => route'[f] = route[f]

\* The types of the kernel's addresses and routes.
AddressesOK == addresses \subseteq Addresses /\ primary \in Inet \cup {None}
RoutesOK == route \in [Families -> Gateways \cup {None}]

LEMMA RoutesAtBoot == BootRoutes \subseteq [Families -> Gateways \cup {None}]
<1> SUFFICES ASSUME NEW r \in BootRoutes
             PROVE  r \in [Families -> Gateways \cup {None}]
  OBVIOUS
<1>1. r \in [Families -> Elsewhere \cup {None}]
  BY DEF BootRoutes
<1> QED
  BY <1>1, NetworkAssumption

\* What a step of one of the clients' handlers leaves to the process.
LEMMA ProcessUndisturbed ==
    ASSUME BuildInv, FlagsInv, RaisedInv, StartInv,
           Grows, process' = process, mounted' = mounted, built' = built
    PROVE  BuildInv' /\ FlagsInv' /\ RaisedInv' /\ StartInv'
<1>1. /\ pc' = pc /\ flags' = flags /\ found' = found /\ fault' = fault /\ lacked' = lacked
  BY DEF process
<1>2. BuildInv' /\ FlagsInv'
  BY <1>1 DEF BuildInv, FlagsInv
<1>3. RaisedInv'
  BY <1>1 DEF RaisedInv, Grows, WantsSetup
<1>4. StartInv'
  BY <1>1 DEF StartInv, Sound, Grows, WantsSetup
<1> QED
  BY <1>2, <1>3, <1>4

LEMMA RouteStandsStill ==
    ASSUME NEW t \in Tasks, RouteStands(t), Grows,
           request'[t] = request[t], met'[t] = met[t]
    PROVE  RouteStands(t)'
<1>1. FamilyOf(request[t].gateway) \in Families
  BY DEF FamilyOf, Families
<1>2. FamilyOf(request[t].gateway)' = FamilyOf(request[t].gateway)
  BY DEF FamilyOf
<1> QED
  BY <1>1, <1>2 DEF RouteStands, Grows

\* What a step leaves to a handler that does not take it.
LEMMA FulfilsStill ==
    ASSUME NEW t \in Tasks, Fulfils(t), Grows,
           step'[t] = step[t], request'[t] = request[t],
           answer'[t] = answer[t], spoilt'[t] = spoilt[t], met'[t] = met[t]
    PROVE  Fulfils(t)'
<1>1. RouteStands(t) => RouteStands(t)'
  BY RouteStandsStill
<1> QED
  BY <1>1 DEF Fulfils, Grows

\* What a step of the process leaves to the handlers.
LEMMA TasksUndisturbed ==
    ASSUME RequestInv, Grows, tasks' = tasks
    PROVE  RequestInv'
<1>1. /\ step' = step /\ request' = request /\ answer' = answer
      /\ spoilt' = spoilt /\ met' = met
  BY DEF tasks
<1> SUFFICES ASSUME NEW t \in Tasks
             PROVE  Fulfils(t)'
  BY DEF RequestInv
<1> QED
  BY <1>1, FulfilsStill DEF RequestInv

-----------------------------------------------------------------------------
(* The start.                                                              *)

\* main begins, with whatever earlier starts left.
LEMMA StartKeepsInv ==
    ASSUME IInv, NEW f \in Invocations, Start(f)
    PROVE  IInv'
<1> USE DEF IInv
<1>1. f \in Flags
  BY NetworkAssumption
<1>2. /\ addresses' = addresses /\ usb0' = usb0 /\ up' = up /\ built' = built
      /\ mounted' = mounted /\ primary' = primary /\ route' = route /\ boots' = boots
      /\ tasks' = tasks
      /\ flags' = f /\ found' = Found /\ fault' = FALSE /\ lacked' = FALSE
      /\ starts' = starts + 1
      /\ pc' = IF WantsSetup(f) THEN "mounting" ELSE "listening"
      /\ starts < MaxStarts
  BY DEF Start, kernel, tasks
<1>3. Grows
  BY <1>2 DEF Grows
<1>4. RequestInv'
  BY <1>2, <1>3, TasksUndisturbed
<1>5. /\ Found \in {"nothing", "part", "no interface", "all"}
      /\ Found = "nothing" => built = 0
      /\ Found = "all" => usb0 /\ built = Whole
  BY FoundSays DEF TypeOK
<1>6. TypeOK'
  <2>1. starts' \in 0..MaxStarts
    BY <1>2, Numbers, NetworkAssumption
  <2>2. pc' \in StartPlaces
    BY <1>2 DEF StartPlaces
  <2> QED
    BY <1>1, <1>2, <1>5, <2>1, <2>2 DEF TypeOK, tasks
<1>7. BuildInv'
  BY <1>2 DEF BuildInv
<1>8. FlagsInv'
  BY <1>1, <1>2 DEF FlagsInv
<1>9. RaisedInv'
  BY <1>2 DEF RaisedInv
<1>10. StartInv'
  <2>1. CASE WantsSetup(f)
    BY <1>2, <1>5, <2>1 DEF StartInv
  <2>2. CASE ~WantsSetup(f)
    BY <1>2, <2>2 DEF StartInv
  <2> QED
    BY <2>1, <2>2
<1> QED
  BY <1>4, <1>6, <1>7, <1>8, <1>9, <1>10

\* setup_usb_gadget_device: configfs, the gadget found or built, the wait.
LEMMA SetupKeepsInv ==
    ASSUME IInv, Mount \/ Build \/ BuildFails \/ Await
    PROVE  IInv'
<1> USE DEF IInv
<1>1. /\ addresses' = addresses /\ usb0' = usb0 /\ up' = up
      /\ primary' = primary /\ route' = route
      /\ tasks' = tasks /\ flags' = flags /\ starts' = starts
      /\ boots' = boots /\ found' = found
  BY DEF Mount, Build, BuildFails, Await, Go, kernel
<1>2. Grows
  BY <1>1 DEF Grows
<1>3. RequestInv'
  BY <1>1, <1>2, TasksUndisturbed
<1>4. /\ fault' \in BOOLEAN /\ lacked' = lacked
  BY DEF Mount, Build, BuildFails, Await, Go, TypeOK
<1>5. /\ pc \in {"mounting", "building", "waiting"}
      /\ pc' \in {"building", "waiting", "addressing"}
  BY DEF Mount, Build, BuildFails, Await, Go
<1>6. /\ built' \in 0..Whole /\ mounted' \in BOOLEAN
      /\ built' > 0 => mounted'
      /\ pc' = "building" => built' < Whole
  <2>1. CASE Mount
    <3>1. built' = built
      BY <2>1 DEF Mount
    <3>2. CASE mounted
      <4>1. mounted' = mounted
        BY <2>1, <3>2 DEF Mount
      <4>2. pc' = "building" => ~(built > 0)
        BY <2>1, <3>2 DEF Mount, Go
      <4> QED
        BY <3>1, <3>2, <4>1, <4>2, Numbers, WholeGadget
    <3>3. CASE ~mounted
      <4>1. built = 0
        BY <3>3, Numbers DEF BuildInv
      <4>2. mounted' \in BOOLEAN
        BY <2>1, <3>3 DEF Mount
      <4> QED
        BY <3>1, <4>1, <4>2, WholeGadget
    <3> QED
      BY <3>2, <3>3
  <2>2. CASE Build
    <3>1. /\ pc = "building" /\ mounted /\ mounted' = mounted
          /\ built' = built + 1
          /\ pc' = "building" => built' # Whole
      BY <2>2 DEF Build, Go
    <3> QED
      BY <3>1, Numbers, WholeGadget DEF BuildInv
  <2>3. CASE BuildFails \/ Await
    <3>1. /\ built' = built /\ mounted' = mounted
          /\ pc' = "addressing"
      BY <2>3 DEF BuildFails, Await, Go, kernel
    <3> QED
      BY <3>1 DEF TypeOK, BuildInv
  <2> QED
    BY <2>1, <2>2, <2>3
<1>7. TypeOK'
  BY <1>1, <1>4, <1>5, <1>6 DEF TypeOK, StartPlaces, tasks
<1>8. BuildInv'
  BY <1>6 DEF BuildInv
<1>9. FlagsInv'
  BY <1>1, <1>5 DEF FlagsInv, StartPlaces, WantsSetup
<1>10. RaisedInv'
  BY <1>5 DEF RaisedInv
<1>11. pc' = "addressing" /\ Sound' => usb0 \/ found = "no interface"
  <2>1. CASE Mount
    <3>1. CASE mounted
      <4>1. found \in {"nothing", "part", "no interface", "all"}
        BY DEF TypeOK
      <4>2. /\ pc = "mounting" /\ fault' = (fault \/ FALSE)
            /\ pc' = "addressing" => built > 0
        BY <2>1, <3>1 DEF Mount, Go
      <4>3. Sound' => found # "part"
        BY <1>1 DEF Sound
      <4>4. pc' = "addressing" => found # "nothing"
        BY <4>2, Numbers DEF StartInv
      <4> QED
        BY <4>1, <4>2, <4>3, <4>4 DEF StartInv
    <3>2. CASE ~mounted
      BY <2>1, <3>2 DEF Mount, Go, Sound
    <3> QED
      BY <3>1, <3>2
  <2>2. CASE Build
    BY <2>2 DEF Build, Go
  <2>3. CASE BuildFails
    BY <2>3 DEF BuildFails, Go, Sound
  <2>4. CASE Await
    BY <2>4 DEF Await, Go, Sound
  <2> QED
    BY <2>1, <2>2, <2>3, <2>4
<1>12. StartInv'
  BY <1>1, <1>5, <1>11 DEF StartInv
<1> QED
  BY <1>3, <1>7, <1>8, <1>9, <1>10, <1>12
\* setup_usb_gadget: the address, which may be there already.
LEMMA AssignOwnKeepsInv ==
    ASSUME IInv, AssignOwn
    PROVE  IInv'
<1> USE DEF IInv
<1>1. PICK o \in Outcomes(CanAssign(Own)) :
          /\ AssignedBy(o, Own)
          /\ Go(IF o = "unspawned" THEN "exited" ELSE "raising",
                Spurious(o, CanAssign(Own)))
  BY DEF AssignOwn
<1>2. /\ pc = "addressing" /\ pc' \in {"exited", "raising"}
      /\ pc' = "exited" => fault'
      /\ fault' = (fault \/ Spurious(o, CanAssign(Own)))
      /\ lacked' = (lacked \/ ~usb0)
      /\ mounted' = mounted /\ built' = built /\ usb0' = usb0 /\ up' = up
      /\ route' = route /\ flags' = flags /\ starts' = starts
      /\ boots' = boots /\ found' = found /\ tasks' = tasks
  BY <1>1 DEF AssignOwn, Go, Spurious
<1>3. /\ AddressesOK'
      /\ addresses \subseteq addresses'
      /\ usb0 /\ ~Spurious(o, CanAssign(Own)) => Own \in addresses'
  <2>1. Own \in Addresses
    BY NetworkAssumption DEF Addresses
  <2> QED
    BY <1>1, <2>1, AddressAssigned DEF TypeOK, AddressesOK
<1>4. Grows
  BY <1>2, <1>3 DEF Grows
<1>5. RequestInv'
  BY <1>2, <1>4, TasksUndisturbed
<1>6. TypeOK'
  <2>1. fault' \in BOOLEAN /\ lacked' \in BOOLEAN
    BY <1>2
  <2> QED
    BY <1>2, <1>3, <2>1 DEF TypeOK, AddressesOK, StartPlaces, tasks
<1>7. BuildInv' /\ RaisedInv'
  BY <1>2 DEF BuildInv, RaisedInv
<1>8. FlagsInv'
  BY <1>2 DEF FlagsInv, StartPlaces, WantsSetup
<1>9. StartInv'
  <2>1. Sound' => Sound /\ ~Spurious(o, CanAssign(Own))
                  /\ (found = "no interface" => usb0)
    BY <1>2 DEF Sound
  <2>2. pc' = "raising" /\ Sound' => usb0' /\ Own \in addresses'
    BY <1>2, <1>3, <2>1 DEF StartInv
  <2>3. pc' = "exited" => ~Sound'
    BY <1>2 DEF Sound
  <2> QED
    BY <1>2, <2>2, <2>3 DEF StartInv
<1> QED
  BY <1>5, <1>6, <1>7, <1>8, <1>9

\* ... and the interface, which has to come up.
LEMMA RaiseKeepsInv ==
    ASSUME IInv, Raise
    PROVE  IInv'
<1> USE DEF IInv
<1>1. PICK o \in Outcomes(CanRaise) :
          /\ RaisedBy(o)
          /\ Go(IF o = "ok" THEN "listening" ELSE "exited", Spurious(o, CanRaise))
  BY DEF Raise
<1>2. /\ pc = "raising" /\ pc' \in {"exited", "listening"}
      /\ pc' = "listening" => o = "ok"
      /\ pc' = "exited" => o # "ok"
      /\ fault' = (fault \/ Spurious(o, CanRaise))
      /\ lacked' = (lacked \/ ~usb0)
      /\ mounted' = mounted /\ built' = built /\ usb0' = usb0
      /\ addresses' = addresses
      /\ primary' = primary /\ route' = route /\ flags' = flags /\ starts' = starts
      /\ boots' = boots /\ found' = found /\ tasks' = tasks
  BY <1>1 DEF Raise, Go
<1>3. /\ up => up'
      /\ up' \in BOOLEAN
      /\ o = "ok" => usb0 /\ up'
  BY <1>1 DEF RaisedBy, Outcomes, CanRaise
<1>4. Grows
  BY <1>2, <1>3 DEF Grows
<1>5. RequestInv'
  BY <1>2, <1>4, TasksUndisturbed
<1>6. TypeOK'
  <2>1. fault' \in BOOLEAN /\ lacked' \in BOOLEAN
    BY <1>2
  <2> QED
    BY <1>2, <1>3, <2>1 DEF TypeOK, StartPlaces, tasks
<1>7. BuildInv' /\ RaisedInv'
  BY <1>2, <1>3 DEF BuildInv, RaisedInv
<1>8. FlagsInv'
  BY <1>2 DEF FlagsInv, StartPlaces, WantsSetup
<1>9. StartInv'
  <2>1. Sound' => Sound /\ ~Spurious(o, CanRaise)
                  /\ (found = "no interface" => usb0)
    BY <1>2 DEF Sound
  <2>2. /\ Sound => usb0 \/ found = "no interface"
        /\ Sound /\ WantsSetup(flags) => Own \in addresses
    BY <1>2 DEF StartInv
  <2>3. pc' = "exited" => ~Sound'
    BY <1>2, <2>1, <2>2 DEF Spurious, CanRaise
  <2>4. pc' = "listening" /\ WantsSetup(flags') /\ Sound' => Own \in addresses'
    BY <1>2, <1>4, <2>1, <2>2 DEF Grows
  <2> QED
    BY <1>2, <2>3, <2>4 DEF StartInv
<1> QED
  BY <1>5, <1>6, <1>7, <1>8, <1>9

\* Who asked for the setup listens on the gadget's address (main).
LEMMA SetupListensOnOwn ==
    ASSUME NEW f \in Flags, WantsSetup(f)
    PROVE  f.listen = Own /\ f.listen # AnyAddress
  BY NetworkAssumption DEF Flags, WantsSetup, Addresses

\* bind_usb_gadget and bind_tcp.
LEMMA ListenKeepsInv ==
    ASSUME IInv, Listen
    PROVE  IInv'
<1> USE DEF IInv
<1>1. /\ pc = "listening" /\ pc' \in {"exited", "serving"}
      /\ pc' = "serving" => flags.listen = AnyAddress \/ flags.listen \in addresses
      /\ pc' = "exited" =>
             fault' = (fault \/ (flags.listen = AnyAddress \/ flags.listen \in addresses))
      /\ fault' \in BOOLEAN /\ lacked' = lacked
      /\ mounted' = mounted /\ built' = built /\ usb0' = usb0 /\ up' = up
      /\ addresses' = addresses
      /\ primary' = primary /\ route' = route /\ flags' = flags /\ starts' = starts
      /\ boots' = boots /\ found' = found /\ tasks' = tasks
      /\ fault => fault'
  BY DEF Listen, Go, kernel, TypeOK
<1>2. Grows
  BY <1>1 DEF Grows
<1>3. RequestInv'
  BY <1>1, <1>2, TasksUndisturbed
<1>4. TypeOK'
  BY <1>1 DEF TypeOK, StartPlaces, tasks
<1>5. flags \in Flags
  BY <1>1 DEF FlagsInv, StartPlaces
<1>6. BuildInv' /\ FlagsInv'
  BY <1>1, <1>5 DEF BuildInv, FlagsInv, StartPlaces
<1>7. WantsSetup(flags) => flags.listen = Own /\ flags.listen # AnyAddress
  BY <1>5, SetupListensOnOwn
<1>8. RaisedInv'
  <2>1. pc' = "serving" /\ WantsSetup(flags) => Own \in addresses'
    BY <1>1, <1>2, <1>7 DEF Grows
  <2> QED
    BY <1>1, <2>1 DEF RaisedInv, WantsSetup
<1>9. StartInv'
  <2>1. WantsSetup(flags) /\ Sound => Own \in addresses
    BY <1>1 DEF StartInv
  <2>2. Sound' => Sound
    BY <1>1 DEF Sound
  <2>3. pc' = "exited" /\ WantsSetup(flags) => ~Sound'
    BY <1>1, <1>7, <2>1, <2>2 DEF Sound
  <2> QED
    BY <1>1, <2>3 DEF StartInv, WantsSetup
<1> QED
  BY <1>3, <1>4, <1>6, <1>8, <1>9

-----------------------------------------------------------------------------
(* What happens to the process and the kernel.                             *)

\* New tasks have no request yet.
LEMMA TasksForgotten ==
    ASSUME ForgetTasks
    PROVE  /\ step' \in [Tasks -> {"idle", "assign", "raise", "route"}]
           /\ request' \in [Tasks -> Configure]
           /\ answer' \in [Tasks -> {"none", "configured", "failed"}]
           /\ spoilt' \in [Tasks -> BOOLEAN]
           /\ met' \in [Tasks -> Gateways \cup {None}]
           /\ RequestInv'
<1>1. NoRequest \in Configure
  BY NetworkAssumption DEF NoRequest, Configure, Addresses
<1>2. RequestInv'
  BY DEF ForgetTasks, RequestInv, Fulfils
<1> QED
  BY <1>1, <1>2 DEF ForgetTasks

LEMMA KillKeepsInv ==
    ASSUME IInv, Kill
    PROVE  IInv'
<1> USE DEF IInv
<1>1. /\ pc' = "off" /\ addresses' = addresses /\ usb0' = usb0 /\ up' = up
      /\ mounted' = mounted /\ built' = built /\ primary' = primary /\ route' = route
      /\ flags' = flags /\ starts' = starts /\ boots' = boots
      /\ found' = found /\ fault' = fault /\ lacked' = lacked
      /\ ForgetTasks
  BY DEF Kill, kernel
<1>2. TypeOK'
  BY <1>1, TasksForgotten DEF TypeOK
<1>3. BuildInv' /\ FlagsInv' /\ RaisedInv' /\ StartInv'
  BY <1>1 DEF BuildInv, FlagsInv, RaisedInv, StartInv, StartPlaces
<1>4. RequestInv'
  BY <1>1, TasksForgotten
<1> QED
  BY <1>2, <1>3, <1>4

LEMMA RebootKeepsInv ==
    ASSUME IInv, Reboot
    PROVE  IInv'
<1> USE DEF IInv
<1>1. /\ pc' = "off" /\ addresses' = {} /\ primary' = None
      /\ usb0' = FALSE /\ up' = FALSE /\ route' \in BootRoutes
      /\ mounted' \in BOOLEAN /\ built' = 0
      /\ flags' = flags /\ starts' = starts
      /\ boots < MaxBoots /\ boots' = boots + 1
      /\ found' = found /\ fault' = fault /\ lacked' = lacked
      /\ ForgetTasks
  BY DEF Reboot
<1>2. TypeOK'
  <2>1. boots' \in 0..MaxBoots
    BY <1>1, Numbers, NetworkAssumption
  <2>2. built' \in 0..Whole
    BY <1>1, WholeGadget
  <2>3. AddressesOK' /\ RoutesOK'
    BY <1>1, RoutesAtBoot DEF AddressesOK, RoutesOK
  <2> QED
    BY <1>1, <2>1, <2>2, <2>3, TasksForgotten DEF TypeOK, AddressesOK, RoutesOK
<1>3. BuildInv'
  BY <1>1 DEF BuildInv
<1>4. FlagsInv' /\ RaisedInv' /\ StartInv'
  BY <1>1 DEF FlagsInv, RaisedInv, StartInv, StartPlaces
<1>5. RequestInv'
  BY <1>1, TasksForgotten
<1> QED
  BY <1>2, <1>3, <1>4, <1>5

LEMMA AppearKeepsInv ==
    ASSUME IInv, Appear
    PROVE  IInv'
<1> USE DEF IInv
<1>1. /\ usb0' = TRUE /\ addresses' = addresses /\ up' = up
      /\ mounted' = mounted /\ built' = built /\ primary' = primary /\ route' = route
      /\ process' = process /\ tasks' = tasks
  BY DEF Appear
<1>2. Grows
  BY <1>1 DEF Grows
<1>3. TypeOK'
  BY <1>1 DEF TypeOK, process, tasks
<1> QED
  BY <1>1, <1>2, <1>3, ProcessUndisturbed, TasksUndisturbed
-----------------------------------------------------------------------------
(* The requests.                                                           *)

LEMMA ReceiveKeepsInv ==
    ASSUME IInv, NEW t \in Tasks, NEW r \in Issued, Receive(t, r)
    PROVE  IInv'
<1> USE DEF IInv
<1>1. /\ kernel' = kernel /\ process' = process
      /\ step' = [step EXCEPT ![t] = "assign"]
      /\ request' = [request EXCEPT ![t] = r]
      /\ answer' = [answer EXCEPT ![t] = "none"]
      /\ spoilt' = [spoilt EXCEPT ![t] = ~usb0]
      /\ met' = [met EXCEPT ![t] = None]
  BY DEF Receive
<1>2. /\ mounted' = mounted /\ built' = built /\ usb0' = usb0 /\ up' = up
      /\ addresses' = addresses /\ primary' = primary /\ route' = route
  BY <1>1 DEF kernel
<1>3. Grows
  BY <1>2 DEF Grows
<1>4. TypeOK'
  <2>1. pc' = pc /\ flags' = flags /\ starts' = starts /\ boots' = boots
            /\ found' = found /\ fault' = fault /\ lacked' = lacked
    BY <1>1 DEF process
  <2>2. /\ step' \in [Tasks -> {"idle", "assign", "raise", "route"}]
        /\ request' \in [Tasks -> Configure]
        /\ answer' \in [Tasks -> {"none", "configured", "failed"}]
        /\ spoilt' \in [Tasks -> BOOLEAN]
        /\ met' \in [Tasks -> Gateways \cup {None}]
    BY <1>1, NetworkAssumption DEF TypeOK
  <2> QED
    BY <1>2, <2>1, <2>2 DEF TypeOK
<1>5. RequestInv'
  <2> SUFFICES ASSUME NEW u \in Tasks
               PROVE  Fulfils(u)'
    BY DEF RequestInv
  <2>1. CASE u = t
    <3>1. step'[t] = "assign" /\ answer'[t] = "none" /\ spoilt'[t] = ~usb0
      BY <1>1 DEF TypeOK
    <3> QED
      BY <1>2, <2>1, <3>1 DEF Fulfils
  <2>2. CASE u # t
    <3>1. /\ step'[u] = step[u] /\ request'[u] = request[u]
          /\ answer'[u] = answer[u] /\ spoilt'[u] = spoilt[u]
          /\ met'[u] = met[u]
      BY <1>1, <2>2 DEF TypeOK
    <3> QED
      BY <1>3, <3>1, FulfilsStill DEF RequestInv
  <2> QED
    BY <2>1, <2>2
<1> QED
  BY <1>1, <1>2, <1>3, <1>4, <1>5, ProcessUndisturbed

\* A command of the handler ended, and what the kernel lets it answer or go
\* on with is what its request requires (handle_network_configure).
LEMMA ProceedKeepsInv ==
    ASSUME IInv, NEW t \in Tasks, step[t] # "idle",
           NEW o, NEW possible \in BOOLEAN,
           NEW next \in {"raise", "route", "configured", "failed"},
           Proceed(t, o, possible, next),
           Grows, mounted' = mounted, built' = built, usb0' = usb0,
           up' \in BOOLEAN, AddressesOK', RoutesOK',
           met' \in [Tasks -> Gateways \cup {None}],
           \A u \in Tasks : met'[u] = met[u] \/ (u = t /\ next = "configured"),
           next = "route" => request[t].gateway # None,
           ~spoilt[t] /\ ~Spurious(o, possible) =>
               /\ next # "failed" => request[t].address \in addresses'
               /\ next \in {"route", "configured"} => up'
               /\ next = "configured" => RouteStands(t)'
    PROVE  IInv'
<1> USE DEF IInv
<1>1. /\ process' = process /\ request' = request
      /\ spoilt' = [spoilt EXCEPT ![t] = @ \/ Spurious(o, possible)]
  BY DEF Proceed
<1>2. /\ next \in {"configured", "failed"} =>
             /\ step' = [step EXCEPT ![t] = "idle"]
             /\ answer' = [answer EXCEPT ![t] = next]
      /\ next \in {"raise", "route"} =>
             /\ step' = [step EXCEPT ![t] = next]
             /\ answer' = answer
  BY DEF Proceed
<1>3. TypeOK'
  <2>1. pc' = pc /\ flags' = flags /\ starts' = starts /\ boots' = boots
            /\ found' = found /\ fault' = fault /\ lacked' = lacked
    BY <1>1 DEF process
  <2>2. step' \in [Tasks -> {"idle", "assign", "raise", "route"}]
    BY <1>2 DEF TypeOK
  <2>3. answer' \in [Tasks -> {"none", "configured", "failed"}]
    BY <1>2 DEF TypeOK
  <2>4. spoilt' \in [Tasks -> BOOLEAN]
    <3>1. (spoilt[t] \/ Spurious(o, possible)) \in BOOLEAN
      OBVIOUS
    <3> QED
      BY <1>1, <3>1 DEF TypeOK
  <2> QED
    BY <1>1, <2>1, <2>2, <2>3, <2>4 DEF TypeOK, AddressesOK, RoutesOK
<1>4. RequestInv'
  <2> SUFFICES ASSUME NEW u \in Tasks
               PROVE  Fulfils(u)'
    BY DEF RequestInv
  <2>1. CASE u # t
    <3>1. /\ step'[u] = step[u] /\ request'[u] = request[u]
          /\ answer'[u] = answer[u] /\ spoilt'[u] = spoilt[u]
          /\ met'[u] = met[u]
      BY <1>1, <1>2, <2>1 DEF TypeOK
    <3> QED
      BY <3>1, FulfilsStill DEF RequestInv
  <2>2. CASE u = t
    <3>1. spoilt'[t] = (spoilt[t] \/ Spurious(o, possible))
      BY <1>1 DEF TypeOK
    <3>2. ~spoilt[t] => usb0
      BY DEF RequestInv, Fulfils
    <3>3. CASE next \in {"configured", "failed"}
      <4>1. step'[t] = "idle" /\ answer'[t] = next
        BY <1>2, <3>3 DEF TypeOK
      <4> QED
        BY <1>1, <2>2, <3>1, <3>3, <4>1 DEF Fulfils
    <3>4. CASE next \in {"raise", "route"}
      <4>1. step'[t] = next /\ answer'[t] = answer[t]
        BY <1>2, <3>4 DEF TypeOK
      <4>2. ~spoilt[t] /\ answer[t] = "configured" =>
                /\ request[t].address \in addresses' /\ up'
                /\ RouteStands(t)
        BY DEF RequestInv, Fulfils, Grows
      <4>3. RouteStands(t) => RouteStands(t)'
        <5>1. request'[t] = request[t] /\ met'[t] = met[t]
          BY <1>1, <3>4
        <5> QED
          BY <5>1, RouteStandsStill
      <4> QED
        BY <1>1, <2>2, <3>1, <3>2, <3>4, <4>1, <4>2, <4>3 DEF Fulfils
    <3> QED
      BY <3>3, <3>4
  <2> QED
    BY <2>1, <2>2
<1> QED
  BY <1>1, <1>3, <1>4, ProcessUndisturbed

LEMMA AssignKeepsInv ==
    ASSUME IInv, NEW t \in Tasks, Assign(t)
    PROVE  IInv'
<1> USE DEF IInv
<1> DEFINE a == request[t].address
           next(o) == IF o = "unspawned" THEN "failed" ELSE "raise"
<1>1. a \in Addresses
  BY DEF TypeOK, Configure
<1>2. PICK o \in Outcomes(CanAssign(a)) :
          AssignedBy(o, a) /\ Proceed(t, o, CanAssign(a), next(o))
  BY DEF Assign
<1>3. /\ step[t] = "assign"
      /\ mounted' = mounted /\ built' = built /\ usb0' = usb0 /\ up' = up
      /\ route' = route /\ met' = met
  BY DEF Assign
<1>4. /\ AddressesOK'
      /\ addresses \subseteq addresses'
      /\ usb0 /\ ~Spurious(o, CanAssign(a)) => a \in addresses'
  BY <1>1, <1>2, AddressAssigned DEF TypeOK, AddressesOK
<1>5. Grows
  BY <1>3, <1>4 DEF Grows
<1>6. CanAssign(a) \in BOOLEAN
  BY DEF CanAssign, TypeOK
<1>7. next(o) \in {"failed", "raise"}
  OBVIOUS
<1>8. ~spoilt[t] => usb0
  BY <1>3 DEF RequestInv, Fulfils
<1>9. up' \in BOOLEAN /\ RoutesOK' /\ met' \in [Tasks -> Gateways \cup {None}]
  BY <1>3 DEF TypeOK, RoutesOK
<1>10. step[t] # "idle"
  BY <1>3
<1>11. \A u \in Tasks : met'[u] = met[u]
  BY <1>3
<1> HIDE DEF next, a
<1> QED
  BY <1>2, <1>3, <1>4, <1>5, <1>6, <1>7, <1>8, <1>9, <1>10, <1>11,
     ProceedKeepsInv DEF a

LEMMA BringKeepsInv ==
    ASSUME IInv, NEW t \in Tasks, Bring(t)
    PROVE  IInv'
<1> USE DEF IInv
<1> DEFINE next(o) == IF o = "unspawned" THEN "failed" ELSE AfterRaise(t)
<1>1. PICK o \in Outcomes(CanRaise) :
          RaisedBy(o) /\ Proceed(t, o, CanRaise, next(o))
  BY DEF Bring
<1>2. /\ step[t] = "raise"
      /\ mounted' = mounted /\ built' = built /\ usb0' = usb0
      /\ addresses' = addresses /\ primary' = primary /\ route' = route
      /\ met' = met
  BY DEF Bring
<1>3. /\ up' \in BOOLEAN /\ (up => up')
      /\ usb0 /\ ~Spurious(o, CanRaise) => up'
  BY <1>1 DEF RaisedBy, Spurious, CanRaise
<1>4. AddressesOK' /\ RoutesOK' /\ met' \in [Tasks -> Gateways \cup {None}]
  BY <1>2 DEF TypeOK, AddressesOK, RoutesOK
<1>5. Grows
  BY <1>2, <1>3 DEF Grows
<1>6. CanRaise \in BOOLEAN
  BY DEF CanRaise, TypeOK
<1>7. /\ next(o) \in {"failed", "route", "configured"}
      /\ next(o) = "configured" => request[t].gateway = None
      /\ next(o) = "route" => request[t].gateway # None
  BY DEF AfterRaise
<1>8. ~spoilt[t] => usb0 /\ request[t].address \in addresses'
  BY <1>2, <1>5 DEF RequestInv, Fulfils, Grows
<1>9. step[t] # "idle"
  BY <1>2
<1>10. request[t].gateway = None => RouteStands(t)'
  <2>1. request' = request
    BY <1>1 DEF Proceed
  <2> QED
    BY <2>1 DEF RouteStands
<1>11. \A u \in Tasks : met'[u] = met[u]
  BY <1>2
<1> HIDE DEF next
<1> QED
  BY <1>1, <1>2, <1>3, <1>4, <1>5, <1>6, <1>7, <1>8, <1>9, <1>10, <1>11,
     ProceedKeepsInv

\* ip route add: what the request's own command met is what stays.
LEMMA RouteKeepsInv ==
    ASSUME IInv, NEW t \in Tasks, Route(t)
    PROVE  IInv'
<1> USE DEF IInv
<1> DEFINE g == request[t].gateway
<1>1. /\ step[t] = "route"
      /\ mounted' = mounted /\ built' = built /\ usb0' = usb0
      /\ addresses' = addresses /\ primary' = primary /\ up' = up
      /\ met' = [met EXCEPT ![t] = route[FamilyOf(g)]]
  BY DEF Route
<1>2. PICK o \in Outcomes(CanRoute(g)) :
          RoutedBy(o, g) /\ Proceed(t, o, CanRoute(g), "configured")
  BY DEF Route
<1>3. g \in Gateways
  BY <1>1 DEF RequestInv, Fulfils, TypeOK, Configure
<1>4. /\ RoutesOK'
      /\ \A f \in Families : route[f] # None => route'[f] = route[f]
      /\ Reachable(g) /\ ~Spurious(o, CanRoute(g)) =>
             route'[FamilyOf(g)] = IF route[FamilyOf(g)] = None
                                   THEN g ELSE route[FamilyOf(g)]
  BY <1>2, <1>3, RouteAdded DEF TypeOK, RoutesOK
<1>5. Grows
  BY <1>1, <1>4 DEF Grows
<1>6. AddressesOK' /\ up' \in BOOLEAN
  BY <1>1 DEF TypeOK, AddressesOK
<1>7. FamilyOf(g) \in Families
  BY DEF FamilyOf, Families
<1>8. met' \in [Tasks -> Gateways \cup {None}]
  BY <1>1, <1>7 DEF TypeOK
<1>9. /\ met'[t] = route[FamilyOf(g)]
      /\ \A u \in Tasks : met'[u] = met[u] \/ u = t
  BY <1>1 DEF TypeOK
<1>10. ~spoilt[t] => up /\ request[t].address \in addresses'
  BY <1>1, <1>5 DEF RequestInv, Fulfils, Grows
<1>11. ~spoilt[t] /\ ~Spurious(o, CanRoute(g)) => RouteStands(t)'
  <2> SUFFICES ASSUME ~spoilt[t], ~Spurious(o, CanRoute(g)),
                      <<request[t].address, g>> \in OnLink
               PROVE  route'[FamilyOf(g)] = IF met'[t] = None THEN g ELSE met'[t]
    <3>1. request' = request
      BY <1>2 DEF Proceed
    <3> QED
      BY <3>1 DEF RouteStands, FamilyOf
  <2>1. Reachable(g)
    BY <1>1, <1>10 DEF Reachable
  <2> QED
    BY <1>4, <1>9, <2>1
<1>12. CanRoute(g) \in BOOLEAN
  BY DEF CanRoute
<1>13. step[t] # "idle"
  BY <1>1
<1> HIDE DEF g
<1> QED
  BY <1>1, <1>2, <1>4, <1>5, <1>6, <1>8, <1>9, <1>10, <1>11, <1>12, <1>13,
     ProceedKeepsInv

-----------------------------------------------------------------------------
(* The theorems.                                                           *)

LEMMA InitInv == Init => IInv
<1> SUFFICES ASSUME Init
             PROVE  IInv
  OBVIOUS
<1>1. TypeOK
  <2>1. AddressesOK /\ RoutesOK
    BY RoutesAtBoot DEF Init, AddressesOK, RoutesOK
  <2>2. 0 \in 0..Whole /\ 0 \in 0..MaxStarts /\ 0 \in 0..MaxBoots
    BY WholeGadget, NetworkAssumption
  <2>3. NoRequest \in Configure
    BY NetworkAssumption DEF NoRequest, Configure, Addresses
  <2>4. request \in [Tasks -> Configure]
    BY <2>3 DEF Init
  <2> QED
    BY <2>1, <2>2, <2>4 DEF Init, TypeOK, AddressesOK, RoutesOK
<1>2. BuildInv /\ FlagsInv /\ RaisedInv /\ StartInv
  BY DEF Init, BuildInv, FlagsInv, RaisedInv, StartInv, StartPlaces
<1>3. RequestInv
  BY DEF Init, RequestInv, Fulfils
<1> QED
  BY <1>1, <1>2, <1>3 DEF IInv

LEMMA StepKeepsInv == IInv /\ [Next]_vars => IInv'
<1> SUFFICES ASSUME IInv, [Next]_vars
             PROVE  IInv'
  OBVIOUS
<1>1. ASSUME NEW f \in Invocations, Start(f)
      PROVE  IInv'
  BY <1>1, StartKeepsInv
<1>2. CASE Startup
  BY <1>2, SetupKeepsInv, AssignOwnKeepsInv, RaiseKeepsInv, ListenKeepsInv
     DEF Startup
<1>3. CASE Kill \/ Reboot \/ Appear
  BY <1>3, KillKeepsInv, RebootKeepsInv, AppearKeepsInv
<1>4. ASSUME NEW t \in Tasks,
             (\E r \in Issued : Receive(t, r)) \/ Assign(t) \/ Bring(t) \/ Route(t)
      PROVE  IInv'
  BY <1>4, ReceiveKeepsInv, AssignKeepsInv, BringKeepsInv, RouteKeepsInv
<1>5. CASE UNCHANGED vars
  <2>1. /\ process' = process /\ tasks' = tasks
        /\ mounted' = mounted /\ built' = built /\ usb0' = usb0 /\ up' = up
        /\ addresses' = addresses /\ primary' = primary /\ route' = route
    BY <1>5 DEF vars, kernel
  <2>2. Grows
    BY <2>1 DEF Grows
  <2>3. TypeOK'
    BY <2>1 DEF IInv, TypeOK, process, tasks
  <2> QED
    BY <2>1, <2>2, <2>3, ProcessUndisturbed, TasksUndisturbed DEF IInv
<1> QED
  BY <1>1, <1>2, <1>3, <1>4, <1>5 DEF Next

\* Types are kept, for any clients, addresses and command lines; no gadget is
\* built beyond its parts (src/protocol/transport.rs, src/bin/remote.rs).
THEOREM TypeCorrect == Spec => []TypeOK
<1>1. IInv => TypeOK
  BY DEF IInv
<1> QED
  BY <1>1, InitInv, StepKeepsInv, PTL DEF Spec

\* A remote that was told to set the gadget up serves only on an interface
\* that is up with its own address (setup_usb_gadget, bind_usb_gadget).
THEOREM ServesConfigured == Spec => []ServingConfigured
<1>1. IInv => ServingConfigured
  BY DEF IInv, RaisedInv, ServingConfigured
<1> QED
  BY <1>1, InitInv, StepKeepsInv, PTL DEF Spec

\* A start with --setup-gadget gives up only if something failed in it, or it
\* found a gadget left in part, or a whole one whose interface was not there
\* yet when it needed it (main, setup_usb_gadget_device, setup_usb_gadget).
THEOREM GivesUpForAReason == Spec => []StartExplained
<1>1. IInv => StartExplained
  BY DEF IInv, TypeOK, StartInv, Sound, StartExplained
<1> QED
  BY <1>1, InitInv, StepKeepsInv, PTL DEF Spec

\* Unless a command of the request failed for no reason in the kernel,
\* "configured" is true of the address and the interface, and the default route
\* is the request's or the other one its command met, of any number of clients
\* that ask for any gateways at once (handle_network_configure).
THEOREM ConfiguredIsTrue == Spec => []ConfiguredHolds
<1>1. IInv => ConfiguredHolds
  BY DEF IInv, RequestInv, Fulfils, ConfiguredHolds
<1> QED
  BY <1>1, InitInv, StepKeepsInv, PTL DEF Spec

\* No step but a reboot takes the first IPv4 address away.
LEMMA PrimaryKept ==
    ASSUME TypeOK, Next, boots' = boots, primary # None
    PROVE  primary' = primary
<1>1. CASE AssignOwn
  BY <1>1 DEF AssignOwn, AssignedBy
<1>2. ASSUME NEW t \in Tasks, Assign(t)
      PROVE  primary' = primary
  BY <1>2 DEF Assign, AssignedBy
<1>3. ~Reboot
  <2>1. boots \in Nat
    BY Numbers, NetworkAssumption
  <2> QED
    BY <2>1 DEF Reboot
<1>4. CASE (\E f \in Invocations : Start(f)) \/ Mount \/ Build \/ BuildFails
               \/ Await \/ Raise \/ Listen \/ Kill \/ Appear
  BY <1>4 DEF Start, Mount, Build, BuildFails, Await, Raise, Listen, Kill,
              Appear, kernel
<1>5. ASSUME NEW t \in Tasks,
             (\E r \in Issued : Receive(t, r)) \/ Bring(t) \/ Route(t)
      PROVE  primary' = primary
  BY <1>5 DEF Receive, Bring, Route, kernel
<1> QED
  BY <1>1, <1>2, <1>3, <1>4, <1>5 DEF Next, Startup

\* The report is an IPv4 address if there is one, and then the first.
LEMMA ReportsPrimary ==
    ASSUME NEW a \in Inet, Reports = {a}
    PROVE  primary = a
<1>1. CASE primary # None
  BY <1>1 DEF Reports
<1>2. CASE primary = None
  <2>1. a \in Shown6 \cup {None}
    BY <1>2 DEF Reports
  <2> QED
    BY <2>1, NetworkAssumption DEF Shown6
<1> QED
  BY <1>1, <1>2

\* An IPv4 address once reported of the interface stays the report while others
\* of either family are added, until a reboot (handle_network_status,
\* parse_ip_from_output).
THEOREM ReportStays == Spec => ReportKept
<1>1. IInv /\ [Next]_vars =>
          [boots' = boots => \A a \in Inet : Reports = {a} => Reports' = {a}]_vars
  <2> SUFFICES ASSUME IInv, Next, boots' = boots, NEW a \in Inet, Reports = {a}
               PROVE  Reports' = {a}
    OBVIOUS
  <2>1. primary = a /\ primary # None
    BY ReportsPrimary, NetworkAssumption
  <2>2. primary' = a
    BY <2>1, PrimaryKept DEF IInv
  <2> QED
    BY <2>1, <2>2 DEF Reports
<1> QED
  BY <1>1, InitInv, StepKeepsInv, PTL DEF Spec, ReportKept
===============================================================================
