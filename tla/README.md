# TLA+ models of tstctl

tstctl is a test-control system in Rust: a *master* program sends requests over a
framed JSON connection to a *remote* program on a device under test, which keeps
a registry of tests and manages the ports of USB hubs through the external tool
`uhubctl`. This directory holds its models (TLA+), the configurations that check
them on small instances (TLC), and proofs about them for every value of the
constants (TLAPS).

## 1. The system

| Part (source) | State it keeps | Operations | Interacts with |
|---|---|---|---|
| USB hub manager (`src/src/usb_hub/manager.rs`, `types.rs`) | `hubs`: a map from hub id to hub record (location, ports, cached power, reservation), behind one `RwLock` | discover, list, refresh, reserve, release, power on/off, reserve-and-power-on, power-off-and-release, cleanup | the handlers call it; it runs `uhubctl` with no lock held |
| uhubctl wrapper (`usb_hub/uhubctl.rs`) | none | list, status, set power, `--version`; parses the tool's text | blocking subprocess; the USB hardware |
| Request handlers (`src/src/bin/remote.rs`) | `RemoteState` (role, tests, counter) behind a `RwLock` | one handler per method; one task per connection, one request at a time | manager, test registry, OS network tools |
| Test registry (in `remote.rs`) | `tests`, `test_counter` | start, abort, cancel, results, status | handlers only; tests are recorded, never run |
| Framing (`src/src/protocol/framing.rs`) | a position in a byte stream | read, write a length-prefixed message | both programs |
| Master session (`src/src/bin/master.rs`) | the connection and its buffered reader | send a request, wait for its answer with a timeout, print events; an interactive loop reuses the connection | framing, remote |
| Locks and worker threads (`remote.rs`, `manager.rs`) | who holds and who waits for the state's lock and the hubs' lock | taking and leaving them, blocking commands in between | every handler |
| Transport, gadget setup and start-up (`src/src/protocol/transport.rs`, `main` of `remote.rs`) | in the kernel: configfs directories, the interface `usb0` | set the USB gadget up, configure it, bind, accept; connect | the kernel |
| Network handlers (in `remote.rs`) | in the kernel: the interface's addresses and routes | configure, status | `ip` |

What is hard in it:

* **Interleaving.** A hub request is two to five short lock sections with runs of
  `uhubctl` between them; requests of different connections interleave there.
  State read before a run (a location, a listing) is used after it.
* **Composition of operations.** reserve-and-power-on and power-off-and-release
  are sequences called "atomic" in their comments, with a rollback for one of them.
* **Time.** Reservations lapse by the clock, with nobody acting on it.
* **A second truth.** The registry is keyed by hub id, the hardware is addressed
  by location, and the two are brought together only by a discovery or refresh.
* **Timeouts and reuse of a connection** in the master; **restarts** of the remote.
* **Two locks, nested.** Handlers hold tokio's fair lock on the state while they wait
  for the one on the hubs and while a command blocks their worker thread.
* **Half-done sequences.** Setting the gadget up is a dozen file writes and commands;
  what they leave in the kernel outlives the process and meets its next start.

What makes each part correct:

* Hub manager: reservations are leases (one holder at a time, ended only by the
  holder's role, its deadline or a rediscovery); a failed reserve-and-power-on
  leaves nothing behind; nothing stale is revived; exclusive means exclusive on
  the physical port; the cached power is the hardware's when nothing is in flight.
* Handlers: every request gets one answer; no request waits for ever; interleaved,
  they do to the registry what they would do one after another.
* Test registry: ids never name two tests; a test that ended stays as it ended.
* Framing and master session: an answer is matched to its request; after a
  timeout the session still reads whole messages.
* Start-up: whatever earlier starts left, a remote that serves is configured, and
  one that gives up had something fail in this start, met a gadget left in part, or
  one whose interface was still to come. Network requests: "configured" is true of
  the address and the interface, unless a command failed, and of the route, unless
  another default route was there.
* Parser: each hub that uhubctl printed is found, with its own ports.

Everything in the code that a test would hardly reach is listed, with its line
and the properties that cover it, under `hazards` in `PROJECT.json`.

## 2. Modules

| Module | What it is |
|---|---|
| `PortLease` | abstract: what the reservations promise |
| `HubManager` | the hub manager under its handlers, with the properties |
| `HubManagerProofs` | the theorems about it and their proofs |
| `MCHubManager` | its small instances, one `.cfg` per run |
| `RequestReply` | abstract: what a session promises the operator |
| `TestRegistry` | the remote's role and tests, and the handlers on them |
| `ControlSession` | masters, connections and the remote's connection tasks, around `TestRegistry` (which it extends), with the properties |
| `ControlSessionProofs` | theorems about its types, its refinement and its tests, and their proofs |
| `FramingProofs`, `FreshnessProofs` | theorems about its byte streams, and about what operators are told |
| `MCControlSession` | its small instances |
| `TestRegistryProofs` | what its handlers keep, used by the proofs of the modules that extend it |
| `RemoteLocks` | the handlers as sequences of lock sections and commands on worker threads, around `TestRegistry` (which it extends) |
| `RemoteLocksProofs` | the theorems about it and their proofs |
| `RemoteNetwork` | start-up, gadget, interface, and the network requests |
| `RemoteNetworkProofs` | the theorems about it and their proofs |
| `UhubctlParser` | `parse_hub_list` line by line, and the sections of the text as its reference |
| `UhubctlParserProofs` | the theorems about it and their proofs |
| `MCRemoteLocks`, `MCRemoteNetwork`, `MCUhubctlParser` | their small instances |

### HubManager

**State.** `hubs` is `UsbHubManager.hubs`: for every id a hub record or `None`; a
record's `ports` maps every port number a request may name to the port or `None`.
`bus` and `power` are the hardware: which hub is plugged in at each location, and
whether each port is powered. For every task (connection) `pc` is the step it is
at, `req` the request, `loc` the location and `found` the listing it holds in local
variables, `result` the outcome. `now` is the clock. A reservation's `holder` (the
task that made it) is not in the code; no step depends on it, and properties use
it to say whose reservation was removed.

**Steps.** One action per lock section and per run of `uhubctl`:

| Operation | Steps |
|---|---|
| `hub_discover` | `List` (uhubctl) → `Insert` (write lock) |
| `hub_status` | `Lookup` (read lock) → `Query` (uhubctl) → `Merge` (write lock) |
| `hub_port_power_on/off` | `Lookup` → `Command` (uhubctl) → `Update` (write lock) |
| `hub_port_reserve` | `ReserveRefused` / `ReserveGranted` (write lock), and with `power_on`: → `Lookup` → `Command` → `Update`, or `Rollback` |
| `hub_port_release` | with `power_off`: `Lookup` → `Command` → `Update` →; then `Release` |
| `cleanup_expired_reservations` | `CleanupExpired` |

`Begin` and `Reply` are `handle_connection` reading a request and writing its
answer. `Tick` and `Replug` are the environment. Within a lock section nothing
else runs, which is why a section is one action; the shared guard on
`RemoteState` does not exclude the handlers from one another and is the subject of
`RemoteLocks`.

**Abstractions.** Ids, locations and roles are model values; a listing is a set
of records (uhubctl's order is any; of several with one id the last inserted
wins, so the winner is any). `--version` and the listing are one step, since the
manager does nothing in between. Error codes are the names of the codes.
`hub_list` and `get_reserved_ports` only read. Parameters that fail to decode end
in an error before anything happens, and are left out.

**Assumed of uhubctl and the clock** (code outside the repository): a run may
fail at any time; a run that fails has switched nothing; a command for a port the
hub does not have may succeed without effect; with nothing plugged in at the
location it fails. The clock does not go backwards.

### PortLease

The same reservations without registry, hardware or requests in flight:
`Acquire`, `Release`, `Lapse`, `Forget`, `Tick`. `Forget` (a hub's leases vanish)
is what a rediscovery does; it is in the abstract specification because the code
does it, and the run `rediscover` records that it contradicts the guide.

### TestRegistry

`role`, `test_counter` and `tests` are `RemoteState`'s fields, the id `test-<n>`
being `n`; `restarts` counts the runs of the process. `Execute(r)` is the step of
the handler of request `r` (one section of the state's lock), `Answer(r)` what it
sends back: `Start`, `Abort` (also for a cancel, which calls it), `SetRole`, and
the methods that only read. Times and texts are left out, except whether the end
time is set and what reason an abort gave, which is what an overwritten record
can be told by. `ControlSession` says which requests come and when. `RegistrySpec` is the
registry with its requests handled one after another, which `RemoteLocks` implements.

### ControlSession

**State.** A session is one run of the master with its one connection. `calls` are
the commands it has written, `outcome` how each of them that is over ended (an
answer, or `timeout`, `broken`: a malformed frame, `lost`: the connection), `done`
the answers the remote has given. `wire` holds the bytes of answers not yet read,
`taken` and `want` the state of the `read_message` in progress: the bytes it has
taken and the length it has read (0 before that). `handler` is the task of
`handle_connection`. `told` and `asOf` are histories for `FreshAnswers`; no step
depends on them.

| Action | Code |
|---|---|
| `Connect`, `Quit` | `main` and `accept`; `quit`, the end of a single command, or a kill at any time |
| `Issue` | a command at the prompt: `write_message` |
| `ReadByte`, `ReadLength`, `ReadMessage` | `read_message` one byte on: more to come, the prefix complete, the payload complete (and then the match on the id) |
| `Timeout` | `tokio::time::timeout` drops the read: `taken` is lost, `wire` is not |
| `ReadLost` | the connection's other end is gone |
| `Handle`, `Respond`, `Close` | the loop of `handle_connection` |
| `RemoteRestart` | the remote's process ends: registry empty, all tasks gone |

**The two directions differ.** Nothing interrupts the remote's reads, so requests
arrive whole and in order, and those on their way are simply `calls` beyond `done`.
The master's reads are dropped by the timeout wherever they are, so answers are
bytes. A byte is tagged with the message it is of and its place in the frame.
What four bytes read as is `LengthsRead`: the length, if they are a prefix; too
large, if the first is a byte of JSON (all are above 0x1F, so the number exceeds
16 MB); anything, if they begin inside a prefix. A payload decodes only if it is
a whole one.

**Abstractions.** The id of a request is its place in its session (the code's is a
UUID). Writing an answer is one step, reading it is byte by byte. When the remote
is gone the unread bytes may still be read before the error, or are lost. The
commands are those about role and tests; the hub's handlers are `HubManager`'s.

### RequestReply

The operator's view: commands are executed in order and at most once, possibly
after they were given up; a command ends with its own execution's answer or is
given up.

### RemoteLocks

**State.** For each connection's task, `place` is where it is (reading the socket,
ready, running on a worker thread, waiting for a lock) and `todo` the steps left of
its handler. `held` are the guards of the two locks, `queue` the tasks waiting for
each. `Program(r)` is the handler of request `r` as a sequence of steps: taking a lock,
leaving a section, running a command, acting on the registry. Hub handlers take the
state's lock for reading first and give it up when they return (`Respond`).

| Action | Code |
|---|---|
| `Receive` | `handle_connection` has read a request |
| `Schedule` | tokio gives a ready task a worker; there are `Workers` |
| `Acquire` | `read().await`, `write().await`: at once past an empty queue, else at its end, giving the worker back |
| `LeaveSection` | a guard of the manager goes out of scope; or the function returns early with `?` |
| `CommandReturns` | `uhubctl` or `ip` returns; until then the worker is kept |
| `PerformRequest`, `NumberTest`, `RecordTest` | the handlers' effects; `handle_test_start` is two, as in the code |
| `Respond` | the handler ends and drops its guard |

**Abstractions.** What a section does to the hubs is `HubManager`'s; here a section
that may return early does so freely (`fail`). A panic (a huge duration, a far
deadline) unwinds and drops the same guards in the same order as an early return, and
is modelled as one. The connection's end after a panic is a task that reads again: another
connection. tokio's lock and scheduler are external, modelled by what their documentation promises
(first come first served; a writer's wait holds back later readers).

### RemoteNetwork

**State.** `mounted`, `built` (how many of the gadget's `Parts` exist), `usb0`, `up`,
`addresses`, `primary` (the IPv4 address it was given first) and `route` (for each of the
two families the gateway of the default route) are the kernel's and outlive the process.
`pc` is where the remote's process is and `flags` its command line; each connection's
task has the `step` of its `network_configure` and its `request`: an address and perhaps
a gateway, each of either family. `found`, `fault`, `lacked`, `spoilt` and `met` are
histories the properties use; no step depends on them. `lacked` says that a command of
this start met no interface, `met` which default route the route command of a request met.

| Action | Code |
|---|---|
| `Start`, `Kill`, `Reboot` | `main`; the end of the process anywhere; the end of the kernel's state |
| `Mount`, `Build`, `BuildFails`, `Await` | `setup_usb_gadget_device`: configfs, the check for an earlier gadget, each part, the wait for `usb0` |
| `AssignOwn`, `Raise` | `setup_usb_gadget`: `ip addr add`, `ip link set up` |
| `Listen` | `bind_usb_gadget`, `bind_tcp` |
| `Receive`, `Assign`, `Bring`, `Route` | `handle_network_configure`, command by command |
| `Reports` | the addresses `handle_network_status` may report: of the first line with `inet ` or `inet6 ` |
| `Appear` | the kernel makes `usb0` some time after the gadget is enabled |

**Assumed of the commands** (code outside the repository): each may fail or be impossible
to run at any time; one that fails changes nothing. An address that is there is not added
again. A default route is added if its family has none, by whatever gateway, and the
gateway is on the link of an address of the raised interface (`OnLink`) or of another
interface (`Elsewhere`). `ip addr show` lists IPv4 addresses before IPv6 ones and the IPv4
address that was given first first; the order of the IPv6 ones, and when the interface's
own (`LinkLocal`) joins them, is the kernel's choice. The addresses are none of 127/8,
which the kernel would list before others. A device may boot with default routes by
another interface; afterwards nobody but the remote configures it.

The five seconds of the wait for `usb0` are any time, since the interface may appear at
any moment. Requests are for `usb0`, and a prefix length belongs to its address (two
lengths for one address would be two addresses to `ip`). The netmask, the MAC address and
the carrier of the answer to `network_status` are left out.

### UhubctlParser

A line is a header, a port line or another, with what parses of it or `None`;
reading one is an action. The reference is a function of the whole text and has no
state: the headers are a set of positions, the section of one is the positions up to the
next, and a set of positions becomes a sequence by counting (`InOrder`, `PortsAt`, `HubAt`,
`Readable`). How a line is cut up into location, ids and number is left out.

Definitions marked `\* a mutant` are wrong versions of the definition after them,
used by nothing; putting one in place of its original must make a run fail, which
shows the run's property depends on that code.

## 3. Runs

| Run (cfg) | Bounds | Shows |
|---|---|---|
| `lease` (`MCHubLease`) | 2 connections, 1 hub with 1 port, 2 roles, leases of 1 tick or without deadline, clock to 2 | `NoLeakedGrant`, `NoResurrection`, `EndedByOwnRole`, `ImplementsLeases` |
| `hotplug` (`MCHubHotplug`) | 2 connections, all operations, 2 hubs with different ports at 1 location, 1 replug, leases of 0 ticks, clock to 1 | `TypeOK`, and the first two properties with the bus changing |
| `coherent` (`MCHubCoherent`) | 1 connection, all operations, 3 hubs with 1 and 2 ports, two of them with one id | `CoherentAtRest` for a single client, `PhysicalExclusive` |
| `session` (`MCSession`) | 1 session of 3 commands (start, set_role, get_info), prefix of 2 bytes, payloads of 1 or 2, junk lengths 1 and 3, 1 restart, with fairness | `TypeOK`, `BrokenOnlyAfterTimeout`, `ImplementsRequestReply`, `CommandEnds`, `RequestsServed` |
| `shared` (`MCSessionShared`) | 2 sessions of 2 commands (start, results, abort), 2 tests, 1 restart | `FreshAnswers`, `NoTestReborn` |
| `locks` (`MCRemoteLocks`) | 3 connections, 2 workers, 2 tests, 5 kinds of request, with fairness | `TypeOK`, `NoCircularWait`, `ImplementsRegistry`, `EveryRequestEnds` |
| `network` (`MCRemoteNetwork`) | 2 clients, 2 IPv4 addresses and 1 IPv6, 2 gateways (one on another interface's link), 3 starts with any of 4 documented command lines, 1 reboot, with fairness | `TypeOK`, `ServingConfigured`, `StartExplained`, `ConfiguredHolds`, `ReportKept`, `StartEnds` |
| `parser` (`MCUhubctlParser`) | every output of up to 6 lines, 2 hubs, 1 port number | `TypeOK`, `SectionsKept`, `OwnPortsKept`, `EveryPortOnce` |
| `rediscover`, `poweroff`, `desync`, `quicktest` | the smallest instance of each | the disagreements below |

Two connections suffice for every pairwise interleaving of two requests' steps;
a lease of 1 tick with the clock reaching 2 passes through before, at and after
the deadline, and a second lease can start after the first lapsed. One port is
enough for the properties per port; in `coherent` a port number one hub lacks
exercises the `PortNotFound` paths. The two connections are interchangeable, so the runs
with two use symmetry over `Tasks` (safety properties only).

A prefix of two bytes instead of four is cut in every way that matters: before,
inside and after it. Three commands are one whose read is dropped, one that meets
what is left, one after that; in `shared` the four commands include a start, its
abort and a later question or start, of different sessions. Deadlock is not
checked in the session runs, nor in `network` and `parser`: sessions,
the bounded starts and outputs end.

Three tasks on two workers in `locks` are a reader that holds the state and the hubs' lock
or a worker, a writer queued behind it and a third behind the writer; two commands in
progress leave no worker. Of its requests one writes the state, one only reads
it (through another's handler), one runs a command under no lock, two nest the locks around a
command that may fail, one of them with the rollback. Three starts in `network` are
one that is cut off or fails, one that finds what it left and may fail in turn,
and one after that or after the reboot. Its two clients can ask for different
gateways at once, and the second gateway may be the default route the device booted
with; later starts serve on the addresses and routes the first one's clients left. The
IPv6 address is asked for without a gateway (the definitions, and the theorems, allow
one of either family with any address). Six lines of the
parser's input are three sections with ports, or ports before, after and between
unreadable headers.

**Fairness of `session`:** weak fairness of `Timeout` (tokio's timer fires,
and the read it bounds can always be dropped), and of `Handle`, `Respond` and
`Close` (a task that is ready runs; the handlers modelled here neither block nor
wait for anything but the state's lock). None is assumed of the operator, of the
network or of the master's reads: `CommandEnds` rests on the timer alone.

**Of `locks`:** weak fairness of a running task's next step, since nothing but a command
can hold it up, and strong fairness of `Schedule`, since tokio serves its queues in
turn and does not pass over a ready task for ever. That commands return is not assumed
but a premise of `EveryRequestEnds`: the code puts no limit on them, and with one that
hangs the model promises nothing (tokio gives no guarantee while a worker is blocked).

**Of `network`:** weak fairness of the start-up's next step: each is a file operation, a command
that sets an address or a flag, or a loop that ends by the clock. Nothing is
assumed of the kernel's making `usb0`.

Properties:

* `NoLeakedGrant`: a reserve-and-power-on whose power-on failed answers with no
  reservation of its own left, whatever happened to the port meanwhile.
* `NoResurrection`: a reservation appears only at a grant; no refresh brings back
  one that was released, lapsed or wiped while it was talking to uhubctl.
* `ImplementsLeases`: every step of every interleaving is one lease action or
  none (the refinement of `PortLease`).
* `EndedByOwnRole`: what the leases leave open, whose step ends one. A live reservation
  goes only by a release or rollback of its role for that port, or by a discovery that
  lists its hub; no refresh loses one that was made while it was talking to uhubctl.
* `PhysicalExclusive`: two live reservations are never for one physical port,
  while the bus stays as it is.
* `CoherentAtRest`: with no request in flight, cached power is actual power.
* `ImplementsRequestReply`: whatever bytes a reader wakes up to, an answer shown
  for a command is that command's, and no command is executed twice.
* `BrokenOnlyAfterTimeout`: a malformed frame is met only in a session where an
  earlier command timed out.
* `FreshAnswers`: over all sessions, an answer about a test is no older than what
  any operator had been told of it when asking.
* `NoTestReborn`: until a restart a test's number is not given out again, and an
  ended test does not run again. After a restart it is: a master that remembers
  `test-1` then speaks of another test. The repository promises nothing there.
* `CommandEnds`, `RequestsServed`: the prompt comes back; a request that reached
  the remote is executed, also when the master has given it up (so an operator who
  repeats a start that timed out has started two tests).
* `NoCircularWait`: no set of tasks wait only for one another, however the locks are nested
  and whoever is queued between a task's guard and the next one it asks for.
* `ImplementsRegistry`: the handlers interleaved step by step are `TestRegistry`'s requests one
  after another (a test that has its number but no record yet has not been started).
* `EveryRequestEnds`: if the commands return, every request is answered or its connection ends.
* `ServingConfigured`: a remote told to set the gadget up serves only with the interface
  up and its own address on it; in particular never on half a gadget.
* `StartExplained`: a start with `--setup-gadget` gives up for one of three reasons:
  something failed in this very start or `usb0` did not come while it waited; an earlier
  start left the gadget in part; or an earlier start had enabled the gadget, `usb0` was
  not there yet, and a command for it came too early, since only the start that enables
  the gadget waits. Nothing else that earlier starts and clients did is in its way.
* `ConfiguredHolds`: after "configured" the address is there and the interface is up, however
  requests interleave, unless a command of the request failed for no reason in the kernel's
  state or there was no interface. The default route is by the request's gateway, or by
  the other one that its own command met: the first stays, and the client is not told.
* `ReportKept`: an IPv4 address that `network_status` reports stays the report until a
  reboot. It is not claimed of an IPv6 address, which any IPv4 address displaces.
* `StartEnds`: a start ends in serving, giving up or being killed.
* `SectionsKept`: of an output with readable headers, the parser makes exactly its sections.
* `OwnPortsKept`, `EveryPortOnce`: of any output, no port is lost to another hub or counted
  twice. They permit what the code does with the ports after an unreadable header: they go
  to the next hub, in front of its own.

### Where the code disagrees with its own text

| Run | What happens | Text |
|---|---|---|
| `rediscover` | any client's `hub_discover` replaces the hub records and so ends every live reservation | `USB_HUB_GUIDE.md:10` "Reserve ports for exclusive access" |
| `poweroff` | power is cut before the owner is checked, so a refused release has switched off another role's port | `manager.rs:240` "(atomic operation)" |
| `desync` | a timeout in the middle of an answer drops the bytes already read; the next command of the session takes the rest for a length and fails, though the remote has executed it | `README.md:131` "All messages use length-prefixed framing" |
| `quicktest` | beside `--tcp`, `--setup-gadget` does nothing, so on a device that has just booted the address to listen on does not exist and the remote exits | `USB_GADGET_SETUP.md:334` `testctl-remote --setup-gadget --tcp --tcp-addr 192.168.100.2:9999` |

Seen while modelling, without a run of their own:

* The rollback of reserve-and-power-on releases by role (`manager.rs:233`): if its own
  reservation has lapsed or been wiped during the power-on, and the same role reserved
  the port again, it removes that one. `NoLeakedGrant` says only that nothing stays.
* With two clients, a refresh that read the hardware before another's power command
  overwrites the newer cached state (`manager.rs:105`), and two power commands may
  update it in the opposite order of their runs. `CoherentAtRest` is therefore claimed of one client.
* Nothing calls `cleanup_expired_reservations` (`manager.rs:256`), and `hub_list` reports deadlines
  as "now" minus their seconds since the epoch (`remote.rs:585`).
* A start killed while it makes the gadget leaves a directory, which the next one takes
  for a finished gadget ("USB gadget already configured", `transport.rs:199`): it skips the
  making and the wait for `usb0`, and gives up at `ip`. From a gadget left in part no start
  recovers before a reboot; from one that only waited for `usb0` the next start does, if
  `usb0` has come by then. `StartExplained` names both cases.
* A command of `network_configure` that fails with a non-zero status is answered with
  "configured" all the same (`remote.rs:440`, `:453`, `:467`): only one that cannot be run
  is an error. `ConfiguredHolds` is about the requests none of whose commands failed of itself.
* A start that fails to find `usb0` within five seconds goes on, and fails at `ip`.
* A gateway is refused by the kernel, and not set, when the device has another default
  route; the answer is "configured" (`remote.rs:462`). Of two clients who ask for
  different gateways, the later one is told the same as the first.
* An IPv6 address that `network_status` reported is no longer reported once there is an
  IPv4 address (`remote.rs:529`).
* Two hubs of one model have one id, so discovery keeps one of them
  (`uhubctl.rs:143`; a listing in the model has them both, and the winner is any).
* After hubs are replugged, the status of one may be answered with the other's
  record until a rediscovery (`manager.rs:105`).
* A cancelled test gets the status Aborted (`remote.rs:365`), and an abort of a test
  that has ended overwrites its reason and end time (`remote.rs:335`).

## 4. Proofs

### `HubManagerProofs`

Assumptions: the named `ASSUME`s of `HubManager` (types of the constants; `None`
is none of the values it stands beside). No bound is used: the theorems hold for
any number of connections, hubs, ports, any clock and any number of replugs,
except that the last four theorems assume an unchanging bus (`MaxReplugs = 0`) and the
last one a single connection.

1. `TypeCorrect` (`TypeOK`). `TypeOK` alone is not inductive: a step uses fields
   of `req[t]` that only some requests have. `RequestInv` says that a task is at a
   step of the request it handles and knows a location when it runs uhubctl there.
2. `NeverResurrected` (`NoResurrection`). Needs `FoundFresh`: what uhubctl reports
   carries no reservation. One lemma per update of the registry says what it does
   to the reservations (`WithReservationSlots`, `InsertSlots`, `MergeSlots`, ...);
   `TaskSlots` combines them.
3. `NothingLeaked` (`NoLeakedGrant`). The rollback releases by role, so it must be
   known that a reservation of its own still carries its role: `GrantByRole`, kept
   because only a task's own grant makes it a holder. If the release is refused,
   the reservation is another task's.
4. `ExclusiveOnHardware` (`PhysicalExclusive`). `Located`: registry, listings and
   copied locations describe the hubs they name. It needs `refresh_hub` to find
   the record by location.
5. `LeasesImplemented` (`ImplementsLeases`): the initial states map to initial
   states, each action to one lease action or a stutter. `Merge` is a `Lapse`
   because, by `Located`, the fresh record has every port of the old one (`MergeKeepsLive`).
6. `EndsByOwnRole` (`EndedByOwnRole`). `PortLease` has no requests, so a lease it sees
   released may have been lost by anyone's step; this is the theorem that no one else's
   step does it. It rests on the same lemmas.
7. `PowerCoherent` (`CoherentAtRest`), for a single connection: with more, the property
   does not hold of the code (section 3). At rest says nothing of the steps between, so
   `PowerInv` follows the hardware through them: `Shown` (the registry's power is the
   hardware's except for the port a command has switched and not yet recorded),
   `Addressed` (a command goes where the registry has its hub), `Switched` (the port then
   is as the request asks) and `Listed` (a listing not yet inserted or merged is still
   true). That the bus and the registry's locations stay comes from `Located`.

### `TestRegistryProofs`

The lemmas `ExecuteKeepsTypes` and `ExecuteKeepsTests` say what each handler keeps.
They are used three times: for the registry alone, where the theorem
`RegistryKeepsTests` gives `NoTestReborn` to everything that implements it, for the
sessions around it, and for the handlers under their locks. `TestsCounted` is the
strengthening: only numbers up to the counter are in use, so the next one is free.

### `ControlSessionProofs`

Assumptions: the named `ASSUME`s of `TestRegistry` and `ControlSession`; any number
of sessions, any sizes, prefix and junk lengths, any number of restarts.

1. `TypeCorrect` (`TypeOK`). The type of what ends a command needs `InFlight`: every
   byte on the wire or taken belongs to an answer the remote gave to the command
   its id names, and `done` only grows. One lemma per action keeps both.
2. `RequestReplyImplemented` (`ImplementsRequestReply`). By `InFlight`, a message
   whose id is the last command's has that command's result, and by the type
   invariant nothing is done beyond it (`AnswerReturns`). No byte position enters
   the argument: it holds wherever a read was dropped.
3. `TestsNeverReborn` (`NoTestReborn`), by `TestsCounted`; a restart empties the
   registry and starts the count again.

`AnswerReturns` and `Ended` say what the end of a command leaves: the message that ends it
is the last answer given, and its result is the outcome.

### `FramingProofs`

The same assumptions. `BrokenNeedsTimeout` (`BrokenOnlyAfterTimeout`) describes the
stream of a session none of whose reads was dropped position by position (`Framed`): it
begins with a frame, each byte is followed by the next of its frame, a frame is followed
by a frame, and the last one ends. `Begun` says where `read_message` stands in the first
of them: no length before the prefix is complete, afterwards the right one. One lemma per
handler keeps it: `write_message` appends a whole frame, each byte read moves from `wire`
to `taken`, a complete message leaves whole frames behind. So a read that meets a malformed
frame is one of a session with a timeout before it. `PrefixesUntilTimeout` is the other
side of the finding of `desync`: before a timeout every prefix is read from its start.

### `FreshnessProofs`

The same assumptions. `AnswersStayFresh` (`FreshAnswers`): facts told to operators are
borne out by the registry for as long as the remote runs (`ToldBorne`), since its handlers
keep numbers and undo no abort; so is what any answer given says (`GivenBorne`), also one
that is still on its way; what had been told when a command was given is a part of that
(`AsOfTold`), so the answer to the command respects it (`LastRespects`). A dropped read
does not disturb this, because what a reader may take for its answer is, by
`ControlSessionProofs`, the answer of its own command (`Returned`).

### `RemoteLocksProofs`

Assumptions: the named `ASSUME`s of `TestRegistry` and `RemoteLocks`, which say that
the tasks are finitely many; any number of tasks, workers, tests and requests.

`TaskInv` describes what may be left of a handler by its shape (`Left`) rather than by
its place in a program: a part that never asks for the state's lock and ends every
section of the hubs with the step after its lock (`HubPart`); such a part behind a
step that takes the state's lock; or a start. `ProgramsAreLeft` shows it of every
handler, `DropKeepsInv` that it survives whoever is let in when guards are given up.
`LetInExclusive` says of the queue that a writer is let in alone.

1. `TypeCorrect` (`TypeOK`). That no start passes the bound on tests needs `CountInv`:
   the starts under way still fit.
2. `NoTasksInACircle` (`NoCircularWait`). A task that waits for the hubs waits for tasks
   in a section, which wait for nothing, or before it in the queue; a task that waits
   for the state holds no guard at all. So of a set of waiting tasks the first one in
   the queue of the hubs, or else of the state, waits for none of the others
   (`FirstInQueue`).
3. `RegistryImplemented` (`ImplementsRegistry`). The number of a test and its record are
   two steps. Between them the task has the guard to write (`TaskInv`), so there is at
   most one such start (`OneStart`), and the registry's counter is the remote's less the
   number of such starts. The number is then a stutter and the record the registry's
   `Start`.

### `RemoteNetworkProofs`

Assumptions: the named `ASSUME`s of `RemoteNetwork`; any connections, addresses and
command lines, any number of boots and starts.

The strengthening has a part per property: `BuildInv` (a gadget is built in a mounted
configfs only), `FlagsInv` (the setup is run by those who asked for it), `RaisedInv`
(an interface that was raised stays up), `StartInv` and `RequestInv`. `TypeCorrect`,
`ServesConfigured`, `GivesUpForAReason` and `ConfiguredIsTrue` follow from it.

`StartInv` says that a start with no reason to give up so far (`Sound`) has made what its
place requires, also when it found the gadget finished. A start that found a whole gadget
without its interface is sound as long as every command so far met the interface
(`lacked`). `RequestInv` says that a request of which nothing failed of itself has made
what its step requires: nothing another request does takes it away. For the route that is
`RouteStands`: the route its command met, or else made, is there (`RouteAdded`), and a
default route that is there is not replaced (`RouteStandsStill`).

`ReportStays` follows from `PrimaryKept` (no step but a reboot changes the first IPv4
address once there is one) and `ReportsPrimary` (an IPv4 address is the report exactly if
it is that one).

### `UhubctlParserProofs`

Assumptions: the named `ASSUME` of `UhubctlParser`; outputs of any length, any hubs and
port numbers.

The parser reads line by line, the reference looks at the whole text, so every proof rests
on what one more line does to the reference (`OneMoreLine`, `HeadersExtend`,
`SectionsExtend`): a header that parses adds a hub without ports (`HeaderAddsHub`), a port
goes to the last section (`PortGoesToLast`), any other line adds nothing
(`OtherLinesAddNothing`). They rest in turn on what `InOrder` does with a position behind
all the others. `CurrentIsLast` ties the parser's state to it: there is a current hub
exactly if the last header parsed.

1. `ParserTypes` (`TypeOK`).
2. `NoPortLost` (`EveryPortOnce`). `FlattenSeq` of the community modules is recursive;
   that its recursion defines a function, and what it does with one sequence more, is
   shown by the least counterexample (`LeastNumber`), since induction principles that
   take an operator cannot be instantiated here.
3. `OwnPortsStay` (`OwnPortsKept`): after an unreadable header the parser's hub has more
   ports than the reference's, in front of its own. `Covers` is kept by all three kinds of
   line.
4. `SectionsParsed` (`SectionsKept`). `Exact`: as long as the output is well-formed, no
   port waits without a hub and what was found is the reference's, port for port. What
   comes before a line of a well-formed output is well-formed (`WellFormedPrefix`).

### What is left to TLC

The strengthenings were checked with TLC on the instances above before they were
proved.

Every safety property of every passing run is the subject of a theorem. Only
model-checked: liveness under fairness (`CommandEnds`, `RequestsServed`,
`EveryRequestEnds`, `StartEnds`), which is out of this prover's reach; the violations, which
are single behaviours; and that the bounds are enough to fire every action. No
liveness is claimed of `HubManager`: a hung uhubctl is not excluded by the code, and
waiting for locks is `RemoteLocks`' subject.

Restrictions of the theorems: an unchanging bus for `PhysicalExclusive`, `ImplementsLeases`,
`EndedByOwnRole` and `CoherentAtRest`, and one connection for the last. Without them the
properties do not hold of the code: a refresh that finds another hub where one was drops
the reservations of the ports it does not have, two registered hubs can then share a
location, and section 3 says what overlapping requests do to the power shown.

## 5. Plan

Every module of the plan is written. The parts are composed in pairs, by refinement,
and not in one module of the whole remote, whose state space no run would exhaust:
the sessions and the locked handlers both contain the registry, which the locked
handlers are proved to run as if one at a time, which is how the sessions run it; the
hub manager's sections are what `RemoteLocks` runs under the second lock, and what they
do is `HubManager`'s, which holds for every order of them.

Left for the proofs:

1. `CoherentAtRest` for several connections whose requests do not overlap, which takes a
   history of who overlapped.
2. Safety halves of the liveness properties: of what a request that has not ended waits
   for, beyond `NoCircularWait`.

## 6. Not modelled

- Events (`EventType`): defined, never sent.
- `hub_list`'s answer and the conversion of hubs to the wire: field by field, without
  state. (That deadlines are reported as the wrong time is noted in section 3.)
- Requests cut on their way (the remote's reads are never dropped; a connection that
  breaks loses them whole). The unbounded wait of `write_message`, which is outside the
  timeout: requests are far smaller than a socket's buffer.
- The master's use of `setup_usb_gadget` (the same two commands, on its own machine).
- MAC address, netmask and carrier of `usb0`: read, never compared.
- Text output and argument parsing of both programs, logging, serialisation of fields.
