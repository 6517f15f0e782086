---------------------------- MODULE UhubctlParser ----------------------------
(***************************************************************************)
(* parse_hub_list (src/usb_hub/uhubctl.rs): the hubs and ports in what     *)
(* uhubctl prints, read line by line.  A header starts a hub, the port     *)
(* lines after it are the hub's.  A line is what the parser can tell of    *)
(* it: the text of locations, ids and numbers stays out.                   *)
(***************************************************************************)
EXTENDS Naturals, Sequences, FiniteSets, SequencesExt

CONSTANTS
    Hubs,          \* location and ids of a header
    PortNumbers,   \* u8 numbers of ports
    MaxLines,      \* bound on the lines of an output
    None           \* a header or number that does not parse, or no hub

ASSUME ParserAssumption ==
    MaxLines \in Nat /\ None \notin Hubs /\ None \notin PortNumbers

VARIABLES
    text,          \* history: the lines read so far
    hubs,          \* the hubs found
    current_hub,   \* the one whose header was read last, or None
    current_ports, \* the ports not yet given to a hub
    finished       \* the output is at its end

vars == <<text, hubs, current_hub, current_ports, finished>>

Port == [number : PortNumbers, on : BOOLEAN]
Hub == [hub : Hubs, ports : Seq(Port)]

\* "Current status for hub ...", a line with "Port ...:", and any other.
HeaderLine == [kind : {"header"}, hub : Hubs \cup {None}]
PortLine == [kind : {"port"}, number : PortNumbers \cup {None}, on : BOOLEAN]
OtherLine == [kind : {"other"}]
Line == HeaderLine \cup PortLine \cup OtherLine

PortOf(line) == [number |-> line.number, on |-> line.on]
IsPort(line) == line.kind = "port" /\ line.number # None

-----------------------------------------------------------------------------
Init ==
    /\ text = <<>>
    /\ hubs = <<>>
    /\ current_hub = None
    /\ current_ports = <<>>
    /\ finished = FALSE

Read(line) ==
    /\ ~finished /\ Len(text) < MaxLines
    /\ text' = Append(text, line)
    /\ UNCHANGED finished

WithCurrent == Append(hubs, [hub |-> current_hub, ports |-> current_ports])

HeaderCloned(line) ==                                            \* a mutant
    /\ Read(line)
    /\ hubs' = IF current_hub = None THEN hubs ELSE WithCurrent
    /\ current_hub' = line.hub
    /\ UNCHANGED current_ports

HeaderKept(line) ==                                              \* a mutant
    /\ Read(line)
    /\ hubs' = IF current_hub = None THEN hubs ELSE WithCurrent
    /\ current_ports' = IF current_hub = None THEN current_ports ELSE <<>>
    /\ current_hub' = IF line.hub = None THEN current_hub ELSE line.hub

\* A header: the hub before it gets its ports and is done.  If there is none,
\* the ports that came after an unreadable header stay and go to the next hub.
Header(line) ==
    /\ Read(line)
    /\ hubs' = IF current_hub = None THEN hubs ELSE WithCurrent
    /\ current_ports' = IF current_hub = None THEN current_ports ELSE <<>>
    /\ current_hub' = line.hub

\* A port line whose number is no u8 is passed over.
PortStatus(line) ==
    /\ Read(line)
    /\ current_ports' = IF line.number = None THEN current_ports
                        ELSE Append(current_ports, PortOf(line))
    /\ UNCHANGED <<hubs, current_hub>>

Other(line) ==
    /\ Read(line)
    /\ UNCHANGED <<hubs, current_hub, current_ports>>

FinishBlind ==                                                   \* a mutant
    /\ ~finished
    /\ finished' = TRUE
    /\ hubs' = WithCurrent
    /\ current_hub' = None
    /\ current_ports' = <<>>
    /\ UNCHANGED text

FinishUnsaved ==                                                 \* a mutant
    /\ ~finished
    /\ finished' = TRUE
    /\ UNCHANGED <<text, hubs, current_hub, current_ports>>

\* The last hub is saved; ports without one are dropped.
Finish ==
    /\ ~finished
    /\ finished' = TRUE
    /\ hubs' = IF current_hub = None THEN hubs ELSE WithCurrent
    /\ current_hub' = None
    /\ current_ports' = <<>>
    /\ UNCHANGED text

Next ==
    \/ \E line \in HeaderLine : Header(line)
    \/ \E line \in PortLine : PortStatus(line)
    \/ \E line \in OtherLine : Other(line)
    \/ Finish

Spec == Init /\ [][Next]_vars

-----------------------------------------------------------------------------
(* The reference: the sections of a text, found by position.               *)

\* The elements of a set of positions, from the first to the last.
Rank(i, S) == Cardinality({j \in S : j <= i})
InOrder(S) == [k \in 1..Cardinality(S) |-> CHOOSE i \in S : Rank(i, S) = k]

Positions(lines) == 1..Len(lines)
Headers(lines) == {i \in Positions(lines) : lines[i].kind = "header"}

\* The section of the header at i: the positions up to the next header.
Section(lines, i) ==
    {j \in Positions(lines) : i < j /\ \A m \in Headers(lines) : m <= i \/ j < m}

\* The readable ports at some positions of the text.
PortsAt(lines, I) ==
    LET at == InOrder({i \in I : IsPort(lines[i])})
    IN  [k \in DOMAIN at |-> PortOf(lines[at[k]])]

HubAt(lines, i) ==
    [hub |-> lines[i].hub, ports |-> PortsAt(lines, Section(lines, i))]

\* The hubs of the headers that parse, each with the ports of its section.
ReadableHeaders(lines) == {i \in Headers(lines) : lines[i].hub # None}
Readable(lines) ==
    LET at == InOrder(ReadableHeaders(lines))
    IN  [k \in DOMAIN at |-> HubAt(lines, at[k])]

\* What uhubctl is known to print: every header parses, and ports come after
\* a header.
WellFormed(lines) ==
    /\ Headers(lines) = ReadableHeaders(lines)
    /\ \A i \in Positions(lines) :
         IsPort(lines[i]) => \E j \in Headers(lines) : j < i

\* The hubs found, with the one that is not done yet.
Found == IF current_hub = None THEN hubs ELSE WithCurrent

-----------------------------------------------------------------------------
(* Properties.                                                             *)

TypeOK ==
    /\ text \in Seq(Line)
    /\ hubs \in Seq(Hub)
    /\ current_hub \in Hubs \cup {None}
    /\ current_ports \in Seq(Port)
    /\ finished \in BOOLEAN

\* Of a well-formed output the parser makes one hub per header, in order,
\* with the ports of its section and no other, the last one included.
SectionsKept == finished /\ WellFormed(text) => hubs = Readable(text)

\* Whatever the output, headers that do not parse included: there is one hub
\* per header that does, in order, and the ports of its own section are the
\* last of its ports, so that none is ever lost to another hub.
OwnPortsKept ==
    LET own == Readable(text) IN
    /\ Len(Found) = Len(own)
    /\ \A k \in 1..Len(Found) :
           /\ Found[k].hub = own[k].hub
           /\ IsSuffix(own[k].ports, Found[k].ports)

\* Whatever the output: until its end every port line that was read is in
\* one place, in one hub or waiting for one, in the order of the text.
EveryPortOnce ==
    ~finished =>
        FlattenSeq([k \in 1..Len(hubs) |-> hubs[k].ports]) \o current_ports
            = PortsAt(text, Positions(text))
===============================================================================
