---------------------------- MODULE ControlSession ----------------------------
(***************************************************************************)
(* Sessions of masters with one remote: the master's prompt loop and its   *)
(* send_request_and_wait (src/bin/master.rs), the framing of messages on   *)
(* the connection (src/protocol/framing.rs), and the remote's loop over    *)
(* the requests of a connection (src/bin/remote.rs), around the state of   *)
(* TestRegistry.                                                           *)
(*                                                                         *)
(* A session is one run of the master, on one connection; one that gives   *)
(* a single command and exits is a session that quits after it.  Requests  *)
(* are read by a loop that is never interrupted, so they are whole and in  *)
(* order: the requests on their way are the calls not done yet.  Answers   *)
(* are read under a timeout that drops the read in progress together with  *)
(* the bytes it has taken, so that direction is a stream of bytes.         *)
(***************************************************************************)
EXTENDS TestRegistry, Sequences

CONSTANTS
    Sessions,      \* the runs of the master
    HeaderBytes,   \* the bytes of a length prefix (4)
    PayloadSizes,  \* what the JSON of an answer may take, in bytes
    JunkLengths,   \* what bytes astride a length prefix may read as
    MaxCalls       \* bound on the commands of a session

VARIABLES
    session,       \* the master: not yet started, at work, or gone
    calls,         \* the commands of each session, in the order sent
    outcome,       \* how those of them that are over ended
    wire,          \* the bytes of answers not yet read
    taken,         \* the bytes read_message has taken for the next message
    want,          \* the length it has read, or 0
    handler,       \* the remote's task for the connection
    done,          \* the answers it has given
    told,          \* history: what the operators were told of the tests of
                   \* the remote since it started
    asOf           \* history: `told` when a session's last command was given

history == <<told, asOf>>
reader == <<wire, taken, want>>
remote == <<registry, handler, done>>
vars == <<remote, reader, session, calls, outcome, history>>

-----------------------------------------------------------------------------
(* Messages and frames.                                                    *)

\* A response: the id (here the place of the call in its session, which is
\* unique as the code's UUID is), the result, and its length as JSON.
Message == [id : 1..MaxCalls, result : Answers, size : PayloadSizes]

Byte == [of : Message, at : Nat \ {0}]

\* write_message: a length prefix, then the payload.
FrameUnprefixed(m) == [i \in 1..m.size |-> [of |-> m, at |-> HeaderBytes + i]]   \* a mutant
Frame(m) == [i \in 1..(HeaderBytes + m.size) |-> [of |-> m, at |-> i]]

\* What read_message can make of HeaderBytes bytes that begin with b: the
\* length of the payload, or 0 when it refuses them.  Bytes of JSON are all
\* above 0x1F, so four of them, or four that begin with one of them, exceed
\* MAX_MESSAGE_SIZE; those that begin inside a prefix may be any length.
LengthsRead(b) ==
    CASE b.at = 1 -> {b.of.size}
      [] b.at \in 2..HeaderBytes -> JunkLengths \cup {0}
      [] b.at > HeaderBytes -> {0}

\* serde_json::from_slice succeeds only on a whole payload.
IsFrame(bytes) == bytes = Frame(bytes[1].of)

Failures == [failed : {"timeout", "broken", "lost"}]

ASSUME FramingAssumption ==
    /\ HeaderBytes \in Nat \ {0}
    /\ PayloadSizes \subseteq Nat \ {0}
    /\ JunkLengths \subseteq Nat \ {0}
    /\ MaxCalls \in Nat

-----------------------------------------------------------------------------
Waiting(s) == Len(outcome[s]) < Len(calls[s])

Init ==
    /\ RegistryInit
    /\ session = [s \in Sessions |-> "new"]
    /\ calls = [s \in Sessions |-> <<>>]
    /\ outcome = [s \in Sessions |-> <<>>]
    /\ wire = [s \in Sessions |-> <<>>]
    /\ taken = [s \in Sessions |-> <<>>]
    /\ want = [s \in Sessions |-> 0]
    /\ handler = [s \in Sessions |-> "none"]
    /\ done = [s \in Sessions |-> <<>>]
    /\ told = {}
    /\ asOf = [s \in Sessions |-> {}]

-----------------------------------------------------------------------------
(* The master.                                                             *)

\* main: the master connects and the remote accepts.
Connect(s) ==
    /\ session[s] = "new"
    /\ session' = [session EXCEPT ![s] = "open"]
    /\ handler' = [handler EXCEPT ![s] = "reading"]
    /\ UNCHANGED <<registry, done, reader, calls, outcome, history>>

IssueAhead(s, r) ==                                              \* a mutant
    /\ session[s] = "open"
    /\ Len(calls[s]) < MaxCalls
    /\ calls' = [calls EXCEPT ![s] = Append(@, r)]
    /\ asOf' = [asOf EXCEPT ![s] = told]
    /\ UNCHANGED <<remote, reader, session, outcome, told>>

\* The operator gives a command at the prompt and its request is written.
Issue(s, r) ==
    /\ session[s] = "open" /\ ~Waiting(s)
    /\ Len(calls[s]) < MaxCalls
    /\ calls' = [calls EXCEPT ![s] = Append(@, r)]
    /\ asOf' = [asOf EXCEPT ![s] = told]
    /\ UNCHANGED <<remote, reader, session, outcome, told>>

\* send_request_and_wait returns: the bytes its read_message had taken are
\* dropped with it; those still on the wire are left to the next command.
End(s, o) ==
    /\ outcome' = [outcome EXCEPT ![s] = Append(@, o)]
    /\ taken' = [taken EXCEPT ![s] = <<>>]
    /\ want' = [want EXCEPT ![s] = 0]
    /\ UNCHANGED <<remote, session, calls, asOf>>

Failed(s, why) == End(s, [failed |-> why]) /\ UNCHANGED told

TimeoutBetweenMessages(s) ==                                     \* a mutant
    /\ session[s] = "open" /\ Waiting(s)
    /\ taken[s] = <<>>
    /\ Failed(s, "timeout")
    /\ UNCHANGED wire

\* tokio::time::timeout: the read is dropped wherever it is.
Timeout(s) ==
    /\ session[s] = "open" /\ Waiting(s)
    /\ Failed(s, "timeout")
    /\ UNCHANGED wire

\* The bytes taken once the next one is, and the step that takes it.
Bytes(s) == Append(taken[s], Head(wire[s]))

Take(s) ==
    /\ session[s] = "open" /\ Waiting(s)
    /\ wire[s] # <<>>
    /\ wire' = [wire EXCEPT ![s] = Tail(@)]

Keep(s) ==
    /\ taken' = [taken EXCEPT ![s] = Bytes(s)]
    /\ UNCHANGED <<remote, session, calls, outcome, history>>

\* read_message, waiting for more of the prefix or of the payload.
ReadByte(s) ==
    /\ Take(s)
    /\ Len(Bytes(s)) < HeaderBytes + want[s]
    /\ Keep(s)
    /\ UNCHANGED want

\* read_message has the prefix: the length is refused, or read.
ReadLength(s) ==
    /\ Take(s)
    /\ want[s] = 0 /\ Len(Bytes(s)) = HeaderBytes
    /\ \E n \in LengthsRead(Bytes(s)[1]) :
        \/ n = 0 /\ Failed(s, "broken")
        \/ n > 0 /\ want' = [want EXCEPT ![s] = n] /\ Keep(s)

\* What an answer tells of a test.
Telling(a) == IF "test" \in DOMAIN a THEN {a} ELSE {}

\* A response is for the command that waits if it has its id.
AnyResponse(s, m) == TRUE                                        \* a mutant
IsReplyTo(s, m) == m.id = Len(calls[s])

\* read_message has a message, or fails on what it has; the answer of an
\* earlier command, whose id is another, is skipped.
ReadMessage(s) ==
    /\ Take(s)
    /\ want[s] > 0 /\ Len(Bytes(s)) = HeaderBytes + want[s]
    /\ LET m == Bytes(s)[1].of IN
       \/ ~IsFrame(Bytes(s)) /\ Failed(s, "broken")
       \/ /\ IsFrame(Bytes(s)) /\ IsReplyTo(s, m)
          /\ End(s, m.result)
          /\ told' = IF handler[s] = "closed" THEN told
                     ELSE told \cup Telling(m.result)
       \/ /\ IsFrame(Bytes(s)) /\ ~IsReplyTo(s, m)
          /\ taken' = [taken EXCEPT ![s] = <<>>]
          /\ want' = [want EXCEPT ![s] = 0]
          /\ UNCHANGED <<remote, session, calls, outcome, history>>

\* The remote's end is closed: a read or a write fails.  What was on the
\* wire may have been read before that, or is lost.
ReadLost(s) ==
    /\ session[s] = "open" /\ Waiting(s)
    /\ handler[s] = "closed"
    /\ wire' = [wire EXCEPT ![s] = <<>>]
    /\ Failed(s, "lost")

\* `quit`, the end of a single command, or the master is killed.
Quit(s) ==
    /\ session[s] = "open"
    /\ session' = [session EXCEPT ![s] = "gone"]
    /\ wire' = [wire EXCEPT ![s] = <<>>]
    /\ taken' = [taken EXCEPT ![s] = <<>>]
    /\ want' = [want EXCEPT ![s] = 0]
    /\ UNCHANGED <<remote, calls, outcome, history>>

-----------------------------------------------------------------------------
(* The remote: handle_connection.                                          *)

HandleAwaited(s) ==                                              \* a mutant
    /\ handler[s] = "reading"
    /\ Waiting(s) /\ Len(done[s]) < Len(calls[s])
    /\ LET r == calls[s][Len(done[s]) + 1] IN
       /\ Execute(r)
       /\ done' = [done EXCEPT ![s] = Append(@, Answer(r))]
    /\ handler' = [handler EXCEPT ![s] = "replying"]
    /\ UNCHANGED <<reader, session, calls, outcome, history>>

\* A request is read and its handler run.
Handle(s) ==
    /\ handler[s] = "reading"
    /\ Len(done[s]) < Len(calls[s])
    /\ LET r == calls[s][Len(done[s]) + 1] IN
       /\ Execute(r)
       /\ done' = [done EXCEPT ![s] = Append(@, Answer(r))]
    /\ handler' = [handler EXCEPT ![s] = "replying"]
    /\ UNCHANGED <<reader, session, calls, outcome, history>>

\* The answer is written, to nobody if the master is gone.
Respond(s) ==
    /\ handler[s] = "replying"
    /\ handler' = [handler EXCEPT ![s] = "reading"]
    /\ IF session[s] = "gone" THEN wire' = wire
       ELSE \E n \in PayloadSizes :
                wire' = [wire EXCEPT ![s] = @ \o
                    Frame([id |-> Len(done[s]), result |-> done[s][Len(done[s])],
                           size |-> n])]
    /\ UNCHANGED <<registry, done, taken, want, session, calls, outcome, history>>

\* The master is gone: a read or a write fails and the task ends, perhaps
\* with requests it had not read.
Close(s) ==
    /\ session[s] = "gone"
    /\ handler[s] \in {"reading", "replying"}
    /\ handler' = [handler EXCEPT ![s] = "closed"]
    /\ UNCHANGED <<registry, done, reader, session, calls, outcome, history>>

\* The remote's process ends, with all its tasks, and is started again.
RemoteRestart ==
    /\ Restart
    /\ handler' = [s \in Sessions |->
                      IF handler[s] = "none" THEN "none" ELSE "closed"]
    /\ told' = {}
    /\ UNCHANGED <<done, reader, session, calls, outcome, asOf>>

Next ==
    \/ RemoteRestart
    \/ \E s \in Sessions :
        \/ Connect(s)
        \/ \E r \in Commands : Issue(s, r)
        \/ Timeout(s)
        \/ ReadByte(s) \/ ReadLength(s) \/ ReadMessage(s)
        \/ ReadLost(s)
        \/ Quit(s)
        \/ Handle(s) \/ Respond(s) \/ Close(s)

Spec == Init /\ [][Next]_vars

\* tokio's timers fire, and the tasks that can go on do.
FairSpec ==
    /\ Spec
    /\ \A s \in Sessions :
        /\ WF_vars(Timeout(s))
        /\ WF_vars(Handle(s)) /\ WF_vars(Respond(s)) /\ WF_vars(Close(s))

-----------------------------------------------------------------------------
(* Properties.                                                             *)

\* Every variable keeps to its type; a message in flight is an answer that
\* was given, and only a live reader holds bytes.
TypeOK ==
    /\ RegistryTypeOK
    /\ session \in [Sessions -> {"new", "open", "gone"}]
    /\ calls \in [Sessions -> Seq(Commands)]
    /\ outcome \in [Sessions -> Seq(Answers \cup Failures)]
    /\ wire \in [Sessions -> Seq(Byte)]
    /\ taken \in [Sessions -> Seq(Byte)]
    /\ want \in [Sessions -> Nat]
    /\ handler \in [Sessions -> {"none", "reading", "replying", "closed"}]
    /\ done \in [Sessions -> Seq(Answers)]
    /\ \A s \in Sessions :
        /\ Len(done[s]) <= Len(calls[s]) /\ Len(calls[s]) <= MaxCalls
        /\ Len(outcome[s]) \in {Len(calls[s]), Len(calls[s]) - 1}

\* The sessions are RequestReply's: at most one execution of a command, in
\* order, and no answer but that execution's, however the stream of answers
\* was cut by timeouts (send_request_and_wait, read_message).
RPC == INSTANCE RequestReply
ImplementsRequestReply == RPC!Spec

\* A command fails on a malformed frame only in a session where an earlier
\* command timed out: the two ends agree on the framing (write_message,
\* read_message), and nothing but a dropped read puts the reader off it.
BrokenOnlyAfterTimeout ==
    \A s \in Sessions : \A j \in 1..Len(outcome[s]) :
        outcome[s][j] = [failed |-> "broken"] =>
            \E i \in 1..(j - 1) : outcome[s][i] = [failed |-> "timeout"]

\* An answer about a test is no older than what any operator had been told
\* of it when the command was given: a test that was reported is not
\* missing, one that was reported ended is not running.  Sessions may be
\* many, and answers of commands that timed out still arrive.
FreshAnswers ==
    \A s \in Sessions :
        (session[s] = "open" /\ handler[s] # "closed"
           /\ ~Waiting(s) /\ calls[s] # <<>>) =>
        LET c == calls[s][Len(calls[s])]
            o == outcome[s][Len(calls[s])]
        IN  \A f \in asOf[s] : "test" \in DOMAIN c /\ c.test = f.test =>
                /\ o # [missing |-> f.test]
                /\ f.status = "aborted" =>
                       o # [test |-> f.test, status |-> "running"]

\* The operator gets the prompt back: every command ends, whatever bytes the
\* reader waits for, by the timeout of send_request_and_wait.
CommandEnds ==
    \A s \in Sessions : (session[s] = "open" /\ Waiting(s)) ~>
        (session[s] # "open" \/ ~Waiting(s))

\* A request that reached the remote is executed, also when the master gave
\* it up, unless the connection is closed (handle_connection's loop).
RequestsServed ==
    \A s \in Sessions : \A n \in 1..MaxCalls :
        (Len(calls[s]) >= n) ~> (Len(done[s]) >= n \/ handler[s] = "closed")

\* "All messages use length-prefixed framing: [4-byte length][JSON payload]"
\* (README.md:131): what is read as a length is the prefix of a message.
LengthsArePrefixes ==
    \A s \in Sessions : taken[s] # <<>> => taken[s][1].at = 1
===============================================================================
