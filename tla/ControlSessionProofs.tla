------------------------- MODULE ControlSessionProofs -------------------------
(***************************************************************************)
(* Proofs about ControlSession: types, the numbering of tests, and that    *)
(* the sessions implement RequestReply, for any number of sessions and     *)
(* commands, any sizes and any length of the prefix.                       *)
(***************************************************************************)
EXTENDS ControlSession, TestRegistryProofs, SequenceTheorems

-----------------------------------------------------------------------------
(* Types.  A byte on its way, or taken, belongs to an answer that was      *)
(* given: with that, what ends a command is an answer.                     *)

\* m carries the answer that was given to the command its id names.
Given(s, m) == m.id <= Len(done[s]) /\ m.result = done[s][m.id]

\* Every byte of the answers' stream comes from an answer given; a task that
\* is about to answer has executed something.
InFlight ==
    \A s \in Sessions :
        /\ \A i \in 1..Len(wire[s]) : Given(s, wire[s][i].of)
        /\ \A i \in 1..Len(taken[s]) : Given(s, taken[s][i].of)
        /\ handler[s] = "replying" => Len(done[s]) >= 1

IInv == TypeOK /\ InFlight

\* The initial state (RemoteState::new, and no master yet).
LEMMA InitInv == Init => IInv
<1> SUFFICES ASSUME Init PROVE IInv
  OBVIOUS
<1>1. RegistryTypeOK
  BY RegistryBounds DEF Init, RegistryInit, RegistryTypeOK
<1>2. TypeOK
  BY <1>1, FramingAssumption DEF Init, TypeOK
<1>3. InFlight
  BY DEF Init, InFlight
<1> QED
  BY <1>2, <1>3 DEF IInv

\* The three failures are different, and no answer is a failure.
LEMMA OutcomesDiffer ==
    /\ [failed |-> "timeout"] # [failed |-> "broken"]
    /\ [failed |-> "lost"] # [failed |-> "broken"]
    /\ \A a \in Answers : \A why : a # [failed |-> why]
<1>1. /\ [failed |-> "timeout"].failed = "timeout"
      /\ [failed |-> "broken"].failed = "broken"
      /\ [failed |-> "lost"].failed = "lost"
  OBVIOUS
<1>2. ASSUME NEW a \in Answers, NEW why
      PROVE  a # [failed |-> why]
  <2>1. DOMAIN [failed |-> why] = {"failed"}
    OBVIOUS
  <2>2. CASE a \in [pong : {TRUE}]
    BY <2>1, <2>2
  <2>3. CASE a \in [role : DeviceRoles]
    BY <2>1, <2>3
  <2>4. CASE a \in [test : TestId, status : TestStatus]
    BY <2>1, <2>4
  <2>5. CASE a \in [missing : TestId]
    BY <2>1, <2>5
  <2> QED
    BY <2>2, <2>3, <2>4, <2>5 DEF Answers
<1> QED
  BY <1>1, <1>2

\* What send_request_and_wait leaves when it returns.
LEMMA Ended ==
    ASSUME IInv, NEW s \in Sessions, NEW o, End(s, o)
    PROVE  /\ outcome'[s] = Append(outcome[s], o)
           /\ Len(outcome[s]) \in Nat /\ Len(outcome'[s]) = Len(outcome[s]) + 1
           /\ \A i \in 1..Len(outcome[s]) : outcome'[s][i] = outcome[s][i]
           /\ outcome'[s][Len(outcome[s]) + 1] = o
           /\ taken'[s] = <<>> /\ want'[s] = 0
           /\ \A z \in Sessions \ {s} : /\ outcome'[z] = outcome[z]
                                        /\ taken'[z] = taken[z]
                                        /\ want'[z] = want[z]
<1>1. /\ outcome' = [outcome EXCEPT ![s] = Append(outcome[s], o)]
      /\ taken' = [taken EXCEPT ![s] = <<>>]
      /\ want' = [want EXCEPT ![s] = 0]
  BY DEF End
<1>2. outcome[s] \in Seq(Answers \cup Failures)
  BY DEF IInv, TypeOK
<1>3. /\ Len(outcome[s]) \in Nat /\ Len(Append(outcome[s], o)) = Len(outcome[s]) + 1
      /\ \A i \in 1..Len(outcome[s]) : Append(outcome[s], o)[i] = outcome[s][i]
      /\ Append(outcome[s], o)[Len(outcome[s]) + 1] = o
  <2>1. outcome[s] \in Seq(Answers \cup Failures \cup {o}) /\ o \in Answers \cup Failures \cup {o}
    BY <1>2, SeqMonotonic
  <2> QED
    BY <2>1, AppendProperties
<1> QED
  BY <1>1, <1>3 DEF IInv, TypeOK

\* A read in progress: the bytes with the next one taken are bytes of answers
\* given, and so are those left on the wire.
LEMMA TakeTyped ==
    ASSUME IInv, NEW s \in Sessions, Take(s)
    PROVE  /\ wire' \in [Sessions -> Seq(Byte)]
           /\ Bytes(s) \in Seq(Byte)
           /\ \A z \in Sessions : \A i \in 1..Len(wire'[z]) : Given(z, wire'[z][i].of)
           /\ \A i \in 1..Len(Bytes(s)) : Given(s, Bytes(s)[i].of)
           /\ Len(Bytes(s)) >= 1
<1> DEFINE w == wire[s]
           t == taken[s]
<1>1. /\ w \in Seq(Byte) /\ w # <<>> /\ t \in Seq(Byte)
      /\ \A i \in 1..Len(w) : Given(s, w[i].of)
      /\ \A i \in 1..Len(t) : Given(s, t[i].of)
  BY DEF Take, IInv, TypeOK, InFlight
<1>2. /\ Head(w) \in Byte /\ Tail(w) \in Seq(Byte)
      /\ Given(s, Head(w).of)
      /\ \A i \in 1..Len(Tail(w)) : Given(s, Tail(w)[i].of)
  <2> HIDE DEF w
  <2>1. Len(w) \in Nat /\ Len(w) >= 1 /\ Head(w) = w[1]
    BY <1>1
  <2>2. Len(Tail(w)) = Len(w) - 1 /\ \A i \in 1..Len(Tail(w)) : Tail(w)[i] = w[i + 1]
    BY <1>1
  <2> QED
    BY <1>1, <2>1, <2>2
<1>3. Bytes(s) = Append(t, Head(w))
  BY DEF Bytes
<1>4. wire' = [wire EXCEPT ![s] = Tail(w)]
  BY DEF Take
<1>5. wire' \in [Sessions -> Seq(Byte)]
  BY <1>2, <1>4 DEF IInv, TypeOK
<1>6. \A z \in Sessions : \A i \in 1..Len(wire'[z]) : Given(z, wire'[z][i].of)
  <2> TAKE z \in Sessions
  <2>1. CASE z = s
    BY <1>2, <1>4, <2>1 DEF IInv, TypeOK
  <2>2. CASE z # s
    BY <1>4, <2>2 DEF IInv, TypeOK, InFlight
  <2> QED
    BY <2>1, <2>2
<1>7. /\ Append(t, Head(w)) \in Seq(Byte)
      /\ Len(Append(t, Head(w))) >= 1
      /\ \A i \in 1..Len(Append(t, Head(w))) : Given(s, Append(t, Head(w))[i].of)
  <2> HIDE DEF w, t
  <2> QED
    BY <1>1, <1>2
<1> QED
  BY <1>3, <1>5, <1>6, <1>7

\* A command ends (send_request_and_wait returns) with an answer or a failure.
LEMMA EndKeepsInv ==
    ASSUME IInv, NEW s \in Sessions, NEW o \in Answers \cup Failures,
           Waiting(s), End(s, o),
           wire' \in [Sessions -> Seq(Byte)],
           \A z \in Sessions : \A i \in 1..Len(wire'[z]) : Given(z, wire'[z][i].of)
    PROVE  IInv'
<1>1. RegistryTypeOK'
  BY DEF End, remote, registry, IInv, TypeOK, RegistryTypeOK
<1>2. /\ outcome' \in [Sessions -> Seq(Answers \cup Failures)]
      /\ outcome' = [outcome EXCEPT ![s] = Append(outcome[s], o)]
      /\ Len(outcome'[s]) = Len(outcome[s]) + 1
  <2>1. outcome[s] \in Seq(Answers \cup Failures)
    BY DEF IInv, TypeOK
  <2>2. /\ Append(outcome[s], o) \in Seq(Answers \cup Failures)
        /\ Len(Append(outcome[s], o)) = Len(outcome[s]) + 1
    BY <2>1
  <2> QED
    BY <2>2 DEF End, IInv, TypeOK
<1>3. \A z \in Sessions : Len(outcome'[z]) \in {Len(calls'[z]), Len(calls'[z]) - 1}
  <2> TAKE z \in Sessions
  <2>0. calls' = calls /\ Len(calls[z]) \in Nat /\ Len(outcome[z]) \in Nat
    BY DEF End, IInv, TypeOK
  <2>1. CASE z = s
    BY <1>2, <2>0, <2>1 DEF Waiting, IInv, TypeOK
  <2>2. CASE z # s
    BY <1>2, <2>0, <2>2 DEF IInv, TypeOK
  <2> QED
    BY <2>1, <2>2
<1>4. /\ taken' \in [Sessions -> Seq(Byte)]
      /\ want' \in [Sessions -> Nat]
      /\ \A z \in Sessions : taken'[z] = <<>> \/ taken'[z] = taken[z]
  BY DEF End, IInv, TypeOK
<1>5. TypeOK'
  BY <1>1, <1>2, <1>3, <1>4 DEF End, remote, IInv, TypeOK
<1>6. InFlight'
  BY <1>4 DEF End, remote, IInv, InFlight, Given
<1> QED
  BY <1>5, <1>6 DEF IInv

\* read_message keeps the byte it took and waits for more.
LEMMA KeepKeepsInv ==
    ASSUME IInv, NEW s \in Sessions, Take(s), Keep(s), want' \in [Sessions -> Nat]
    PROVE  IInv'
<1>1. RegistryTypeOK'
  BY DEF Keep, remote, registry, IInv, TypeOK, RegistryTypeOK
<1>2. /\ taken' = [taken EXCEPT ![s] = Bytes(s)]
      /\ taken' \in [Sessions -> Seq(Byte)]
  BY TakeTyped DEF Keep, IInv, TypeOK
<1>3. TypeOK'
  BY <1>1, <1>2, TakeTyped DEF Keep, remote, IInv, TypeOK
<1>4. \A z \in Sessions : \A i \in 1..Len(taken'[z]) : Given(z, taken'[z][i].of)
  <2> TAKE z \in Sessions
  <2>1. CASE z = s
    BY <1>2, <2>1, TakeTyped DEF IInv, TypeOK
  <2>2. CASE z # s
    BY <1>2, <2>2 DEF IInv, TypeOK, InFlight
  <2> QED
    BY <2>1, <2>2
<1>5. InFlight'
  BY <1>4, TakeTyped DEF Keep, remote, IInv, InFlight, Given
<1> QED
  BY <1>3, <1>5 DEF IInv

\* Connect, Issue, Quit and Close, which move no byte but to drop it.
LEMMA MasterKeepsInv ==
    ASSUME IInv, NEW s \in Sessions,
           Connect(s) \/ (\E r \in Commands : Issue(s, r)) \/ Quit(s) \/ Close(s)
    PROVE  IInv'
<1>1. CASE Connect(s)
  <2>1. TypeOK'
    BY <1>1 DEF Connect, registry, reader, history, IInv, TypeOK, RegistryTypeOK
  <2>2. InFlight'
    BY <1>1 DEF Connect, registry, reader, history, IInv, TypeOK, InFlight, Given
  <2> QED
    BY <2>1, <2>2 DEF IInv
<1>2. ASSUME NEW r \in Commands, Issue(s, r)
      PROVE  IInv'
  <2>1. calls' = [calls EXCEPT ![s] = Append(calls[s], r)]
    BY <1>2 DEF Issue
  <2>2. /\ calls[s] \in Seq(Commands)
        /\ Append(calls[s], r) \in Seq(Commands)
        /\ Len(Append(calls[s], r)) = Len(calls[s]) + 1
    BY DEF IInv, TypeOK
  <2>3. calls' \in [Sessions -> Seq(Commands)] /\ Len(calls'[s]) = Len(calls[s]) + 1
    BY <2>1, <2>2 DEF IInv, TypeOK
  <2>4. \A z \in Sessions :
            /\ Len(done[z]) <= Len(calls'[z]) /\ Len(calls'[z]) <= MaxCalls
            /\ Len(outcome[z]) \in {Len(calls'[z]), Len(calls'[z]) - 1}
    <3> TAKE z \in Sessions
    <3>0. /\ Len(calls[z]) \in Nat /\ Len(outcome[z]) \in Nat /\ Len(done[z]) \in Nat
          /\ MaxCalls \in Nat
      BY FramingAssumption DEF IInv, TypeOK
    <3>1. CASE z = s
      BY <1>2, <2>3, <3>0, <3>1 DEF Issue, Waiting, IInv, TypeOK
    <3>2. CASE z # s
      BY <2>1, <3>0, <3>2 DEF IInv, TypeOK
    <3> QED
      BY <3>1, <3>2
  <2>5. TypeOK'
    BY <1>2, <2>3, <2>4
       DEF Issue, remote, registry, reader, IInv, TypeOK, RegistryTypeOK
  <2>6. InFlight'
    BY <1>2 DEF Issue, remote, reader, IInv, InFlight, Given
  <2> QED
    BY <2>5, <2>6 DEF IInv
<1>3. CASE Quit(s)
  <2>0. /\ wire' \in [Sessions -> Seq(Byte)]
        /\ taken' \in [Sessions -> Seq(Byte)]
        /\ want' \in [Sessions -> Nat]
        /\ session' \in [Sessions -> {"new", "open", "gone"}]
    BY <1>3 DEF Quit, IInv, TypeOK
  <2>4. RegistryTypeOK'
    BY <1>3 DEF Quit, remote, registry, IInv, TypeOK, RegistryTypeOK
  <2>1. TypeOK'
    BY <1>3, <2>0, <2>4 DEF Quit, remote, IInv, TypeOK
  <2>2. \A z \in Sessions : /\ wire'[z] = <<>> \/ wire'[z] = wire[z]
                            /\ taken'[z] = <<>> \/ taken'[z] = taken[z]
    BY <1>3 DEF Quit, IInv, TypeOK
  <2>3. InFlight'
    BY <1>3, <2>2 DEF Quit, remote, IInv, InFlight, Given
  <2> QED
    BY <2>1, <2>3 DEF IInv
<1>4. CASE Close(s)
  <2>1. TypeOK'
    BY <1>4 DEF Close, registry, reader, history, IInv, TypeOK, RegistryTypeOK
  <2>2. InFlight'
    BY <1>4 DEF Close, reader, IInv, TypeOK, InFlight, Given
  <2> QED
    BY <2>1, <2>2 DEF IInv
<1> QED
  BY <1>1, <1>2, <1>3, <1>4

\* A request is handled: one more answer is given, and the earlier ones stay
\* what the bytes in flight carry (handle_request).
LEMMA HandleKeepsInv ==
    ASSUME IInv, NEW s \in Sessions, Handle(s)
    PROVE  IInv'
<1> DEFINE n == Len(done[s]) + 1
           r == calls[s][n]
           a == Answer(r)
<1>1. /\ Len(done[s]) \in Nat /\ Len(calls[s]) \in Nat
      /\ Len(done[s]) < Len(calls[s])
      /\ calls[s] \in Seq(Commands) /\ done[s] \in Seq(Answers)
  BY DEF Handle, IInv, TypeOK
<1>2. r \in Commands
  BY <1>1
<1>3. Execute(r) /\ done' = [done EXCEPT ![s] = Append(done[s], a)]
  BY DEF Handle
<1>4. RegistryTypeOK' /\ a \in Answers
  BY <1>2, <1>3, CommandsAssumption, ExecuteKeepsTypes, AnswersAreAnswers DEF IInv, TypeOK
<1> HIDE DEF a, r
<1>5. /\ Append(done[s], a) \in Seq(Answers)
      /\ Len(Append(done[s], a)) = Len(done[s]) + 1
      /\ \A i \in 1..Len(done[s]) : Append(done[s], a)[i] = done[s][i]
  BY <1>1, <1>4
<1>6. /\ done' \in [Sessions -> Seq(Answers)]
      /\ done'[s] = Append(done[s], a)
      /\ \A z \in Sessions : z # s => done'[z] = done[z]
  BY <1>3, <1>5 DEF IInv, TypeOK
<1>7. \A z \in Sessions : Len(done'[z]) <= Len(calls[z])
  <2> TAKE z \in Sessions
  <2>1. CASE z = s
    BY <1>1, <1>5, <1>6, <2>1
  <2>2. CASE z # s
    BY <1>6, <2>2 DEF IInv, TypeOK
  <2> QED
    BY <2>1, <2>2
<1>8. TypeOK'
  BY <1>4, <1>6, <1>7 DEF Handle, reader, history, IInv, TypeOK
<1>9. \A z \in Sessions, m \in Message : Given(z, m) => Given(z, m)'
  <2> TAKE z \in Sessions, m \in Message
  <2>1. CASE z = s
    <3>1. m.id \in Nat /\ m.id >= 1
      BY FramingAssumption DEF Message
    <3> QED
      BY <1>1, <1>5, <1>6, <2>1, <3>1 DEF Given
  <2>2. CASE z # s
    BY <1>6, <2>2 DEF Given
  <2> QED
    BY <2>1, <2>2
<1>10. \A z \in Sessions : /\ \A i \in 1..Len(wire[z]) : wire[z][i].of \in Message
                           /\ \A i \in 1..Len(taken[z]) : taken[z][i].of \in Message
  <2> TAKE z \in Sessions
  <2>1. wire[z] \in Seq(Byte) /\ taken[z] \in Seq(Byte)
    BY DEF IInv, TypeOK
  <2>2. /\ \A i \in 1..Len(wire[z]) : wire[z][i] \in Byte
        /\ \A i \in 1..Len(taken[z]) : taken[z][i] \in Byte
    BY <2>1
  <2> QED
    BY <2>2 DEF Byte
<1>11. \A z \in Sessions : (handler'[z] = "replying") => Len(done'[z]) >= 1
  BY <1>1, <1>5, <1>6 DEF Handle, IInv, TypeOK, InFlight
<1>12. InFlight'
  BY <1>9, <1>10, <1>11 DEF Handle, reader, IInv, InFlight
<1> QED
  BY <1>8, <1>12 DEF IInv

\* An answer is written: its bytes carry the last answer given (write_message).
LEMMA RespondKeepsInv ==
    ASSUME IInv, NEW s \in Sessions, Respond(s)
    PROVE  IInv'
<1>1. RegistryTypeOK'
  BY DEF Respond, registry, IInv, TypeOK, RegistryTypeOK
<1>2. CASE session[s] = "gone"
  <2>1. wire' = wire
    BY <1>2 DEF Respond
  <2>2. TypeOK'
    BY <1>1, <2>1 DEF Respond, history, IInv, TypeOK
  <2>3. InFlight'
    BY <2>1 DEF Respond, IInv, TypeOK, InFlight, Given
  <2> QED
    BY <2>2, <2>3 DEF IInv
<1>3. CASE session[s] # "gone"
  <2> DEFINE Reply(n) == [id |-> Len(done[s]), result |-> done[s][Len(done[s])],
                          size |-> n]
  <2>1. PICK n \in PayloadSizes : wire' = [wire EXCEPT ![s] = wire[s] \o Frame(Reply(n))]
    BY <1>3 DEF Respond
  <2> DEFINE m == Reply(n)
             f == Frame(m)
  <2>2. /\ done[s] \in Seq(Answers) /\ Len(done[s]) \in 1..MaxCalls
        /\ wire[s] \in Seq(Byte)
    BY FramingAssumption DEF Respond, IInv, TypeOK, InFlight
  <2>3. m \in Message /\ Given(s, m)
    BY <2>2 DEF Message, Given
  <2>4. f \in Seq(Byte) /\ \A i \in 1..Len(f) : f[i].of = m
    <3>1. m.size \in Nat /\ HeaderBytes + m.size \in Nat
      BY FramingAssumption
    <3> HIDE DEF m
    <3>2. f = [i \in 1..(HeaderBytes + m.size) |-> [of |-> m, at |-> i]]
      BY DEF Frame
    <3>3. \A i \in 1..(HeaderBytes + m.size) : [of |-> m, at |-> i] \in Byte
      BY <2>3, <3>1 DEF Byte
    <3> QED
      BY <3>1, <3>2, <3>3
  <2> HIDE DEF f, m
  <2>5. /\ wire[s] \o f \in Seq(Byte)
        /\ \A i \in 1..Len(wire[s] \o f) : Given(s, (wire[s] \o f)[i].of)
    <3>1. \A i \in 1..Len(wire[s]) : Given(s, wire[s][i].of)
      BY DEF IInv, InFlight
    <3> QED
      BY <2>2, <2>3, <2>4, <3>1
  <2>6. wire' = [wire EXCEPT ![s] = wire[s] \o f]
    BY <2>1 DEF f, m
  <2>7. wire' \in [Sessions -> Seq(Byte)]
    BY <2>5, <2>6 DEF IInv, TypeOK
  <2>8. \A z \in Sessions : \A i \in 1..Len(wire'[z]) : Given(z, wire'[z][i].of)
    <3> TAKE z \in Sessions
    <3>1. CASE z = s
      BY <2>5, <2>6, <3>1 DEF IInv, TypeOK
    <3>2. CASE z # s
      BY <2>6, <3>2 DEF IInv, TypeOK, InFlight
    <3> QED
      BY <3>1, <3>2
  <2>9. TypeOK'
    BY <1>1, <2>7 DEF Respond, history, IInv, TypeOK
  <2>10. InFlight'
    BY <2>8 DEF Respond, IInv, TypeOK, InFlight, Given
  <2> QED
    BY <2>9, <2>10 DEF IInv
<1> QED
  BY <1>2, <1>3

\* The steps of read_message, and the ends of send_request_and_wait.
LEMMA ReadKeepsInv ==
    ASSUME IInv, NEW s \in Sessions,
           \/ ReadByte(s) \/ ReadLength(s) \/ ReadMessage(s)
           \/ Timeout(s) \/ ReadLost(s)
    PROVE  IInv'
<1>1. \A why \in {"timeout", "broken", "lost"} :
          [failed |-> why] \in Answers \cup Failures
  BY DEF Failures
<1>2. CASE ReadByte(s)
  <2>1. want' \in [Sessions -> Nat]
    BY <1>2 DEF ReadByte, IInv, TypeOK
  <2> QED
    BY <1>2, <2>1, KeepKeepsInv DEF ReadByte
<1>3. CASE ReadLength(s)
  <2>1. Take(s) /\ Waiting(s)
    BY <1>3 DEF ReadLength, Take
  <2>2. PICK n \in LengthsRead(Bytes(s)[1]) :
            \/ n = 0 /\ Failed(s, "broken")
            \/ n > 0 /\ want' = [want EXCEPT ![s] = n] /\ Keep(s)
    BY <1>3 DEF ReadLength
  <2>3. CASE n = 0 /\ Failed(s, "broken")
    BY <1>1, <2>1, <2>3, TakeTyped, EndKeepsInv DEF Failed
  <2>4. CASE n > 0 /\ want' = [want EXCEPT ![s] = n] /\ Keep(s)
    <3>1. Bytes(s)[1] \in Byte
      <4>1. Bytes(s) \in Seq(Byte) /\ Len(Bytes(s)) >= 1
        BY <2>1, TakeTyped
      <4> QED
        BY <4>1
    <3>2. Bytes(s)[1].at \in Nat \ {0} /\ Bytes(s)[1].of.size \in Nat
      BY <3>1, FramingAssumption DEF Byte, Message
    <3>3. n \in Nat
      <4>1. CASE Bytes(s)[1].at = 1
        BY <3>2, <4>1 DEF LengthsRead
      <4>2. CASE Bytes(s)[1].at # 1 /\ Bytes(s)[1].at \in 2..HeaderBytes
        BY <4>2, FramingAssumption DEF LengthsRead
      <4>3. CASE Bytes(s)[1].at # 1 /\ Bytes(s)[1].at > HeaderBytes
        BY <4>3, <3>2, FramingAssumption DEF LengthsRead
      <4> QED
        BY <3>2, <4>1, <4>2, <4>3, FramingAssumption
    <3>4. want' \in [Sessions -> Nat]
      BY <2>4, <3>3 DEF IInv, TypeOK
    <3> QED
      BY <2>1, <2>4, <3>4, KeepKeepsInv
  <2> QED
    BY <2>2, <2>3, <2>4
<1>4. CASE ReadMessage(s)
  <2> DEFINE m == Bytes(s)[1].of
  <2>1. Take(s) /\ Waiting(s)
    BY <1>4 DEF ReadMessage, Take
  <2>2. /\ wire' \in [Sessions -> Seq(Byte)]
        /\ \A z \in Sessions : \A i \in 1..Len(wire'[z]) : Given(z, wire'[z][i].of)
    BY <2>1, TakeTyped
  <2>3. CASE Failed(s, "broken")
    BY <1>1, <2>1, <2>2, <2>3, EndKeepsInv DEF Failed
  <2>4. CASE End(s, m.result)
    <3>1. Bytes(s)[1] \in Byte
      <4>1. Bytes(s) \in Seq(Byte) /\ Len(Bytes(s)) >= 1
        BY <2>1, TakeTyped
      <4> QED
        BY <4>1
    <3>2. m.result \in Answers
      BY <3>1 DEF Byte, Message
    <3> QED
      BY <2>1, <2>2, <2>4, <3>2, EndKeepsInv
  <2>5. CASE /\ taken' = [taken EXCEPT ![s] = <<>>]
             /\ want' = [want EXCEPT ![s] = 0]
             /\ UNCHANGED <<remote, session, calls, outcome, history>>
    <3>1. /\ taken' \in [Sessions -> Seq(Byte)]
          /\ want' \in [Sessions -> Nat]
          /\ \A z \in Sessions : taken'[z] = <<>> \/ taken'[z] = taken[z]
      BY <2>5 DEF IInv, TypeOK
    <3>2. RegistryTypeOK'
      BY <2>5 DEF remote, registry, IInv, TypeOK, RegistryTypeOK
    <3>3. TypeOK'
      BY <2>2, <2>5, <3>1, <3>2 DEF remote, IInv, TypeOK
    <3>4. \A z \in Sessions : \A i \in 1..Len(taken'[z]) : Given(z, taken'[z][i].of)
      BY <3>1 DEF IInv, InFlight
    <3>5. handler' = handler /\ done' = done
      BY <2>5 DEF remote
    <3>6. InFlight'
      BY <2>2, <3>4, <3>5 DEF IInv, InFlight, Given
    <3> QED
      BY <3>3, <3>6 DEF IInv
  <2>6. \/ Failed(s, "broken")
        \/ End(s, m.result)
        \/ /\ taken' = [taken EXCEPT ![s] = <<>>]
           /\ want' = [want EXCEPT ![s] = 0]
           /\ UNCHANGED <<remote, session, calls, outcome, history>>
    BY <1>4, Zenon DEF ReadMessage
  <2> QED
    BY <2>3, <2>4, <2>5, <2>6
<1>5. CASE Timeout(s)
  <2>1. /\ Waiting(s) /\ End(s, [failed |-> "timeout"])
        /\ wire' = wire
    BY <1>5 DEF Timeout, Failed
  <2>2. /\ wire' \in [Sessions -> Seq(Byte)]
        /\ \A z \in Sessions : \A i \in 1..Len(wire'[z]) : Given(z, wire'[z][i].of)
    BY <2>1 DEF IInv, TypeOK, InFlight
  <2> QED
    BY <1>1, <2>1, <2>2, EndKeepsInv
<1>6. CASE ReadLost(s)
  <2>1. /\ Waiting(s) /\ End(s, [failed |-> "lost"])
        /\ wire' = [wire EXCEPT ![s] = <<>>]
    BY <1>6 DEF ReadLost, Failed
  <2>2. /\ wire' \in [Sessions -> Seq(Byte)]
        /\ \A z \in Sessions : wire'[z] = <<>> \/ wire'[z] = wire[z]
    BY <2>1 DEF IInv, TypeOK
  <2>3. \A z \in Sessions : \A i \in 1..Len(wire'[z]) : Given(z, wire'[z][i].of)
    BY <2>2 DEF IInv, InFlight
  <2> QED
    BY <1>1, <2>1, <2>2, <2>3, EndKeepsInv
<1> QED
  BY <1>2, <1>3, <1>4, <1>5, <1>6

\* The remote goes down: no byte changes, every task is gone.
LEMMA RemoteRestartKeepsInv ==
    ASSUME IInv, RemoteRestart
    PROVE  IInv'
<1>1. RegistryTypeOK'
  BY RestartKeepsTypes DEF RemoteRestart, IInv, TypeOK
<1>2. TypeOK'
  BY <1>1 DEF RemoteRestart, reader, IInv, TypeOK
<1>3. InFlight'
  BY DEF RemoteRestart, reader, IInv, TypeOK, InFlight, Given
<1> QED
  BY <1>2, <1>3 DEF IInv

\* Every step keeps the invariant.
LEMMA StepKeepsInv == IInv /\ [Next]_vars => IInv'
<1> SUFFICES ASSUME IInv, [Next]_vars PROVE IInv'
  OBVIOUS
<1>1. CASE UNCHANGED vars
  <2>1. RegistryTypeOK'
    BY <1>1 DEF vars, remote, registry, IInv, TypeOK, RegistryTypeOK
  <2>2. TypeOK'
    BY <1>1, <2>1 DEF vars, remote, reader, IInv, TypeOK
  <2>3. InFlight'
    BY <1>1 DEF vars, remote, reader, IInv, InFlight, Given
  <2> QED
    BY <2>2, <2>3 DEF IInv
<1>2. CASE RemoteRestart
  BY <1>2, RemoteRestartKeepsInv
<1>3. ASSUME NEW s \in Sessions,
             \/ Connect(s)
             \/ \E r \in Commands : Issue(s, r)
             \/ Timeout(s)
             \/ ReadByte(s) \/ ReadLength(s) \/ ReadMessage(s)
             \/ ReadLost(s)
             \/ Quit(s)
             \/ Handle(s) \/ Respond(s) \/ Close(s)
      PROVE  IInv'
  BY <1>3, MasterKeepsInv, ReadKeepsInv, HandleKeepsInv, RespondKeepsInv
<1> QED
  BY <1>1, <1>2, <1>3 DEF Next

\* Types are kept, for any number of sessions and any sizes; every answer in
\* flight was given by the remote (src/bin/master.rs, src/bin/remote.rs).
THEOREM TypeCorrect == Spec => []TypeOK
<1>1. IInv => TypeOK
  BY DEF IInv
<1> QED
  BY <1>1, InitInv, StepKeepsInv, PTL DEF Spec

-----------------------------------------------------------------------------
(* Refinement.                                                             *)

\* A command that ends with a failure is given up.
LEMMA FailureGivesUp ==
    ASSUME NEW s \in Sessions, Waiting(s),
           NEW why \in {"timeout", "broken", "lost"}, Failed(s, why)
    PROVE  RPC!Next
<1>1. [failed |-> why] \in Failures
  BY DEF Failures
<1>2. /\ outcome' = [outcome EXCEPT ![s] = Append(@, [failed |-> why])]
      /\ calls' = calls /\ done' = done
  BY DEF Failed, End, remote
<1>3. RPC!GiveUp(s, [failed |-> why])
  BY <1>2 DEF RPC!GiveUp, RPC!Waiting, Waiting
<1> QED
  BY <1>1, <1>3 DEF RPC!Next

\* The message a waiting command takes for its answer is the answer to the
\* last command, the one that waits: its id is that command's, and every byte
\* of it belongs to an answer given.
LEMMA AnswerIsLast ==
    ASSUME IInv, NEW s \in Sessions, Take(s), IsReplyTo(s, Bytes(s)[1].of)
    PROVE  /\ Len(done[s]) = Len(calls[s]) /\ Len(done[s]) \in Nat \ {0}
           /\ Bytes(s)[1].of.result = done[s][Len(calls[s])]
           /\ done[s][Len(calls[s])] \in Answers
<1> DEFINE m == Bytes(s)[1].of
<1>1. Given(s, m) /\ m \in Message
  <2>1. Bytes(s) \in Seq(Byte) /\ Len(Bytes(s)) >= 1
        /\ \A i \in 1..Len(Bytes(s)) : Given(s, Bytes(s)[i].of)
    BY TakeTyped
  <2>2. 1 \in 1..Len(Bytes(s)) /\ Bytes(s)[1] \in Byte
    BY <2>1
  <2> QED
    BY <2>1, <2>2 DEF Byte
<1>2. /\ m.id = Len(calls[s]) /\ m.id <= Len(done[s])
      /\ m.result = done[s][m.id]
  BY <1>1 DEF Given, IsReplyTo
<1>3. /\ Len(done[s]) <= Len(calls[s])
      /\ Len(done[s]) \in Nat /\ Len(calls[s]) \in Nat
  BY DEF IInv, TypeOK
<1>4. m.id \in 1..MaxCalls /\ m.result \in Answers
  BY <1>1 DEF Message
<1> HIDE DEF m
<1>5. Len(done[s]) = Len(calls[s]) /\ m.result = done[s][Len(calls[s])]
  BY <1>2, <1>3
<1>6. Len(done[s]) # 0
  BY <1>2, <1>4, <1>5, FramingAssumption
<1> QED
  BY <1>3, <1>4, <1>5, <1>6 DEF m

\* So the answer that ends a command is the one its own execution gave.
LEMMA AnswerReturns ==
    ASSUME IInv, NEW s \in Sessions, Take(s),
           IsReplyTo(s, Bytes(s)[1].of), End(s, Bytes(s)[1].of.result)
    PROVE  RPC!Next
<1> DEFINE o == Bytes(s)[1].of.result
<1>1. Len(done[s]) = Len(calls[s]) /\ o = done[s][Len(calls[s])]
  BY AnswerIsLast
<1>2. /\ Waiting(s)
      /\ outcome' = [outcome EXCEPT ![s] = Append(@, o)]
      /\ calls' = calls /\ done' = done
  BY DEF Take, End, remote
<1> HIDE DEF o
<1>3. RPC!Return(s)
  BY <1>1, <1>2 DEF RPC!Return, RPC!Waiting, Waiting
<1> QED
  BY <1>3 DEF RPC!Next

\* Every step of the sessions is a step of RequestReply, or none.
LEMMA StepRefines == IInv /\ [Next]_vars => [RPC!Next]_RPC!vars
<1> SUFFICES ASSUME IInv, [Next]_vars PROVE [RPC!Next]_RPC!vars
  OBVIOUS
<1>1. ASSUME calls' = calls, done' = done, outcome' = outcome
      PROVE  RPC!vars' = RPC!vars
  BY <1>1 DEF RPC!vars
<1>2. CASE UNCHANGED vars
  BY <1>1, <1>2 DEF vars, remote
<1>3. CASE RemoteRestart
  BY <1>1, <1>3 DEF RemoteRestart
<1>4. ASSUME NEW s \in Sessions,
             Connect(s) \/ Quit(s) \/ ReadByte(s) \/ Respond(s) \/ Close(s)
      PROVE  RPC!vars' = RPC!vars
  BY <1>1, <1>4 DEF Connect, Quit, ReadByte, Keep, Respond, Close, remote
<1>5. ASSUME NEW s \in Sessions, NEW r \in Commands, Issue(s, r)
      PROVE  RPC!Next
  <2>1. RPC!Call(s, r)
    BY <1>5 DEF Issue, remote, RPC!Call, RPC!Waiting, Waiting
  <2> QED
    BY <2>1 DEF RPC!Next
<1>6. ASSUME NEW s \in Sessions, Timeout(s) \/ ReadLost(s)
      PROVE  RPC!Next
  BY <1>6, FailureGivesUp DEF Timeout, ReadLost
<1>7. ASSUME NEW s \in Sessions, ReadLength(s)
      PROVE  RPC!Next \/ RPC!vars' = RPC!vars
  <2>1. Waiting(s)
    BY <1>7 DEF ReadLength, Take
  <2>2. Failed(s, "broken") \/ Keep(s)
    BY <1>7 DEF ReadLength
  <2>3. CASE Failed(s, "broken")
    BY <2>1, <2>3, FailureGivesUp
  <2>4. CASE Keep(s)
    BY <1>1, <2>4 DEF Keep, remote
  <2> QED
    BY <2>2, <2>3, <2>4
<1>8. ASSUME NEW s \in Sessions, ReadMessage(s)
      PROVE  RPC!Next \/ RPC!vars' = RPC!vars
  <2>1. Take(s) /\ Waiting(s)
    BY <1>8 DEF ReadMessage, Take
  <2>2. \/ Failed(s, "broken")
        \/ /\ IsReplyTo(s, Bytes(s)[1].of)
           /\ End(s, Bytes(s)[1].of.result)
        \/ UNCHANGED <<remote, session, calls, outcome, history>>
    BY <1>8, Zenon DEF ReadMessage
  <2>3. CASE Failed(s, "broken")
    BY <2>1, <2>3, FailureGivesUp
  <2>4. CASE IsReplyTo(s, Bytes(s)[1].of) /\ End(s, Bytes(s)[1].of.result)
    BY <2>1, <2>4, AnswerReturns
  <2>5. CASE UNCHANGED <<remote, session, calls, outcome, history>>
    BY <1>1, <2>5 DEF remote
  <2> QED
    BY <2>2, <2>3, <2>4, <2>5
<1>9. ASSUME NEW s \in Sessions, Handle(s)
      PROVE  RPC!Next
  <2> DEFINE r == calls[s][Len(done[s]) + 1]
  <2>1. /\ Execute(r) /\ done' = [done EXCEPT ![s] = Append(@, Answer(r))]
        /\ Len(done[s]) < Len(calls[s])
        /\ calls' = calls /\ outcome' = outcome
    BY <1>9 DEF Handle
  <2>2. r \in Commands
    <3>1. calls[s] \in Seq(Commands) /\ Len(done[s]) \in Nat
      BY DEF IInv, TypeOK
    <3> QED
      BY <2>1, <3>1
  <2>3. Answer(r) \in Answers
    BY <2>1, <2>2, CommandsAssumption, AnswersAreAnswers DEF IInv, TypeOK
  <2> HIDE DEF r
  <2>4. RPC!Perform(s, Answer(r))
    BY <2>1 DEF RPC!Perform
  <2> QED
    BY <2>3, <2>4 DEF RPC!Next
<1> QED
  BY <1>2, <1>3, <1>4, <1>5, <1>6, <1>7, <1>8, <1>9 DEF Next

\* The sessions implement RequestReply: a command is executed at most once
\* and in order, and the answer that ends it is its own execution's, however
\* timeouts cut the stream (send_request_and_wait, handle_connection).
THEOREM RequestReplyImplemented == Spec => ImplementsRequestReply
<1>1. Init => RPC!Init
  BY DEF Init, RPC!Init
<1> QED
  BY <1>1, InitInv, StepKeepsInv, StepRefines, PTL
     DEF Spec, ImplementsRequestReply, RPC!Spec

-----------------------------------------------------------------------------
(* The numbering of tests.                                                 *)

\* A step of the sessions keeps the tests, unless the remote is restarted.
LEMMA StepKeepsTests ==
    ASSUME IInv, TestsCounted, [Next]_vars
    PROVE  TestsCounted' /\ (restarts' = restarts => TestsKept)
<1>1. CASE UNCHANGED registry
  BY <1>1 DEF registry, TestsCounted, TestsKept
<1>2. CASE RemoteRestart
  <2>1. /\ restarts' = restarts + 1 /\ restarts \in Nat
        /\ \A t \in TestId : tests'[t] = None
    BY <1>2, RegistryBounds DEF RemoteRestart, Restart, IInv, TypeOK, RegistryTypeOK
  <2> QED
    BY <2>1 DEF TestsCounted
<1>3. ASSUME NEW s \in Sessions, Handle(s)
      PROVE  TestsCounted' /\ TestsKept
  <2> DEFINE r == calls[s][Len(done[s]) + 1]
  <2>1. calls[s] \in Seq(Commands) /\ Len(done[s]) \in Nat
    BY DEF IInv, TypeOK
  <2>2. r \in Commands /\ Execute(r)
    BY <1>3, <2>1 DEF Handle
  <2> HIDE DEF r
  <2> QED
    BY <2>2, ExecuteKeepsTests DEF IInv, TypeOK
<1>4. ASSUME NEW s \in Sessions,
             \/ Connect(s)
             \/ \E r \in Commands : Issue(s, r)
             \/ Timeout(s)
             \/ ReadByte(s) \/ ReadLength(s) \/ ReadMessage(s)
             \/ ReadLost(s)
             \/ Quit(s)
             \/ Respond(s) \/ Close(s)
      PROVE  UNCHANGED registry
  BY <1>4 DEF Connect, Issue, Timeout, ReadByte, ReadLength, ReadMessage, ReadLost,
              Quit, Respond, Close, Failed, End, Keep, remote
<1> QED
  BY <1>1, <1>2, <1>3, <1>4 DEF Next, vars, remote

\* No start takes the number of a test the remote has, and no abort is undone,
\* until the remote is restarted (handle_test_start, handle_test_abort).
THEOREM TestsNeverReborn == Spec => NoTestReborn
<1>1. Init => TestsCounted
  BY DEF Init, RegistryInit, TestsCounted
<1>2. IInv /\ TestsCounted /\ [Next]_vars => TestsCounted'
  BY StepKeepsTests
<1>3. IInv /\ TestsCounted /\ [Next]_vars =>
          [restarts' = restarts =>
              \A t \in TestId : tests[t] # None =>
                  /\ tests'[t] # None
                  /\ tests[t].ended => tests'[t].ended]_registry
  BY StepKeepsTests DEF TestsKept
<1> QED
  BY <1>1, <1>2, <1>3, InitInv, StepKeepsInv, PTL DEF Spec, NoTestReborn
===============================================================================
