----------------------------- MODULE FramingProofs -----------------------------
(***************************************************************************)
(* The framing of ControlSession: as long as no read of a session has been *)
(* dropped, what read_message has taken and what is still on the wire are  *)
(* whole frames, and the reader stands in the first of them.  So only a    *)
(* timeout can make a later command of the session fail on a frame.        *)
(***************************************************************************)
EXTENDS ControlSessionProofs

-----------------------------------------------------------------------------
(* Whole frames, position by position: write_message writes nothing else.  *)

FrameLength(m) == HeaderBytes + m.size

\* A stream of bytes that begins with a frame, goes on with the next byte of
\* the frame it is in, begins another where one ends, and ends with one.
Framed(b) ==
    /\ b # <<>> => b[1].at = 1
    /\ \A i \in 1..Len(b) :
        /\ b[i].at <= FrameLength(b[i].of)
        /\ b[i].at < FrameLength(b[i].of) =>
               i < Len(b) /\ b[i + 1] = [of |-> b[i].of, at |-> b[i].at + 1]
        /\ b[i].at = FrameLength(b[i].of) /\ i < Len(b) => b[i + 1].at = 1

\* What read_message has taken, t, and the length it has read, n: the first
\* bytes of one frame, and no length before its prefix is complete.
Begun(t, n) ==
    /\ \A i \in 1..Len(t) : t[i] = [of |-> t[1].of, at |-> i]
    /\ \/ n = 0 /\ Len(t) < HeaderBytes
       \/ /\ n > 0 /\ HeaderBytes <= Len(t)
          /\ n = t[1].of.size /\ Len(t) < HeaderBytes + n

\* No read of the session has been dropped.
Undropped(s) ==
    \A i \in 1..Len(outcome[s]) : outcome[s][i] # [failed |-> "timeout"]

InStep(s) == Framed(taken[s] \o wire[s]) /\ Begun(taken[s], want[s])

FramingInv == \A s \in Sessions : Undropped(s) => InStep(s)

\* The length of a message's frame: a prefix and at least one byte.
LEMMA FrameLengths ==
    ASSUME NEW m \in Message
    PROVE  /\ m.size \in Nat /\ m.size >= 1
           /\ HeaderBytes \in Nat /\ HeaderBytes >= 1
           /\ FrameLength(m) \in Nat /\ FrameLength(m) > HeaderBytes
           /\ FrameLength(m) = HeaderBytes + m.size
<1>1. m.size \in PayloadSizes
  BY DEF Message
<1> DEFINE n == m.size
<1> HIDE DEF n
<1>2. n \in Nat \ {0} /\ HeaderBytes \in Nat \ {0}
  BY <1>1, FramingAssumption DEF n
<1>3. FrameLength(m) = HeaderBytes + m.size
  BY DEF FrameLength
<1>4. n \in Nat /\ n >= 1 /\ HeaderBytes \in Nat /\ HeaderBytes >= 1
  BY <1>2
<1> QED
  BY <1>3, <1>4 DEF n

\* No bytes are whole frames, and are the beginning of one.
LEMMA NoBytes == Framed(<<>>) /\ Begun(<<>>, 0)
<1>1. Len(<<>>) = 0 /\ 0 < HeaderBytes
  BY FramingAssumption
<1> QED
  BY <1>1 DEF Framed, Begun

\* What is left of whole frames after some of them is whole frames.
LEMMA FramedRest ==
    ASSUME NEW c \in Seq(Byte), NEW w \in Seq(Byte), Framed(c \o w),
           w # <<>> => w[1].at = 1
    PROVE  Framed(w)
<1>1. /\ Len(c) \in Nat /\ Len(w) \in Nat /\ Len(c \o w) = Len(c) + Len(w)
      /\ \A i \in 1..Len(w) : (c \o w)[Len(c) + i] = w[i]
  OBVIOUS
<1>2. ASSUME NEW i \in 1..Len(w)
      PROVE  /\ w[i].at <= FrameLength(w[i].of)
             /\ w[i].at < FrameLength(w[i].of) =>
                    i < Len(w) /\ w[i + 1] = [of |-> w[i].of, at |-> w[i].at + 1]
             /\ w[i].at = FrameLength(w[i].of) /\ i < Len(w) => w[i + 1].at = 1
  <2> DEFINE b == c \o w
             k == Len(c) + i
  <2>1. k \in 1..Len(b) /\ b[k] = w[i] /\ (k < Len(b) <=> i < Len(w))
    BY <1>1
  <2>2. i < Len(w) => b[k + 1] = w[i + 1]
    <3>1. i < Len(w) => i + 1 \in 1..Len(w) /\ k + 1 = Len(c) + (i + 1)
      BY <1>1
    <3> QED
      BY <1>1, <3>1
  <2>3. /\ b[k].at <= FrameLength(b[k].of)
        /\ b[k].at < FrameLength(b[k].of) =>
               k < Len(b) /\ b[k + 1] = [of |-> b[k].of, at |-> b[k].at + 1]
        /\ b[k].at = FrameLength(b[k].of) /\ k < Len(b) => b[k + 1].at = 1
    BY <2>1 DEF Framed
  <2> HIDE DEF b, k
  <2> QED
    BY <2>1, <2>2, <2>3
<1> QED
  BY <1>2 DEF Framed

\* write_message appends a whole frame.
LEMMA FramedWrite ==
    ASSUME NEW b \in Seq(Byte), Framed(b), NEW m \in Message
    PROVE  Framed(b \o Frame(m))
<1> DEFINE f == Frame(m)
           L == FrameLength(m)
           c == b \o f
<1>1. L \in Nat /\ L > HeaderBytes /\ HeaderBytes \in Nat /\ HeaderBytes >= 1
  BY FrameLengths
<1>2. /\ Len(f) = L /\ \A i \in 1..L : f[i] = [of |-> m, at |-> i]
      /\ f \in Seq(Byte)
  <2>1. f = [i \in 1..L |-> [of |-> m, at |-> i]]
    BY DEF Frame, FrameLength
  <2> HIDE DEF L, f
  <2>2. \A i \in 1..L : [of |-> m, at |-> i] \in Byte
    BY <1>1 DEF Byte
  <2> QED
    BY <1>1, <2>1, <2>2
<1> HIDE DEF f
<1>3. /\ Len(b) \in Nat /\ Len(c) = Len(b) + L
      /\ \A i \in 1..Len(b) : c[i] = b[i]
      /\ \A i \in 1..L : c[Len(b) + i] = f[i]
  <2> HIDE DEF L
  <2>1. /\ Len(b) \in Nat /\ Len(f) \in Nat /\ Len(b \o f) = Len(b) + Len(f)
        /\ \A i \in 1..Len(b) : (b \o f)[i] = b[i]
        /\ \A i \in 1..Len(f) : (b \o f)[Len(b) + i] = f[i]
    <3>1. f \in Seq(Byte)
      BY <1>2
    <3> QED
      BY <3>1
  <2>2. Len(f) = L
    BY <1>2
  <2> QED
    BY <2>1, <2>2
<1> HIDE DEF c
<1>4. c[1].at = 1
  <2>1. CASE b = <<>>
    <3>1. Len(b) = 0
      BY <2>1
    <3>2. c[1] = f[1] /\ 1 \in 1..L
      BY <1>1, <1>3, <3>1
    <3> QED
      BY <1>2, <3>2
  <2>2. CASE b # <<>>
    <3>1. 1 \in 1..Len(b)
      BY <1>3, <2>2
    <3> QED
      BY <1>3, <2>2, <3>1 DEF Framed
  <2> QED
    BY <2>1, <2>2
<1>5. ASSUME NEW i \in 1..Len(c)
      PROVE  /\ c[i].at <= FrameLength(c[i].of)
             /\ c[i].at < FrameLength(c[i].of) =>
                    i < Len(c) /\ c[i + 1] = [of |-> c[i].of, at |-> c[i].at + 1]
             /\ c[i].at = FrameLength(c[i].of) /\ i < Len(c) => c[i + 1].at = 1
  <2>1. CASE i < Len(b)
    <3>1. c[i] = b[i] /\ c[i + 1] = b[i + 1] /\ i \in 1..Len(b) /\ i < Len(c)
      BY <1>1, <1>3, <2>1
    <3> QED
      BY <2>1, <3>1 DEF Framed
  <2>2. CASE i = Len(b)
    <3>1. c[i] = b[i] /\ i \in 1..Len(b) /\ ~(i < Len(b))
      BY <1>1, <1>3, <2>2
    <3>2. c[i + 1] = f[1] /\ f[1].at = 1
      BY <1>1, <1>2, <1>3, <2>2
    <3>3. ~(b[i].at < FrameLength(b[i].of)) /\ b[i].at <= FrameLength(b[i].of)
      BY <3>1 DEF Framed
    <3> QED
      BY <3>1, <3>2, <3>3
  <2>3. CASE i > Len(b)
    <3>1. PICK j \in 1..L : i = Len(b) + j
      <4>1. i - Len(b) \in 1..L /\ i = Len(b) + (i - Len(b))
        BY <1>1, <1>3, <2>3
      <4> QED
        BY <4>1
    <3>2. c[i] = [of |-> m, at |-> j]
      BY <1>2, <1>3, <3>1
    <3>3. c[i].of = m /\ c[i].at = j
      BY <3>2
    <3>4. i < Len(c) <=> j < L
      BY <1>1, <1>3, <3>1
    <3>5. j < L => c[i + 1] = [of |-> m, at |-> j + 1]
      <4>1. j < L => j + 1 \in 1..L /\ i + 1 = Len(b) + (j + 1)
        BY <1>1, <1>3, <3>1
      <4> QED
        BY <1>2, <1>3, <4>1
    <3> QED
      BY <1>1, <3>3, <3>4, <3>5
  <2> QED
    BY <1>1, <1>3, <2>1, <2>2, <2>3
<1>6. Framed(c)
  BY <1>4, <1>5 DEF Framed
<1> QED
  BY <1>6 DEF c, f

-----------------------------------------------------------------------------
(* The reader: t is what it has taken, w what is on the wire.              *)

\* The byte that is taken next is the next one of the frame being read, and
\* the stream stays what it is (read_exact).
LEMMA NextByte ==
    ASSUME NEW t \in Seq(Byte), NEW w \in Seq(Byte), NEW n \in Nat, w # <<>>,
           Framed(t \o w), Begun(t, n)
    PROVE  LET c == Append(t, Head(w)) IN
           /\ c \in Seq(Byte) /\ Tail(w) \in Seq(Byte)
           /\ Len(t) \in Nat /\ Len(c) = Len(t) + 1
           /\ Framed(c \o Tail(w))
           /\ c[1] \in Byte /\ c[1].at = 1
           /\ t # <<>> => c[1] = t[1]
           /\ \A i \in 1..Len(c) : c[i] = [of |-> c[1].of, at |-> i]
           /\ Len(c) <= FrameLength(c[1].of)
<1> DEFINE b == t \o w
           k == Len(t)
           c == Append(t, Head(w))
<1>1. /\ Len(w) \in Nat /\ Len(w) >= 1 /\ Head(w) = w[1] /\ Head(w) \in Byte
      /\ Tail(w) \in Seq(Byte) /\ Len(Tail(w)) = Len(w) - 1
      /\ \A i \in 1..Len(Tail(w)) : Tail(w)[i] = w[i + 1]
  OBVIOUS
<1>2. /\ c \in Seq(Byte) /\ Len(c) = k + 1 /\ k \in Nat
      /\ \A i \in 1..k : c[i] = t[i] /\ c[k + 1] = Head(w)
      /\ c[k + 1] = Head(w)
  BY <1>1
<1>3. c \o Tail(w) = b
  <2>1. w = <<Head(w)>> \o Tail(w)
    BY <1>1, HeadTailProperties
  <2>2. Append(t, Head(w)) = t \o <<Head(w)>>
    BY <1>1, AppendIsConcat
  <2>3. <<Head(w)>> \in Seq(Byte)
    BY <1>1
  <2>4. (t \o <<Head(w)>>) \o Tail(w) = t \o (<<Head(w)>> \o Tail(w))
    BY <1>1, <2>3, ConcatAssociative
  <2> QED
    BY <2>1, <2>2, <2>4
<1> HIDE DEF c
<1>4. /\ Len(b) \in Nat /\ Len(b) = k + Len(w)
      /\ \A i \in 1..k : b[i] = t[i]
      /\ b[k + 1] = Head(w)
  <2>1. 1 \in 1..Len(w)
    BY <1>1
  <2> QED
    BY <1>1, <2>1
<1>5. CASE t = <<>>
  <2>1. k = 0 /\ c[1] = Head(w) /\ b[1] = Head(w) /\ Len(c) = 1
    BY <1>2, <1>4, <1>5
  <2>2. b # <<>>
    BY <1>1, <1>4
  <2>3. c[1].at = 1 /\ c[1] \in Byte
    BY <1>1, <2>1, <2>2 DEF Framed
  <2> HIDE DEF b, k
  <2>4. c[1] = [of |-> c[1].of, at |-> 1] /\ c[1].of \in Message
    BY <2>3 DEF Byte
  <2>5. Len(c) <= FrameLength(c[1].of)
    BY <2>1, <2>4, FrameLengths
  <2>6. \A i \in 1..Len(c) : c[i] = [of |-> c[1].of, at |-> i]
    <3> TAKE i \in 1..Len(c)
    <3>1. i = 1
      BY <2>1
    <3> QED
      BY <2>4, <3>1
  <2> QED
    BY <1>1, <1>2, <1>3, <1>5, <2>3, <2>5, <2>6 DEF b, k, c
<1>6. CASE t # <<>>
  <2>1. k >= 1 /\ k \in 1..k /\ k \in 1..Len(b) /\ 1 \in 1..k
    BY <1>1, <1>2, <1>4, <1>6
  <2> DEFINE m == t[1].of
  <2>2. t[1] \in Byte /\ t[1] = [of |-> m, at |-> 1] /\ t[k] = [of |-> m, at |-> k]
    BY <2>1 DEF Begun
  <2>3. m \in Message
    BY <2>2 DEF Byte
  <2>4. k < FrameLength(m)
    BY <1>2, <2>3, FrameLengths DEF Begun
  <2>5. b[k].of = m /\ b[k].at = k
    BY <1>4, <2>1, <2>2
  <2>6. b[k + 1] = [of |-> m, at |-> k + 1]
    <3>1. b[k].at < FrameLength(b[k].of) =>
              k < Len(b) /\ b[k + 1] = [of |-> b[k].of, at |-> b[k].at + 1]
      BY <2>1 DEF Framed
    <3> HIDE DEF b, k, m
    <3> QED
      BY <2>4, <2>5, <3>1
  <2>7. c[1] = t[1]
    BY <1>2, <2>1
  <2>8. \A i \in 1..k : c[i] = [of |-> m, at |-> i]
    BY <1>2, <2>1 DEF Begun
  <2>9. c[k + 1] = [of |-> m, at |-> k + 1]
    BY <1>2, <1>4, <2>6
  <2> HIDE DEF m, b, k
  <2>10. \A i \in 1..Len(c) : c[i] = [of |-> m, at |-> i]
    <3> TAKE i \in 1..Len(c)
    <3>1. i \in 1..k \/ i = k + 1
      BY <1>2
    <3> QED
      BY <2>8, <2>9, <3>1
  <2>11. c[1] \in Byte /\ c[1].of = m /\ c[1].at = 1
    BY <2>2, <2>7 DEF m
  <2>12. Len(c) <= FrameLength(m)
    BY <1>2, <2>3, <2>4, FrameLengths
  <2> QED
    BY <1>1, <1>2, <1>3, <2>7, <2>10, <2>11, <2>12 DEF b, k, c
<1> QED
  BY <1>5, <1>6 DEF c

\* A message read to its end is a whole frame, and the next one follows.
LEMMA WholeFrame ==
    ASSUME NEW t \in Seq(Byte), NEW w \in Seq(Byte), NEW n \in Nat, w # <<>>,
           Framed(t \o w), Begun(t, n),
           NEW c, c = Append(t, Head(w)), Len(c) = FrameLength(c[1].of)
    PROVE  IsFrame(c) /\ Framed(Tail(w))
<1>1. /\ c \in Seq(Byte) /\ Tail(w) \in Seq(Byte)
      /\ Len(t) \in Nat /\ Len(c) = Len(t) + 1
      /\ Framed(c \o Tail(w)) /\ c[1] \in Byte
      /\ \A i \in 1..Len(c) : c[i] = [of |-> c[1].of, at |-> i]
  BY NextByte
<1> DEFINE m == c[1].of
           k == Len(c)
           r == Tail(w)
           b == c \o r
<1>2. IsFrame(c)
  <2>1. c = [i \in 1..k |-> c[i]]
    BY <1>1, LenProperties
  <2>2. c = [i \in 1..k |-> [of |-> m, at |-> i]]
    BY <1>1, <2>1
  <2> QED
    BY <2>2 DEF IsFrame, Frame, FrameLength
<1>3. r # <<>> => r[1].at = 1
  <2> SUFFICES ASSUME r # <<>> PROVE r[1].at = 1
    OBVIOUS
  <2>1. Len(r) \in Nat /\ Len(r) >= 1 /\ 1 \in 1..Len(r) /\ k \in Nat
    BY <1>1
  <2>2. Len(b) = k + Len(r) /\ b[k] = c[k] /\ b[k + 1] = r[1]
    <3>1. /\ c \in Seq(Byte) /\ r \in Seq(Byte) /\ k >= 1 /\ k \in 1..Len(c)
      BY <1>1
    <3> QED
      BY <2>1, <3>1
  <2>3. k \in 1..Len(b) /\ k < Len(b) /\ b[k].of = m /\ b[k].at = k
    <3>1. k \in 1..k /\ k \in 1..Len(b) /\ k < Len(b)
      BY <1>1, <2>1, <2>2
    <3>2. c[k] = [of |-> m, at |-> k]
      BY <1>1, <3>1
    <3>3. c[k].of = m /\ c[k].at = k
      BY <3>2
    <3> QED
      BY <2>2, <3>1, <3>3
  <2>4. b[k].at = FrameLength(b[k].of) /\ k < Len(b) => b[k + 1].at = 1
    BY <1>1, <2>3 DEF Framed
  <2> HIDE DEF b, k, m, r
  <2>5. k = FrameLength(m)
    BY DEF k, m
  <2> QED
    BY <2>2, <2>3, <2>4, <2>5
<1>4. Framed(r)
  BY <1>1, <1>3, FramedRest
<1> QED
  BY <1>2, <1>4

-----------------------------------------------------------------------------
(* How commands end, and what a step leaves alone.                         *)

\* A session whose commands no timeout has ended had none before this step.
LEMMA EndedUndropped ==
    ASSUME IInv, NEW s \in Sessions, NEW o, End(s, o), Undropped(s)'
    PROVE  Undropped(s) /\ o # [failed |-> "timeout"]
<1>1. ASSUME NEW i \in 1..Len(outcome[s])
      PROVE  outcome[s][i] # [failed |-> "timeout"]
  <2>1. i \in 1..Len(outcome'[s]) /\ outcome'[s][i] = outcome[s][i]
    BY Ended
  <2> QED
    BY <2>1 DEF Undropped
<1>2. o # [failed |-> "timeout"]
  <2> DEFINE n == Len(outcome[s]) + 1
  <2>1. n \in 1..Len(outcome'[s]) /\ outcome'[s][n] = o
    BY Ended
  <2> QED
    BY <2>1 DEF Undropped
<1> QED
  BY <1>1, <1>2 DEF Undropped

\* A command that ends, on a malformed frame only after a timeout.
LEMMA EndKeepsBroken ==
    ASSUME IInv, BrokenOnlyAfterTimeout, NEW s \in Sessions, NEW o, End(s, o),
           o = [failed |-> "broken"] => ~Undropped(s)
    PROVE  BrokenOnlyAfterTimeout'
<1> SUFFICES ASSUME NEW z \in Sessions, NEW j \in 1..Len(outcome'[z]),
                    outcome'[z][j] = [failed |-> "broken"]
             PROVE  \E i \in 1..(j - 1) : outcome'[z][i] = [failed |-> "timeout"]
  BY DEF BrokenOnlyAfterTimeout
<1>1. CASE z # s
  <2>1. outcome'[z] = outcome[z]
    BY <1>1, Ended
  <2> QED
    BY <2>1 DEF BrokenOnlyAfterTimeout
<1>2. CASE z = s
  <2> DEFINE n == Len(outcome[s])
  <2>1. /\ n \in Nat /\ Len(outcome'[s]) = n + 1
        /\ \A i \in 1..n : outcome'[s][i] = outcome[s][i]
        /\ outcome'[s][n + 1] = o
    BY Ended
  <2>2. CASE j \in 1..n
    <3>1. outcome[s][j] = [failed |-> "broken"]
      BY <1>2, <2>1, <2>2
    <3>2. PICK i \in 1..(j - 1) : outcome[s][i] = [failed |-> "timeout"]
      BY <2>2, <3>1 DEF BrokenOnlyAfterTimeout
    <3>3. i \in 1..n
      BY <2>1, <2>2, <3>2
    <3> QED
      BY <1>2, <2>1, <3>2, <3>3
  <2>3. CASE j = n + 1
    <3>1. PICK i \in 1..n : outcome[s][i] = [failed |-> "timeout"]
      BY <1>2, <2>1, <2>3 DEF Undropped
    <3>2. i \in 1..(j - 1)
      BY <2>1, <2>3, <3>1
    <3> QED
      BY <1>2, <2>1, <3>1, <3>2
  <2> QED
    BY <1>2, <2>1, <2>2, <2>3
<1> QED
  BY <1>1, <1>2

\* A session that a step does not touch stays in step.
LEMMA StepElsewhere ==
    ASSUME NEW z \in Sessions, Undropped(z) => InStep(z),
           outcome'[z] = outcome[z], taken'[z] = taken[z],
           wire'[z] = wire[z], want'[z] = want[z]
    PROVE  Undropped(z)' => InStep(z)'
BY DEF Undropped, InStep

-----------------------------------------------------------------------------
(* The steps.                                                              *)

FInv == IInv /\ FramingInv /\ BrokenOnlyAfterTimeout

\* No session has begun (no connection, no command).
LEMMA InitFraming == Init => FInv
<1> SUFFICES ASSUME Init PROVE FramingInv /\ BrokenOnlyAfterTimeout
  BY InitInv DEF FInv
<1>1. \A s \in Sessions : taken[s] = <<>> /\ wire[s] = <<>> /\ want[s] = 0
  BY DEF Init
<1>2. <<>> \o <<>> = <<>>
  OBVIOUS
<1>3. FramingInv
  BY <1>1, <1>2, NoBytes DEF FramingInv, InStep
<1>4. BrokenOnlyAfterTimeout
  BY DEF Init, BrokenOnlyAfterTimeout
<1> QED
  BY <1>3, <1>4

\* A step that moves no byte and ends no command.
LEMMA StillFraming ==
    ASSUME FInv, reader' = reader, outcome' = outcome
    PROVE  FramingInv' /\ BrokenOnlyAfterTimeout'
<1>1. wire' = wire /\ taken' = taken /\ want' = want
  BY DEF reader
<1> QED
  BY <1>1 DEF FInv, FramingInv, Undropped, InStep, BrokenOnlyAfterTimeout

\* read_message goes on with the frame that the bytes on the wire begin with.
LEMMA TakeFraming ==
    ASSUME FInv, NEW s \in Sessions, Take(s), Undropped(s)
    PROVE  /\ Bytes(s) \in Seq(Byte) /\ Tail(wire[s]) \in Seq(Byte)
           /\ Len(Bytes(s)) \in Nat /\ Len(Bytes(s)) = Len(taken[s]) + 1
           /\ Framed(Bytes(s) \o Tail(wire[s]))
           /\ Bytes(s)[1] \in Byte /\ Bytes(s)[1].at = 1
           /\ taken[s] # <<>> => Bytes(s)[1] = taken[s][1]
           /\ \A i \in 1..Len(Bytes(s)) : Bytes(s)[i] = [of |-> Bytes(s)[1].of, at |-> i]
           /\ Len(Bytes(s)) <= FrameLength(Bytes(s)[1].of)
           /\ Len(Bytes(s)) = FrameLength(Bytes(s)[1].of) =>
                  IsFrame(Bytes(s)) /\ Framed(Tail(wire[s]))
<1> DEFINE t == taken[s]
           w == wire[s]
           n == want[s]
<1>1. /\ t \in Seq(Byte) /\ w \in Seq(Byte) /\ n \in Nat /\ w # <<>>
      /\ Framed(t \o w) /\ Begun(t, n)
  BY DEF Take, FInv, IInv, TypeOK, FramingInv, InStep
<1>2. Bytes(s) = Append(t, Head(w))
  BY DEF Bytes
<1> DEFINE c == Append(t, Head(w))
<1> HIDE DEF t, w, n
<1>3. /\ c \in Seq(Byte) /\ Tail(w) \in Seq(Byte)
      /\ Len(t) \in Nat /\ Len(c) = Len(t) + 1
      /\ Framed(c \o Tail(w))
      /\ c[1] \in Byte /\ c[1].at = 1
      /\ t # <<>> => c[1] = t[1]
      /\ \A i \in 1..Len(c) : c[i] = [of |-> c[1].of, at |-> i]
      /\ Len(c) <= FrameLength(c[1].of)
  BY <1>1, NextByte
<1>4. Len(c) = FrameLength(c[1].of) => IsFrame(c) /\ Framed(Tail(w))
  BY <1>1, WholeFrame
<1>5. Len(c) \in Nat
  BY <1>3
<1> HIDE DEF c
<1>6. Bytes(s) = c
  BY <1>2 DEF c
<1> QED
  BY <1>3, <1>4, <1>5, <1>6 DEF t, w

\* The byte is kept: more of the prefix, the prefix, or more of the payload.
LEMMA KeepFraming ==
    ASSUME FInv, NEW s \in Sessions, Take(s), Keep(s),
           \A z \in Sessions \ {s} : want'[z] = want[z],
           Undropped(s) => Begun(Bytes(s), want'[s])
    PROVE  FramingInv' /\ BrokenOnlyAfterTimeout'
<1>1. /\ outcome' = outcome
      /\ taken'[s] = Bytes(s) /\ wire'[s] = Tail(wire[s])
      /\ \A z \in Sessions \ {s} : taken'[z] = taken[z] /\ wire'[z] = wire[z]
  BY DEF Keep, Take, FInv, IInv, TypeOK
<1>2. Undropped(s)' => InStep(s)'
  BY <1>1, TakeFraming DEF Undropped, InStep
<1>3. ASSUME NEW z \in Sessions \ {s}
      PROVE  Undropped(z)' => InStep(z)'
  BY <1>1, StepElsewhere DEF FInv, FramingInv
<1>4. FramingInv'
  BY <1>2, <1>3 DEF FramingInv
<1>5. BrokenOnlyAfterTimeout'
  BY <1>1 DEF FInv, BrokenOnlyAfterTimeout
<1> QED
  BY <1>4, <1>5

\* send_request_and_wait returns: the stream that is left is whole frames, or
\* a timeout has dropped the read that was in the middle of one.
LEMMA EndFraming ==
    ASSUME FInv, NEW s \in Sessions, NEW o, End(s, o),
           \A z \in Sessions \ {s} : wire'[z] = wire[z],
           wire'[s] \in Seq(Byte),
           o = [failed |-> "broken"] => ~Undropped(s),
           Undropped(s) /\ o # [failed |-> "timeout"] => Framed(wire'[s])
    PROVE  FramingInv' /\ BrokenOnlyAfterTimeout'
<1>1. IInv /\ BrokenOnlyAfterTimeout
  BY DEF FInv
<1>2. Undropped(s)' => InStep(s)'
  <2> SUFFICES ASSUME Undropped(s)' PROVE InStep(s)'
    OBVIOUS
  <2>1. taken'[s] = <<>> /\ want'[s] = 0
    BY <1>1, Ended
  <2>2. Framed(wire'[s])
    BY <1>1, EndedUndropped
  <2>3. <<>> \o wire'[s] = wire'[s]
    OBVIOUS
  <2> QED
    BY <2>1, <2>2, <2>3, NoBytes DEF InStep
<1>3. ASSUME NEW z \in Sessions \ {s}
      PROVE  Undropped(z)' => InStep(z)'
  <2>1. outcome'[z] = outcome[z] /\ taken'[z] = taken[z] /\ want'[z] = want[z]
    BY <1>1, Ended
  <2> QED
    BY <2>1, StepElsewhere DEF FInv, FramingInv
<1>4. FramingInv'
  BY <1>2, <1>3 DEF FramingInv
<1> QED
  BY <1>1, <1>4, EndKeepsBroken

\* read_message, waiting for more.
LEMMA ReadByteFraming ==
    ASSUME FInv, NEW s \in Sessions, ReadByte(s)
    PROVE  FramingInv' /\ BrokenOnlyAfterTimeout'
<1>1. /\ Take(s) /\ Keep(s) /\ want' = want
      /\ Len(Bytes(s)) < HeaderBytes + want[s]
  BY DEF ReadByte
<1>2. ASSUME Undropped(s)
      PROVE  Begun(Bytes(s), want[s])
  <2> DEFINE c == Bytes(s)
             t == taken[s]
  <2>1. /\ \A i \in 1..Len(c) : c[i] = [of |-> c[1].of, at |-> i]
        /\ Len(c) = Len(t) + 1
        /\ t # <<>> => c[1] = t[1]
    BY <1>1, <1>2, TakeFraming
  <2>2. Begun(t, want[s]) /\ want[s] \in Nat /\ t \in Seq(Byte) /\ HeaderBytes \in Nat \ {0}
    BY <1>2, FramingAssumption DEF FInv, FramingInv, InStep, IInv, TypeOK
  <2> HIDE DEF c, t
  <2>3. CASE want[s] = 0
    <3>1. Len(c) < HeaderBytes
      BY <1>1, <2>2, <2>3 DEF c
    <3> QED
      BY <2>1, <2>3, <3>1 DEF Begun, c
  <2>4. CASE want[s] # 0
    <3>1. HeaderBytes <= Len(t) /\ want[s] = t[1].of.size /\ want[s] > 0
      BY <2>2, <2>4 DEF Begun
    <3>2. Len(t) \in Nat
      BY <2>2
    <3>3. t # <<>>
      BY <2>2, <3>1, <3>2
    <3>4. HeaderBytes <= Len(c) /\ want[s] = c[1].of.size
      BY <2>1, <2>2, <3>1, <3>2, <3>3
    <3> QED
      BY <1>1, <2>1, <3>1, <3>4 DEF Begun, c
  <2> QED
    BY <2>3, <2>4
<1> QED
  BY <1>1, <1>2, KeepFraming

\* read_message has the prefix: with no read dropped it is one, and its
\* length is not refused.
LEMMA ReadLengthFraming ==
    ASSUME FInv, NEW s \in Sessions, ReadLength(s)
    PROVE  FramingInv' /\ BrokenOnlyAfterTimeout'
<1>1. Take(s) /\ want[s] = 0 /\ Len(Bytes(s)) = HeaderBytes
  BY DEF ReadLength
<1>2. PICK n \in LengthsRead(Bytes(s)[1]) :
          \/ n = 0 /\ Failed(s, "broken")
          \/ n > 0 /\ want' = [want EXCEPT ![s] = n] /\ Keep(s)
  BY DEF ReadLength
<1>3. Undropped(s) => /\ n = Bytes(s)[1].of.size /\ n \in Nat /\ n >= 1
                      /\ Begun(Bytes(s), n)
  <2> SUFFICES ASSUME Undropped(s)
               PROVE  /\ n = Bytes(s)[1].of.size /\ n \in Nat /\ n >= 1
                      /\ Begun(Bytes(s), n)
    OBVIOUS
  <2> DEFINE c == Bytes(s)
  <2>1. /\ c[1] \in Byte /\ c[1].at = 1
        /\ \A i \in 1..Len(c) : c[i] = [of |-> c[1].of, at |-> i]
    BY <1>1, TakeFraming
  <2>2. n = c[1].of.size
    <3>1. c[1].at = 1 /\ ~(c[1].at \in 2..HeaderBytes) /\ ~(c[1].at > HeaderBytes)
      BY <2>1, FramingAssumption
    <3>2. LengthsRead(c[1]) = {c[1].of.size}
      BY <3>1, Zenon DEF LengthsRead
    <3> QED
      BY <1>2, <3>2
  <2>3. c[1].of \in Message
    BY <2>1 DEF Byte
  <2>4. n \in Nat /\ n >= 1 /\ HeaderBytes \in Nat
    BY <2>2, <2>3, FrameLengths
  <2> HIDE DEF c
  <2>5. HeaderBytes <= Len(c) /\ Len(c) < HeaderBytes + n
    BY <1>1, <2>4 DEF c
  <2> QED
    BY <2>1, <2>2, <2>4, <2>5 DEF Begun, c
<1>4. CASE n = 0 /\ Failed(s, "broken")
  <2>1. ~Undropped(s) /\ End(s, [failed |-> "broken"])
    BY <1>3, <1>4 DEF Failed
  <2>2. wire' \in [Sessions -> Seq(Byte)] /\ \A z \in Sessions \ {s} : wire'[z] = wire[z]
    BY <1>1, TakeTyped DEF Take, FInv, IInv, TypeOK
  <2> QED
    BY <2>1, <2>2, EndFraming
<1>5. CASE n > 0 /\ want' = [want EXCEPT ![s] = n] /\ Keep(s)
  <2>1. want'[s] = n /\ \A z \in Sessions \ {s} : want'[z] = want[z]
    BY <1>5 DEF FInv, IInv, TypeOK
  <2> QED
    BY <1>1, <1>3, <1>5, <2>1, KeepFraming
<1> QED
  BY <1>2, <1>4, <1>5

\* read_message has a message: with no read dropped it is a whole frame.
LEMMA ReadMessageFraming ==
    ASSUME FInv, NEW s \in Sessions, ReadMessage(s)
    PROVE  FramingInv' /\ BrokenOnlyAfterTimeout'
<1> DEFINE c == Bytes(s)
           m == c[1].of
<1>1. Take(s) /\ want[s] > 0 /\ Len(c) = HeaderBytes + want[s]
  BY DEF ReadMessage
<1>2. \/ ~IsFrame(c) /\ Failed(s, "broken")
      \/ End(s, m.result)
      \/ /\ taken' = [taken EXCEPT ![s] = <<>>]
         /\ want' = [want EXCEPT ![s] = 0]
         /\ UNCHANGED <<remote, session, calls, outcome, history>>
  BY Zenon DEF ReadMessage
<1>3. /\ wire' \in [Sessions -> Seq(Byte)] /\ wire'[s] = Tail(wire[s])
      /\ \A z \in Sessions \ {s} : wire'[z] = wire[z]
  BY <1>1, TakeTyped DEF Take, FInv, IInv, TypeOK
<1>4. ASSUME Undropped(s)
      PROVE  IsFrame(c) /\ Framed(wire'[s])
  <2>1. /\ c[1] \in Byte
        /\ taken[s] # <<>> => c[1] = taken[s][1]
        /\ Len(c) = FrameLength(c[1].of) => IsFrame(c) /\ Framed(Tail(wire[s]))
    BY <1>1, <1>4, TakeFraming
  <2>2. Begun(taken[s], want[s]) /\ want[s] \in Nat /\ taken[s] \in Seq(Byte)
    BY <1>4 DEF FInv, FramingInv, InStep, IInv, TypeOK
  <2>3. want[s] = taken[s][1].of.size /\ taken[s] # <<>>
    <3>1. HeaderBytes <= Len(taken[s]) /\ want[s] = taken[s][1].of.size
      BY <1>1, <2>2 DEF Begun
    <3>2. HeaderBytes \in Nat \ {0}
      BY FramingAssumption
    <3>3. Len(taken[s]) # 0
      BY <2>2, <3>1, <3>2
    <3> QED
      BY <3>1, <3>3
  <2>4. Len(c) = FrameLength(c[1].of)
    BY <1>1, <2>1, <2>3 DEF FrameLength
  <2> QED
    BY <1>3, <2>1, <2>4
<1>5. CASE ~IsFrame(c) /\ Failed(s, "broken")
  BY <1>3, <1>4, <1>5, EndFraming DEF Failed
<1>6. CASE End(s, m.result)
  <2>1. c[1] \in Byte
    <3>1. c \in Seq(Byte) /\ Len(c) >= 1
      BY <1>1, TakeTyped DEF FInv
    <3> QED
      BY <3>1
  <2>2. m.result \in Answers
    BY <2>1 DEF Byte, Message
  <2>3. m.result # [failed |-> "broken"]
    BY <2>2, OutcomesDiffer
  <2> HIDE DEF c, m
  <2> QED
    BY <1>3, <1>4, <1>6, <2>3, EndFraming
<1>7. CASE /\ taken' = [taken EXCEPT ![s] = <<>>]
           /\ want' = [want EXCEPT ![s] = 0]
           /\ UNCHANGED <<remote, session, calls, outcome, history>>
  <2>1. /\ taken'[s] = <<>> /\ want'[s] = 0 /\ outcome' = outcome
        /\ \A z \in Sessions \ {s} : taken'[z] = taken[z] /\ want'[z] = want[z]
    BY <1>7 DEF FInv, IInv, TypeOK
  <2>2. Undropped(s)' => InStep(s)'
    <3> SUFFICES ASSUME Undropped(s) PROVE InStep(s)'
      BY <2>1 DEF Undropped
    <3>1. Framed(wire'[s])
      BY <1>4
    <3>2. <<>> \o wire'[s] = wire'[s]
      BY <1>3
    <3> QED
      BY <2>1, <3>1, <3>2, NoBytes DEF InStep
  <2>3. ASSUME NEW z \in Sessions \ {s}
        PROVE  Undropped(z)' => InStep(z)'
    BY <1>3, <2>1, StepElsewhere DEF FInv, FramingInv
  <2>4. BrokenOnlyAfterTimeout'
    BY <2>1 DEF FInv, BrokenOnlyAfterTimeout
  <2> QED
    BY <2>2, <2>3, <2>4 DEF FramingInv
<1> QED
  BY <1>2, <1>5, <1>6, <1>7

\* The timeout, and the loss of the connection.
LEMMA GivenUpFraming ==
    ASSUME FInv, NEW s \in Sessions, Timeout(s) \/ ReadLost(s)
    PROVE  FramingInv' /\ BrokenOnlyAfterTimeout'
<1>1. CASE Timeout(s)
  <2>1. End(s, [failed |-> "timeout"]) /\ wire' = wire
    BY <1>1 DEF Timeout, Failed
  <2>2. wire'[s] \in Seq(Byte)
    BY <2>1 DEF FInv, IInv, TypeOK
  <2> QED
    BY <2>1, <2>2, OutcomesDiffer, EndFraming
<1>2. CASE ReadLost(s)
  <2>1. End(s, [failed |-> "lost"]) /\ wire' = [wire EXCEPT ![s] = <<>>]
    BY <1>2 DEF ReadLost, Failed
  <2>2. wire'[s] = <<>> /\ \A z \in Sessions \ {s} : wire'[z] = wire[z]
    BY <2>1 DEF FInv, IInv, TypeOK
  <2>3. wire'[s] \in Seq(Byte)
    BY <2>2
  <2> QED
    BY <2>1, <2>2, <2>3, NoBytes, OutcomesDiffer, EndFraming
<1> QED
  BY <1>1, <1>2

\* The master ends, and its end of the stream with it.
LEMMA QuitFraming ==
    ASSUME FInv, NEW s \in Sessions, Quit(s)
    PROVE  FramingInv' /\ BrokenOnlyAfterTimeout'
<1>1. /\ taken'[s] = <<>> /\ wire'[s] = <<>> /\ want'[s] = 0 /\ outcome' = outcome
      /\ \A z \in Sessions \ {s} :
             taken'[z] = taken[z] /\ wire'[z] = wire[z] /\ want'[z] = want[z]
  BY DEF Quit, FInv, IInv, TypeOK
<1>2. InStep(s)'
  <2>1. <<>> \o <<>> = <<>>
    OBVIOUS
  <2> QED
    BY <1>1, <2>1, NoBytes DEF InStep
<1>3. ASSUME NEW z \in Sessions \ {s}
      PROVE  Undropped(z)' => InStep(z)'
  BY <1>1, StepElsewhere DEF FInv, FramingInv
<1>4. BrokenOnlyAfterTimeout'
  BY <1>1 DEF FInv, BrokenOnlyAfterTimeout
<1> QED
  BY <1>2, <1>3, <1>4 DEF FramingInv

\* An answer is written as a whole frame, behind whole frames.
LEMMA RespondFraming ==
    ASSUME FInv, NEW s \in Sessions, Respond(s)
    PROVE  FramingInv' /\ BrokenOnlyAfterTimeout'
<1>1. taken' = taken /\ want' = want /\ outcome' = outcome
  BY DEF Respond
<1>2. CASE session[s] = "gone"
  <2>1. wire' = wire
    BY <1>2 DEF Respond
  <2> QED
    BY <1>1, <2>1, StillFraming DEF reader
<1>3. CASE session[s] # "gone"
  <2> DEFINE Reply(n) == [id |-> Len(done[s]), result |-> done[s][Len(done[s])],
                          size |-> n]
  <2>1. PICK n \in PayloadSizes : wire' = [wire EXCEPT ![s] = wire[s] \o Frame(Reply(n))]
    BY <1>3 DEF Respond
  <2> DEFINE m == Reply(n)
             f == Frame(m)
             t == taken[s]
             w == wire[s]
  <2>2. /\ done[s] \in Seq(Answers) /\ Len(done[s]) \in 1..MaxCalls
    BY FramingAssumption DEF Respond, FInv, IInv, TypeOK, InFlight
  <2>3. m \in Message
    BY <2>2 DEF Message
  <2>4. f \in Seq(Byte)
    <3>1. FrameLength(m) \in Nat
      BY <2>3, FrameLengths
    <3> HIDE DEF m
    <3>2. f = [i \in 1..FrameLength(m) |-> [of |-> m, at |-> i]]
      BY DEF Frame, FrameLength
    <3>3. \A i \in 1..FrameLength(m) : [of |-> m, at |-> i] \in Byte
      BY <2>3, <3>1 DEF Byte
    <3> QED
      BY <3>1, <3>2, <3>3
  <2>5. /\ wire'[s] = w \o f
        /\ \A z \in Sessions \ {s} : wire'[z] = wire[z]
    BY <2>1 DEF FInv, IInv, TypeOK
  <2>6. t \in Seq(Byte) /\ w \in Seq(Byte)
    BY DEF FInv, IInv, TypeOK
  <2>7. Undropped(s)' => InStep(s)'
    <3> SUFFICES ASSUME Undropped(s) PROVE InStep(s)'
      BY <1>1 DEF Undropped
    <3>1. Framed(t \o w) /\ Begun(t, want[s])
      BY DEF FInv, FramingInv, InStep
    <3> HIDE DEF t, w, f, m
    <3>2. t \o (w \o f) = (t \o w) \o f /\ t \o w \in Seq(Byte)
      BY <2>4, <2>6, ConcatAssociative
    <3>3. Framed(t \o (w \o f))
      BY <2>3, <3>1, <3>2, FramedWrite DEF f
    <3> QED
      BY <1>1, <2>5, <3>1, <3>3 DEF InStep, t
  <2>8. ASSUME NEW z \in Sessions \ {s}
        PROVE  Undropped(z)' => InStep(z)'
    BY <1>1, <2>5, StepElsewhere DEF FInv, FramingInv
  <2>9. BrokenOnlyAfterTimeout'
    BY <1>1 DEF FInv, BrokenOnlyAfterTimeout
  <2> QED
    BY <2>7, <2>8, <2>9 DEF FramingInv
<1> QED
  BY <1>2, <1>3

\* Every step keeps the framing.
LEMMA StepKeepsFraming == FInv /\ [Next]_vars => FInv'
<1> SUFFICES ASSUME FInv, [Next]_vars PROVE FramingInv' /\ BrokenOnlyAfterTimeout'
  BY StepKeepsInv DEF FInv
<1>1. CASE UNCHANGED vars \/ RemoteRestart
  BY <1>1, StillFraming DEF vars, RemoteRestart
<1>2. ASSUME NEW s \in Sessions,
             \/ Connect(s)
             \/ \E r \in Commands : Issue(s, r)
             \/ Handle(s) \/ Close(s)
      PROVE  reader' = reader /\ outcome' = outcome
  BY <1>2 DEF Connect, Issue, Handle, Close
<1>3. ASSUME NEW s \in Sessions,
             \/ Timeout(s)
             \/ ReadByte(s) \/ ReadLength(s) \/ ReadMessage(s)
             \/ ReadLost(s)
             \/ Quit(s)
             \/ Respond(s)
      PROVE  FramingInv' /\ BrokenOnlyAfterTimeout'
  BY <1>3, ReadByteFraming, ReadLengthFraming, ReadMessageFraming, GivenUpFraming,
     QuitFraming, RespondFraming
<1> QED
  BY <1>1, <1>2, <1>3, StillFraming DEF Next

\* Whatever the lengths of prefix and payloads, and whatever bytes astride a
\* prefix may read as: a command that fails on a malformed frame comes after
\* one of its session that timed out (write_message, read_message and
\* send_request_and_wait).
THEOREM BrokenNeedsTimeout == Spec => []BrokenOnlyAfterTimeout
<1>1. FInv => BrokenOnlyAfterTimeout
  BY DEF FInv
<1> QED
  BY <1>1, InitFraming, StepKeepsFraming, PTL DEF Spec

\* The converse, about the prefixes themselves: until a command of the session
\* times out, what read_message reads as a length is the prefix of a message
\* (README.md:131), so that nothing but a dropped read gives the lie to it.
THEOREM PrefixesUntilTimeout ==
    Spec => [](\A s \in Sessions :
                   Undropped(s) => (taken[s] # <<>> => taken[s][1].at = 1))
<1>1. FInv => \A s \in Sessions :
                  Undropped(s) => (taken[s] # <<>> => taken[s][1].at = 1)
  <2> SUFFICES ASSUME FInv, NEW s \in Sessions, Undropped(s), taken[s] # <<>>
               PROVE  taken[s][1].at = 1
    OBVIOUS
  <2>1. taken[s] \in Seq(Byte) /\ Begun(taken[s], want[s])
    BY DEF FInv, IInv, TypeOK, FramingInv, InStep
  <2>2. 1 \in 1..Len(taken[s])
    BY <2>1
  <2>3. taken[s][1] = [of |-> taken[s][1].of, at |-> 1]
    BY <2>1, <2>2 DEF Begun
  <2> QED
    BY <2>3
<1> QED
  BY <1>1, InitFraming, StepKeepsFraming, PTL DEF Spec
===============================================================================
