------------------------- MODULE UhubctlParserProofs -------------------------
(***************************************************************************)
(* Theorems of UhubctlParser, for every value of its constants: what the   *)
(* parser makes of any output, whatever its length.  The reference is a    *)
(* function of the whole text; its lemmas say what one more line does to   *)
(* it, and the proofs about the parser compare that with what the parser   *)
(* does of the line.                                                       *)
(***************************************************************************)
EXTENDS UhubctlParser, FiniteSetTheorems, SequenceTheorems,
        NaturalsInduction, TLAPS

-----------------------------------------------------------------------------
(* Positions in order.                                                     *)

\* The rank of a position counts the ones up to it.
LEMMA RankInside ==
    ASSUME NEW S \in SUBSET Nat, IsFiniteSet(S), NEW i \in S
    PROVE  Rank(i, S) \in 1..Cardinality(S)
<1> DEFINE U == {j \in S : j <= i}
<1>1. U \in SUBSET S /\ i \in U
  OBVIOUS
<1>2. IsFiniteSet(U) /\ Cardinality(U) <= Cardinality(S)
  BY <1>1, FS_Subset
<1>3. Cardinality(U) # 0
  BY <1>1, <1>2, FS_EmptySet
<1>4. Cardinality(U) \in Nat /\ Cardinality(S) \in Nat
  BY <1>2, FS_CardinalityType
<1> HIDE DEF U
<1>5. Cardinality(U) \in 1..Cardinality(S)
  BY <1>2, <1>3, <1>4
<1> QED
  BY <1>5 DEF U, Rank

LEMMA RankGrows ==
    ASSUME NEW S \in SUBSET Nat, IsFiniteSet(S), NEW i \in S, NEW j \in S, i < j
    PROVE  Rank(i, S) < Rank(j, S)
<1> DEFINE U == {k \in S : k <= i}
           V == {k \in S : k <= j}
<1>1. V \in SUBSET S /\ U \in SUBSET V /\ j \in V /\ j \notin U
  <2>1. i \in Nat /\ j \in Nat /\ \A k \in S : k \in Nat
    OBVIOUS
  <2>2. \A k \in S : k <= i => k <= j
    BY <2>1
  <2>3. U \subseteq V
    BY <2>2
  <2>4. j <= j /\ ~(j <= i)
    BY <2>1
  <2> QED
    BY <2>3, <2>4
<1>2. IsFiniteSet(V) /\ IsFiniteSet(U)
  BY <1>1, FS_Subset
<1>3. Cardinality(U) <= Cardinality(V) /\ Cardinality(U) # Cardinality(V)
  BY <1>1, <1>2, FS_Subset
<1>4. Cardinality(U) \in Nat /\ Cardinality(V) \in Nat
  BY <1>2, FS_CardinalityType
<1> HIDE DEF U, V
<1>5. Cardinality(U) < Cardinality(V)
  BY <1>3, <1>4
<1> QED
  BY <1>5 DEF U, V, Rank

\* Different positions have different ranks.
LEMMA RankTells ==
    ASSUME NEW S \in SUBSET Nat, IsFiniteSet(S), NEW i \in S, NEW j \in S,
           Rank(i, S) = Rank(j, S)
    PROVE  i = j
<1>1. Rank(i, S) \in Nat /\ Rank(j, S) \in Nat
  BY RankInside, FS_CardinalityType
<1>2. i \in Nat /\ j \in Nat
  OBVIOUS
<1>3. ~(i < j) /\ ~(j < i)
  BY <1>1, RankGrows
<1> QED
  BY <1>2, <1>3

\* There is one position of each rank, and InOrder finds it.
LEMMA OrderedRanks ==
    ASSUME NEW S \in SUBSET Nat, IsFiniteSet(S)
    PROVE  /\ Cardinality(S) \in Nat
           /\ InOrder(S) \in Seq(S) /\ Len(InOrder(S)) = Cardinality(S)
           /\ DOMAIN InOrder(S) = 1..Cardinality(S)
           /\ \A k \in 1..Cardinality(S) :
                InOrder(S)[k] \in S /\ Rank(InOrder(S)[k], S) = k
<1> DEFINE n == Cardinality(S)
           f == [i \in S |-> Rank(i, S)]
<1>1. n \in Nat
  BY FS_CardinalityType
<1>2. f \in [S -> 1..n]
  BY RankInside
<1>3. f \in Injection(S, 1..n)
  <2>1. \A i, j \in S : f[i] = f[j] => i = j
    BY RankTells
  <2> QED
    BY <1>2, <2>1 DEF Injection, IsInjective
<1>4. IsFiniteSet(1..n) /\ Cardinality(1..n) = n
  <2>1. 1 \in Int /\ n \in Int /\ (1 > n => n = 0)
    BY <1>1
  <2> HIDE DEF n
  <2>2. IsFiniteSet(1..n) /\ Cardinality(1..n) = IF 1 > n THEN 0 ELSE n-1+1
    BY <2>1, FS_Interval
  <2> QED
    BY <1>1, <2>1, <2>2
<1>5. f \in Surjection(S, 1..n)
  BY <1>3, <1>4, FS_Injection
<1>6. ASSUME NEW k \in 1..n
      PROVE  InOrder(S)[k] \in S /\ Rank(InOrder(S)[k], S) = k
  <2>1. \E i \in S : Rank(i, S) = k
    BY <1>5 DEF Surjection
  <2>2. InOrder(S)[k] = CHOOSE i \in S : Rank(i, S) = k
    BY DEF InOrder
  <2> QED
    BY <2>1, <2>2
<1>7. InOrder(S) \in [1..n -> S]
  BY <1>6 DEF InOrder
<1> HIDE DEF n
<1>8. InOrder(S) \in Seq(S) /\ Len(InOrder(S)) = n /\ DOMAIN InOrder(S) = 1..n
  BY <1>1, <1>7
<1> QED
  BY <1>1, <1>6, <1>8 DEF n

LEMMA OrderedEmpty == InOrder({}) = <<>>
<1>1. Cardinality({}) = 0
  BY FS_EmptySet
<1> QED
  BY <1>1 DEF InOrder

\* A new last position comes last.
LEMMA OrderedLast ==
    ASSUME NEW S \in SUBSET Nat, IsFiniteSet(S), NEW n \in Nat, \A i \in S : i < n
    PROVE  InOrder(S \cup {n}) = Append(InOrder(S), n)
<1> DEFINE T == S \cup {n}
           c == Cardinality(S)
<1>1. n \notin S /\ T \in SUBSET Nat
  OBVIOUS
<1>2. IsFiniteSet(T) /\ Cardinality(T) = c + 1 /\ c \in Nat
  BY <1>1, FS_AddElement, FS_CardinalityType
<1>3. ASSUME NEW i \in S
      PROVE  Rank(i, T) = Rank(i, S)
  <2>1. {j \in T : j <= i} = {j \in S : j <= i}
    OBVIOUS
  <2> QED
    BY <2>1 DEF Rank
<1>4. Rank(n, T) = c + 1
  <2>1. \A j \in T : j <= n
    BY <1>1
  <2>2. {j \in T : j <= n} = T
    BY <2>1
  <2> QED
    BY <1>2, <2>2 DEF Rank
<1>5. /\ \A k \in 1..(c + 1) : InOrder(T)[k] \in T /\ Rank(InOrder(T)[k], T) = k
      /\ DOMAIN InOrder(T) = 1..(c + 1) /\ InOrder(T) \in Seq(T)
      /\ Len(InOrder(T)) = c + 1
  BY <1>1, <1>2, OrderedRanks
<1>6. /\ \A k \in 1..c : InOrder(S)[k] \in S /\ Rank(InOrder(S)[k], S) = k
      /\ InOrder(S) \in Seq(S) /\ Len(InOrder(S)) = c
  BY OrderedRanks
<1>7. ASSUME NEW k \in 1..c
      PROVE  InOrder(T)[k] = InOrder(S)[k]
  <2>1. k \in 1..(c + 1) /\ k # c + 1
    BY <1>2
  <2>2. InOrder(T)[k] \in S /\ Rank(InOrder(T)[k], S) = k
    BY <1>3, <1>4, <1>5, <2>1
  <2>3. InOrder(S)[k] \in S /\ Rank(InOrder(S)[k], S) = k
    BY <1>6
  <2> QED
    BY <2>2, <2>3, RankTells
<1>8. InOrder(T)[c + 1] = n
  <2>1. c + 1 \in 1..(c + 1)
    BY <1>2
  <2>2. InOrder(T)[c + 1] \in T /\ Rank(InOrder(T)[c + 1], T) = Rank(n, T)
    BY <1>4, <1>5, <2>1
  <2> QED
    BY <1>1, <1>2, <2>2, RankTells
<1> DEFINE s == InOrder(S)
           t == InOrder(T)
<1>9. /\ s \in Seq(Nat) /\ Len(s) = c /\ t \in Seq(Nat) /\ Len(t) = c + 1
      /\ \A k \in 1..c : t[k] = s[k]
      /\ t[c + 1] = n
  <2>1. s \in Seq(Nat)
    BY <1>6, SeqMonotonic
  <2>2. t \in Seq(Nat)
    BY <1>1, <1>5, SeqMonotonic
  <2> QED
    BY <1>5, <1>6, <1>7, <1>8, <2>1, <2>2
<1> HIDE DEF s, t, c
<1>10. t = Append(s, n)
  <2>1. /\ Append(s, n) \in Seq(Nat) /\ Len(Append(s, n)) = c + 1
        /\ \A k \in 1..(c + 1) : Append(s, n)[k] = IF k <= c THEN s[k] ELSE n
    BY <1>2, <1>9
  <2>2. ASSUME NEW k \in 1..(c + 1)
        PROVE  t[k] = Append(s, n)[k]
    BY <1>2, <1>9, <2>1
  <2> QED
    BY <1>9, <2>1, <2>2, SeqEqual
<1> QED
  BY <1>10 DEF s, t

\* The last position has the last rank, and no other has.
LEMMA LastRank ==
    ASSUME NEW S \in SUBSET Nat, IsFiniteSet(S), NEW m \in S, \A i \in S : i <= m
    PROVE  /\ Cardinality(S) \in Nat \ {0}
           /\ InOrder(S)[Cardinality(S)] = m
           /\ \A k \in 1..Cardinality(S) : k # Cardinality(S) => InOrder(S)[k] # m
<1> DEFINE c == Cardinality(S)
<1>1. Rank(m, S) = c
  <2>1. {j \in S : j <= m} = S
    OBVIOUS
  <2> QED
    BY <2>1 DEF Rank
<1>2. c \in Nat \ {0}
  BY FS_CardinalityType, FS_EmptySet
<1>3. \A k \in 1..c : InOrder(S)[k] \in S /\ Rank(InOrder(S)[k], S) = k
  BY OrderedRanks
<1> HIDE DEF c
<1>4. InOrder(S)[c] = m
  <2>1. c \in 1..c
    BY <1>2
  <2> QED
    BY <1>1, <1>3, <2>1, RankTells
<1>5. ASSUME NEW k \in 1..c, k # c
      PROVE  InOrder(S)[k] # m
  BY <1>1, <1>3, <1>5
<1> QED
  BY <1>2, <1>4, <1>5 DEF c

-----------------------------------------------------------------------------
(* What one more line does to the positions, the headers and the sections. *)

LEMMA OneMoreLine ==
    ASSUME NEW lines \in Seq(Line), NEW line \in Line
    PROVE  LET n == Len(lines) + 1
               more == Append(lines, line)
           IN  /\ n \in Nat /\ n \notin Positions(lines)
               /\ \A i \in Positions(lines) : i \in Nat /\ i < n
               /\ more \in Seq(Line)
               /\ more[n] = line
               /\ \A i \in Positions(lines) : more[i] = lines[i]
               /\ Positions(more) = Positions(lines) \cup {n}
BY DEF Positions

LEMMA PositionsFinite ==
    ASSUME NEW lines \in Seq(Line)
    PROVE  /\ IsFiniteSet(Positions(lines))
           /\ Positions(lines) \in SUBSET Nat
           /\ \A I \in SUBSET Positions(lines) : IsFiniteSet(I) /\ I \in SUBSET Nat
<1>1. Len(lines) \in Nat
  OBVIOUS
<1>2. IsFiniteSet(Positions(lines))
  BY <1>1, FS_Interval DEF Positions
<1>3. Positions(lines) \in SUBSET Nat
  BY <1>1 DEF Positions
<1> QED
  BY <1>2, <1>3, FS_Subset

LEMMA HeadersExtend ==
    ASSUME NEW lines \in Seq(Line), NEW line \in Line
    PROVE  LET n == Len(lines) + 1
               more == Append(lines, line)
           IN  /\ Headers(more) = IF line.kind = "header"
                                  THEN Headers(lines) \cup {n} ELSE Headers(lines)
               /\ ReadableHeaders(more) =
                    IF line.kind = "header" /\ line.hub # None
                    THEN ReadableHeaders(lines) \cup {n} ELSE ReadableHeaders(lines)
<1> DEFINE n == Len(lines) + 1
           more == Append(lines, line)
<1>1. /\ n \notin Positions(lines) /\ more[n] = line
      /\ \A i \in Positions(lines) : more[i] = lines[i]
      /\ Positions(more) = Positions(lines) \cup {n}
  BY OneMoreLine
<1> HIDE DEF n, more
<1>2. Headers(more) = IF line.kind = "header"
                      THEN Headers(lines) \cup {n} ELSE Headers(lines)
  BY <1>1 DEF Headers
<1>3. ReadableHeaders(more) =
        IF line.kind = "header" /\ line.hub # None
        THEN ReadableHeaders(lines) \cup {n} ELSE ReadableHeaders(lines)
  BY <1>1, <1>2 DEF Headers, ReadableHeaders
<1> QED
  BY <1>2, <1>3 DEF n, more

\* The section the next line goes to: that of the last header.
IsLastHeader(lines, i) == i \in Headers(lines) /\ \A m \in Headers(lines) : m <= i

LEMMA SectionsExtend ==
    ASSUME NEW lines \in Seq(Line), NEW line \in Line, NEW i \in Headers(lines)
    PROVE  LET n == Len(lines) + 1
               more == Append(lines, line)
           IN  /\ Section(lines, i) \in SUBSET Positions(lines)
               /\ Section(more, i) =
                    IF line.kind # "header" /\ IsLastHeader(lines, i)
                    THEN Section(lines, i) \cup {n} ELSE Section(lines, i)
<1> DEFINE n == Len(lines) + 1
           more == Append(lines, line)
<1>1. /\ n \in Nat /\ n \notin Positions(lines)
      /\ \A j \in Positions(lines) : j \in Nat /\ j < n
      /\ Positions(more) = Positions(lines) \cup {n}
  BY OneMoreLine
<1>2. Headers(more) = IF line.kind = "header"
                      THEN Headers(lines) \cup {n} ELSE Headers(lines)
  BY HeadersExtend
<1> HIDE DEF n, more
<1>3. Headers(lines) \subseteq Positions(lines)
  BY DEF Headers
<1>4. i < n /\ i \in Nat /\ \A m \in Headers(lines) : m \in Nat /\ m < n
  BY <1>1, <1>3
<1>5. ASSUME NEW j \in Positions(lines)
      PROVE  j \in Section(more, i) <=> j \in Section(lines, i)
  <2>1. j \in Nat /\ j < n
    BY <1>1
  <2> QED
    BY <1>1, <1>2, <2>1 DEF Section
<1>6. n \in Section(more, i) <=> line.kind # "header" /\ IsLastHeader(lines, i)
  <2>1. n \in Section(more, i) <=> \A m \in Headers(more) : m <= i \/ n < m
    BY <1>1, <1>4 DEF Section
  <2>2. CASE line.kind = "header"
    BY <1>1, <1>2, <1>4, <2>1, <2>2
  <2>3. CASE line.kind # "header"
    <3>1. \A m \in Headers(lines) : ~(n < m)
      BY <1>1, <1>4
    <3> QED
      BY <1>2, <2>1, <2>3, <3>1 DEF IsLastHeader
  <2> QED
    BY <2>2, <2>3
<1>7. Section(lines, i) \subseteq Positions(lines) /\ Section(more, i) \subseteq Positions(more)
  BY DEF Section
<1>8. CASE line.kind # "header" /\ IsLastHeader(lines, i)
  <2>1. Section(more, i) = Section(lines, i) \cup {n}
    BY <1>1, <1>5, <1>6, <1>7, <1>8
  <2> QED
    BY <1>7, <1>8, <2>1 DEF n, more
<1>9. CASE ~(line.kind # "header" /\ IsLastHeader(lines, i))
  <2>1. Section(more, i) = Section(lines, i)
    BY <1>1, <1>5, <1>6, <1>7, <1>9
  <2> QED
    BY <1>7, <1>9, <2>1 DEF n, more
<1> QED
  BY <1>8, <1>9

LEMMA NewSection ==
    ASSUME NEW lines \in Seq(Line), NEW line \in Line
    PROVE  Section(Append(lines, line), Len(lines) + 1) = {}
BY OneMoreLine DEF Section

-----------------------------------------------------------------------------
(* The ports at some positions.                                            *)

LEMMA ReadablePort ==
    ASSUME NEW line \in Line, IsPort(line)
    PROVE  line \in PortLine /\ PortOf(line) \in Port
<1>1. line \in PortLine
  BY DEF Line, HeaderLine, OtherLine, IsPort
<1> QED
  BY <1>1 DEF PortLine, IsPort, PortOf, Port

LEMMA PortsAtType ==
    ASSUME NEW lines \in Seq(Line), NEW I \in SUBSET Positions(lines)
    PROVE  PortsAt(lines, I) \in Seq(Port)
<1> DEFINE J == {i \in I : IsPort(lines[i])}
           at == InOrder(J)
<1>1. J \in SUBSET Nat /\ IsFiniteSet(J)
  BY PositionsFinite
<1>2. /\ Cardinality(J) \in Nat /\ DOMAIN at = 1..Cardinality(J)
      /\ \A k \in 1..Cardinality(J) : at[k] \in J
  BY <1>1, OrderedRanks
<1>3. ASSUME NEW i \in J
      PROVE  PortOf(lines[i]) \in Port
  <2>1. i \in 1..Len(lines) /\ IsPort(lines[i])
    BY DEF Positions
  <2>2. lines[i] \in Line
    BY <2>1
  <2> QED
    BY <2>1, <2>2, ReadablePort
<1> HIDE DEF J, at
<1>4. [k \in DOMAIN at |-> PortOf(lines[at[k]])] \in Seq(Port)
  BY <1>2, <1>3
<1> QED
  BY <1>4 DEF PortsAt, J, at

LEMMA NoPorts ==
    ASSUME NEW lines
    PROVE  PortsAt(lines, {}) = <<>>
<1>1. {i \in {} : IsPort(lines[i])} = {}
  OBVIOUS
<1>2. DOMAIN InOrder({}) = 1..0
  BY OrderedEmpty
<1> QED
  BY <1>1, <1>2 DEF PortsAt

\* Positions among the old lines have the ports they had.
LEMMA OldPorts ==
    ASSUME NEW lines \in Seq(Line), NEW line \in Line,
           NEW I \in SUBSET Positions(lines)
    PROVE  PortsAt(Append(lines, line), I) = PortsAt(lines, I)
<1> DEFINE more == Append(lines, line)
           J == {i \in I : IsPort(lines[i])}
           at == InOrder(J)
<1>1. \A i \in I : more[i] = lines[i]
  <2>1. \A i \in Positions(lines) : more[i] = lines[i]
    BY OneMoreLine
  <2> QED
    BY <2>1
<1>2. {i \in I : IsPort(more[i])} = J
  BY <1>1
<1>3. J \in SUBSET Nat /\ IsFiniteSet(J)
  BY PositionsFinite
<1>4. /\ DOMAIN at = 1..Cardinality(J)
      /\ \A k \in 1..Cardinality(J) : at[k] \in J
  BY <1>3, OrderedRanks
<1>5. \A k \in DOMAIN at : more[at[k]] = lines[at[k]]
  BY <1>1, <1>4
<1> HIDE DEF more, J, at
<1>6. [k \in DOMAIN at |-> PortOf(more[at[k]])]
        = [k \in DOMAIN at |-> PortOf(lines[at[k]])]
  BY <1>5
<1>7. PortsAt(more, I) = [k \in DOMAIN at |-> PortOf(more[at[k]])]
  BY <1>2 DEF PortsAt, at
<1>8. PortsAt(lines, I) = [k \in DOMAIN at |-> PortOf(lines[at[k]])]
  BY DEF PortsAt, at, J
<1> QED
  BY <1>6, <1>7, <1>8 DEF more

\* The new line adds its port, if it is a readable port line.
LEMMA NewPort ==
    ASSUME NEW lines \in Seq(Line), NEW line \in Line,
           NEW I \in SUBSET Positions(lines)
    PROVE  PortsAt(Append(lines, line), I \cup {Len(lines) + 1}) =
             IF IsPort(line) THEN Append(PortsAt(lines, I), PortOf(line))
             ELSE PortsAt(lines, I)
<1> DEFINE n == Len(lines) + 1
           more == Append(lines, line)
           J == {i \in I : IsPort(lines[i])}
           s == InOrder(J)
           old == PortsAt(lines, I)
<1>1. /\ n \in Nat /\ more[n] = line
      /\ \A i \in I : more[i] = lines[i] /\ i < n
  <2>1. /\ n \in Nat /\ more[n] = line
        /\ \A i \in Positions(lines) : more[i] = lines[i]
        /\ \A i \in Positions(lines) : i < n
    BY OneMoreLine
  <2> HIDE DEF n, more
  <2> QED
    BY <2>1
<1>2. J \in SUBSET Nat /\ IsFiniteSet(J)
  BY PositionsFinite
<1>3. /\ Cardinality(J) \in Nat /\ DOMAIN s = 1..Cardinality(J) /\ s \in Seq(J)
      /\ Len(s) = Cardinality(J)
      /\ \A k \in 1..Cardinality(J) : s[k] \in J
  BY <1>2, OrderedRanks
<1>4. old = [k \in 1..Cardinality(J) |-> PortOf(lines[s[k]])]
  BY <1>3 DEF PortsAt
<1>5. CASE ~IsPort(line)
  <2>1. {i \in I \cup {n} : IsPort(more[i])} = {i \in I : IsPort(more[i])}
    BY <1>1, <1>5
  <2>2. PortsAt(more, I \cup {n}) = PortsAt(more, I)
    BY <2>1 DEF PortsAt
  <2> QED
    BY <1>5, <2>2, OldPorts
<1>6. CASE IsPort(line)
  <2>1. {i \in I \cup {n} : IsPort(more[i])} = J \cup {n}
    BY <1>1, <1>6
  <2>2. InOrder(J \cup {n}) = Append(s, n)
    BY <1>1, <1>2, OrderedLast
  <2>3. PortsAt(more, I \cup {n}) =
          [k \in DOMAIN Append(s, n) |-> PortOf(more[Append(s, n)[k]])]
    BY <2>1, <2>2 DEF PortsAt
  <2>4. old \in Seq(Port)
    BY PortsAtType
  <2> DEFINE c == Cardinality(J)
             t == Append(s, n)
  <2>5. /\ c \in Nat /\ DOMAIN t = 1..(c + 1)
        /\ \A k \in 1..c : t[k] = s[k]
        /\ t[c + 1] = n
    <3>1. s \in Seq(Nat) /\ n \in Nat /\ Len(s) = c
      BY <1>1, <1>2, <1>3, SeqMonotonic
    <3> HIDE DEF s, n
    <3>2. /\ t \in Seq(Nat) /\ Len(t) = Len(s) + 1
          /\ \A k \in 1..Len(s) : t[k] = s[k]
          /\ t[Len(s) + 1] = n
      <4>1. t \in Seq(Nat) /\ Len(t) = Len(s) + 1
        BY <3>1
      <4>2. \A k \in 1..Len(s) : t[k] = s[k]
        BY <3>1
      <4>3. t[Len(s) + 1] = n
        BY <3>1
      <4> QED
        BY <4>1, <4>2, <4>3
    <3>3. DOMAIN t = 1..Len(t)
      BY <3>2, LenProperties
    <3> HIDE DEF c, t
    <3> QED
      BY <1>3, <3>1, <3>2, <3>3 DEF c
  <2>6. \A k \in 1..c : more[s[k]] = lines[s[k]]
    BY <1>1, <1>3
  <2> HIDE DEF n, more, J, s, old, c, t
  <2>7. /\ Len(old) = c
        /\ \A k \in 1..c : old[k] = PortOf(lines[s[k]])
    BY <1>4, <2>4, <2>5 DEF c
  <2>8. [k \in DOMAIN t |-> PortOf(more[t[k]])] = Append(old, PortOf(line))
    <3>1. /\ DOMAIN Append(old, PortOf(line)) = 1..(c + 1)
          /\ \A k \in 1..c : Append(old, PortOf(line))[k] = old[k]
          /\ Append(old, PortOf(line))[c + 1] = PortOf(line)
      BY <2>4, <2>5, <2>7
    <3>2. ASSUME NEW k \in 1..(c + 1)
          PROVE  PortOf(more[t[k]]) = Append(old, PortOf(line))[k]
      <4>1. k \in 1..c \/ k = c + 1
        BY <2>5
      <4> QED
        BY <1>1, <2>5, <2>6, <2>7, <3>1, <4>1
    <3>3. Append(old, PortOf(line)) =
            [k \in 1..(c + 1) |-> Append(old, PortOf(line))[k]]
      <4>1. PortOf(line) \in Port
        BY <1>6, ReadablePort
      <4>2. Append(old, PortOf(line)) \in Seq(Port)
        BY <2>4, <4>1
      <4>3. Append(old, PortOf(line)) \in [1..Len(Append(old, PortOf(line))) -> Port]
        BY <4>2, LenProperties
      <4> QED
        BY <3>1, <4>3
    <3> QED
      BY <2>5, <3>2, <3>3
  <2> QED
    BY <1>6, <2>3, <2>8 DEF t, n, more, old
<1> QED
  BY <1>5, <1>6

-----------------------------------------------------------------------------
(* What one more line does to the hubs of the reference.                   *)

LEMMA ReadableShape ==
    ASSUME NEW lines \in Seq(Line)
    PROVE  LET S == ReadableHeaders(lines)
               c == Cardinality(S)
           IN  /\ S \in SUBSET Headers(lines) /\ S \in SUBSET Positions(lines)
               /\ S \in SUBSET Nat /\ IsFiniteSet(S) /\ c \in Nat
               /\ Readable(lines) \in Seq(Hub)
               /\ Len(Readable(lines)) = c
               /\ \A k \in 1..c : /\ InOrder(S)[k] \in S
                                  /\ Readable(lines)[k] = HubAt(lines, InOrder(S)[k])
<1> DEFINE S == ReadableHeaders(lines)
           c == Cardinality(S)
           at == InOrder(S)
<1>1. S \in SUBSET Headers(lines) /\ S \in SUBSET Positions(lines)
  BY DEF ReadableHeaders, Headers
<1>2. S \in SUBSET Nat /\ IsFiniteSet(S)
  BY <1>1, PositionsFinite
<1>3. c \in Nat /\ DOMAIN at = 1..c /\ \A k \in 1..c : at[k] \in S
  BY <1>2, OrderedRanks
<1>4. ASSUME NEW i \in S
      PROVE  HubAt(lines, i) \in Hub
  <2>1. i \in 1..Len(lines) /\ lines[i].kind = "header" /\ lines[i].hub # None
    BY DEF ReadableHeaders, Headers, Positions
  <2>2. lines[i] \in Line
    BY <2>1
  <2>3. lines[i] \in HeaderLine
    BY <2>1, <2>2 DEF Line, PortLine, OtherLine
  <2>4. lines[i].hub \in Hubs
    BY <2>1, <2>3 DEF HeaderLine
  <2>5. PortsAt(lines, Section(lines, i)) \in Seq(Port)
    BY PortsAtType DEF Section
  <2> QED
    BY <2>4, <2>5 DEF HubAt, Hub
<1> HIDE DEF S, c, at
<1>5. Readable(lines) = [k \in 1..c |-> HubAt(lines, at[k])]
  BY <1>3 DEF Readable, at, S
<1>6. \A k \in 1..c : HubAt(lines, at[k]) \in Hub
  BY <1>3, <1>4
<1>7. /\ Readable(lines) \in Seq(Hub) /\ Len(Readable(lines)) = c
      /\ \A k \in 1..c : Readable(lines)[k] = HubAt(lines, at[k])
  BY <1>3, <1>5, <1>6
<1> QED
  BY <1>1, <1>2, <1>3, <1>7 DEF S, c, at

\* The hub the next port goes to, if it goes to any.
LastReadable(lines) ==
    \E m \in ReadableHeaders(lines) : IsLastHeader(lines, m)

LEMMA HubAtExtends ==
    ASSUME NEW lines \in Seq(Line), NEW line \in Line, NEW i \in Headers(lines)
    PROVE  LET more == Append(lines, line)
           IN  /\ HubAt(more, i).hub = HubAt(lines, i).hub
               /\ HubAt(more, i).ports =
                    IF IsPort(line) /\ IsLastHeader(lines, i)
                    THEN Append(HubAt(lines, i).ports, PortOf(line))
                    ELSE HubAt(lines, i).ports
               /\ ~(IsPort(line) /\ IsLastHeader(lines, i)) =>
                    HubAt(more, i) = HubAt(lines, i)
<1> DEFINE n == Len(lines) + 1
           more == Append(lines, line)
           I == Section(lines, i)
<1>1. i \in Positions(lines) /\ more[i] = lines[i]
  <2>1. \A j \in Positions(lines) : more[j] = lines[j]
    BY OneMoreLine
  <2>2. i \in Positions(lines)
    BY DEF Headers
  <2> QED
    BY <2>1, <2>2
<1>2. /\ I \in SUBSET Positions(lines)
      /\ Section(more, i) = IF line.kind # "header" /\ IsLastHeader(lines, i)
                            THEN I \cup {n} ELSE I
  BY SectionsExtend
<1>3. PortsAt(more, I) = PortsAt(lines, I)
  BY <1>2, OldPorts
<1>4. PortsAt(more, I \cup {n}) =
        IF IsPort(line) THEN Append(PortsAt(lines, I), PortOf(line))
        ELSE PortsAt(lines, I)
  BY <1>2, NewPort
<1>5. IsPort(line) => line.kind # "header"
  BY DEF IsPort
<1> HIDE DEF n, more, I
<1>6. PortsAt(more, Section(more, i)) =
        IF IsPort(line) /\ IsLastHeader(lines, i)
        THEN Append(PortsAt(lines, I), PortOf(line))
        ELSE PortsAt(lines, I)
  BY <1>2, <1>3, <1>4, <1>5
<1> QED
  BY <1>1, <1>6 DEF HubAt, more, I

\* A header that parses adds a hub without ports.
LEMMA HeaderAddsHub ==
    ASSUME NEW lines \in Seq(Line), NEW line \in Line,
           line.kind = "header", line.hub # None
    PROVE  /\ LastReadable(Append(lines, line))
           /\ Readable(Append(lines, line)) =
                Append(Readable(lines), [hub |-> line.hub, ports |-> <<>>])
<1> DEFINE n == Len(lines) + 1
           more == Append(lines, line)
           S == ReadableHeaders(lines)
           c == Cardinality(S)
           new == [hub |-> line.hub, ports |-> <<>>]
           old == Readable(lines)
<1>1. /\ n \in Nat /\ more[n] = line /\ more \in Seq(Line)
      /\ n \notin Positions(lines)
      /\ \A i \in Positions(lines) : i < n
  BY OneMoreLine
<1>2. ReadableHeaders(more) = S \cup {n} /\ Headers(more) = Headers(lines) \cup {n}
  BY HeadersExtend
<1>3. /\ S \in SUBSET Headers(lines) /\ S \in SUBSET Positions(lines)
      /\ S \in SUBSET Nat /\ IsFiniteSet(S) /\ c \in Nat
      /\ old \in Seq(Hub) /\ Len(old) = c
      /\ \A k \in 1..c : InOrder(S)[k] \in S /\ old[k] = HubAt(lines, InOrder(S)[k])
  BY ReadableShape
<1>4. HubAt(more, n) = new
  <2>1. Section(more, n) = {}
    BY NewSection
  <2> QED
    BY <1>1, <2>1, NoPorts DEF HubAt
<1>5. \A i \in S : HubAt(more, i) = HubAt(lines, i)
  <2>1. ~IsPort(line)
    BY DEF IsPort
  <2> QED
    BY <1>3, <2>1, HubAtExtends
<1>6. /\ IsFiniteSet(S \cup {n}) /\ Cardinality(S \cup {n}) = c + 1
      /\ InOrder(S \cup {n}) = Append(InOrder(S), n)
  <2>1. n \notin S /\ \A i \in S : i < n
    BY <1>1, <1>3
  <2> QED
    BY <1>1, <1>3, <2>1, FS_AddElement, OrderedLast
<1> DEFINE full == Readable(more)
<1>7. /\ full \in Seq(Hub) /\ Len(full) = c + 1
      /\ \A k \in 1..(c + 1) : full[k] = HubAt(more, InOrder(S \cup {n})[k])
  <2> HIDE DEF n, more, S
  <2>1. LET T == ReadableHeaders(more)
            d == Cardinality(T)
        IN  /\ full \in Seq(Hub) /\ Len(full) = d
            /\ \A k \in 1..d : full[k] = HubAt(more, InOrder(T)[k])
    BY <1>1, ReadableShape
  <2> QED
    BY <1>2, <1>6, <2>1
<1>8. /\ \A k \in 1..c : InOrder(S \cup {n})[k] = InOrder(S)[k]
      /\ InOrder(S \cup {n})[c + 1] = n
  <2>1. InOrder(S) \in Seq(S) /\ Len(InOrder(S)) = c
    BY <1>3, OrderedRanks
  <2>2. InOrder(S) \in Seq(Nat)
    BY <1>3, <2>1, SeqMonotonic
  <2> DEFINE at == InOrder(S)
  <2> HIDE DEF S, n, c, at
  <2>3. \A k \in 1..Len(at) : Append(at, n)[k] = at[k]
    BY <1>1, <2>2 DEF at
  <2>4. Append(at, n)[Len(at) + 1] = n
    BY <1>1, <2>2 DEF at
  <2> QED
    BY <1>6, <2>1, <2>3, <2>4 DEF at
<1>9. full = Append(old, new)
  <2> HIDE DEF n, more, S, c, old, new, full
  <2>1. new \in Hub
    <3>1. line.hub \in Hubs
      BY DEF Line, HeaderLine, PortLine, OtherLine
    <3> QED
      BY <3>1 DEF new, Hub
  <2>2. /\ Append(old, new) \in Seq(Hub) /\ Len(Append(old, new)) = c + 1
        /\ \A k \in 1..c : Append(old, new)[k] = old[k]
        /\ Append(old, new)[c + 1] = new
    BY <1>3, <2>1, AppendProperties
  <2>3. ASSUME NEW k \in 1..(c + 1)
        PROVE  full[k] = Append(old, new)[k]
    <3>1. CASE k \in 1..c
      BY <1>3, <1>5, <1>7, <1>8, <2>2, <3>1
    <3>2. CASE k = c + 1
      BY <1>4, <1>7, <1>8, <2>2, <3>2
    <3> QED
      BY <1>3, <3>1, <3>2
  <2> QED
    BY <1>7, <2>2, <2>3, SeqEqual
<1>10. LastReadable(more)
  <2>1. \A m \in Headers(more) : m <= n
    <3>1. \A m \in Headers(lines) : m <= n
      BY <1>1 DEF Headers, Positions
    <3> QED
      BY <1>1, <1>2, <3>1
  <2> QED
    BY <1>2, <2>1 DEF LastReadable, IsLastHeader
<1> QED
  BY <1>9, <1>10

\* A readable port line goes to the last hub, if the last header parses.
LEMMA PortGoesToLast ==
    ASSUME NEW lines \in Seq(Line), NEW line \in Line, IsPort(line),
           LastReadable(lines)
    PROVE  LET more == Append(lines, line)
               c == Len(Readable(lines))
           IN  /\ c \in Nat \ {0} /\ Len(Readable(more)) = c
               /\ \A k \in 1..c : k # c => Readable(more)[k] = Readable(lines)[k]
               /\ Readable(more)[c].hub = Readable(lines)[c].hub
               /\ Readable(more)[c].ports =
                    Append(Readable(lines)[c].ports, PortOf(line))
<1> DEFINE more == Append(lines, line)
           S == ReadableHeaders(lines)
           c == Cardinality(S)
           old == Readable(lines)
           new == Readable(more)
<1>1. PICK m \in S : IsLastHeader(lines, m)
  BY DEF LastReadable
<1>2. /\ S \in SUBSET Headers(lines) /\ S \in SUBSET Nat /\ IsFiniteSet(S)
      /\ old \in Seq(Hub) /\ Len(old) = c
      /\ \A k \in 1..c : InOrder(S)[k] \in S /\ old[k] = HubAt(lines, InOrder(S)[k])
  BY ReadableShape
<1>3. \A i \in S : i <= m
  BY <1>1, <1>2 DEF IsLastHeader
<1>4. /\ c \in Nat \ {0} /\ InOrder(S)[c] = m
      /\ \A k \in 1..c : k # c => InOrder(S)[k] # m
  BY <1>2, <1>3, LastRank
<1>5. ReadableHeaders(more) = S
  <2>1. line.kind # "header"
    BY DEF IsPort
  <2> QED
    BY <2>1, HeadersExtend
<1>6. Len(new) = c /\ \A k \in 1..c : new[k] = HubAt(more, InOrder(S)[k])
  <2>1. more \in Seq(Line)
    BY OneMoreLine
  <2> HIDE DEF more, S
  <2>2. LET T == ReadableHeaders(more)
            d == Cardinality(T)
        IN  Len(new) = d /\ \A k \in 1..d : new[k] = HubAt(more, InOrder(T)[k])
    BY <2>1, ReadableShape
  <2> QED
    BY <1>5, <2>2
<1>7. ASSUME NEW i \in S, i # m
      PROVE  HubAt(more, i) = HubAt(lines, i)
  <2>1. ~IsLastHeader(lines, i)
    <3>1. m \in Nat /\ i \in Nat /\ m \in Headers(lines)
      BY <1>1, <1>2
    <3> QED
      BY <1>3, <1>7, <3>1 DEF IsLastHeader
  <2> QED
    BY <1>2, <2>1, HubAtExtends
<1>8. /\ HubAt(more, m).hub = HubAt(lines, m).hub
      /\ HubAt(more, m).ports = Append(HubAt(lines, m).ports, PortOf(line))
  BY <1>1, <1>2, HubAtExtends
<1> HIDE DEF more, S, c, old, new
<1>9. c \in 1..c
  BY <1>4
<1>10. \A k \in 1..c : k # c => new[k] = old[k]
  BY <1>2, <1>4, <1>6, <1>7
<1>11. /\ new[c].hub = old[c].hub
       /\ new[c].ports = Append(old[c].ports, PortOf(line))
  BY <1>2, <1>4, <1>6, <1>8, <1>9
<1> QED
  BY <1>2, <1>4, <1>6, <1>10, <1>11 DEF new, old, more

\* Any other line changes nothing.
LEMMA OtherLinesAddNothing ==
    ASSUME NEW lines \in Seq(Line), NEW line \in Line,
           ~(line.kind = "header" /\ line.hub # None),
           ~(IsPort(line) /\ LastReadable(lines))
    PROVE  Readable(Append(lines, line)) = Readable(lines)
<1> DEFINE more == Append(lines, line)
           S == ReadableHeaders(lines)
           c == Cardinality(S)
           old == Readable(lines)
           new == Readable(more)
<1>1. /\ S \in SUBSET Headers(lines) /\ c \in Nat
      /\ old \in Seq(Hub) /\ Len(old) = c
      /\ \A k \in 1..c : InOrder(S)[k] \in S /\ old[k] = HubAt(lines, InOrder(S)[k])
  BY ReadableShape
<1>2. ReadableHeaders(more) = S
  BY HeadersExtend
<1>3. /\ new \in Seq(Hub) /\ Len(new) = c
      /\ \A k \in 1..c : new[k] = HubAt(more, InOrder(S)[k])
  <2>1. more \in Seq(Line)
    BY OneMoreLine
  <2> HIDE DEF more, S
  <2>2. LET T == ReadableHeaders(more)
            d == Cardinality(T)
        IN  /\ new \in Seq(Hub) /\ Len(new) = d
            /\ \A k \in 1..d : new[k] = HubAt(more, InOrder(T)[k])
    BY <2>1, ReadableShape
  <2> QED
    BY <1>2, <2>2
<1>4. ASSUME NEW i \in S
      PROVE  HubAt(more, i) = HubAt(lines, i)
  <2>1. ~(IsPort(line) /\ IsLastHeader(lines, i))
    BY DEF LastReadable
  <2>2. i \in Headers(lines)
    BY <1>1
  <2> QED
    BY <2>1, <2>2, HubAtExtends
<1> HIDE DEF more, S, c, old, new
<1>5. \A k \in 1..c : new[k] = old[k]
  BY <1>1, <1>3, <1>4
<1>6. new = old
  BY <1>1, <1>3, <1>5, SeqEqual
<1> QED
  BY <1>6 DEF new, old, more

\* A header that does not parse leaves no hub for the ports after it.
LEMMA LastReadableExtends ==
    ASSUME NEW lines \in Seq(Line), NEW line \in Line
    PROVE  LastReadable(Append(lines, line)) <=>
             IF line.kind = "header" THEN line.hub # None ELSE LastReadable(lines)
<1> DEFINE n == Len(lines) + 1
           more == Append(lines, line)
<1>1. n \in Nat /\ \A i \in Positions(lines) : i \in Nat /\ i < n
  BY OneMoreLine
<1>2. /\ Headers(more) = IF line.kind = "header"
                         THEN Headers(lines) \cup {n} ELSE Headers(lines)
      /\ ReadableHeaders(more) =
           IF line.kind = "header" /\ line.hub # None
           THEN ReadableHeaders(lines) \cup {n} ELSE ReadableHeaders(lines)
  BY HeadersExtend
<1>3. CASE line.kind # "header"
  BY <1>2, <1>3 DEF LastReadable, IsLastHeader
<1>4. CASE line.kind = "header" /\ line.hub # None
  BY <1>4, HeaderAddsHub
<1>5. CASE line.kind = "header" /\ line.hub = None
  <2>1. ReadableHeaders(lines) \subseteq Positions(lines)
    BY DEF ReadableHeaders, Headers
  <2>2. ASSUME NEW m \in ReadableHeaders(lines)
        PROVE  ~IsLastHeader(more, m)
    <3>1. m \in Nat /\ m < n
      BY <1>1, <2>1
    <3>2. n \in Headers(more)
      BY <1>2, <1>5
    <3> QED
      BY <1>1, <3>1, <3>2 DEF IsLastHeader
  <2>3. ~LastReadable(more)
    BY <1>2, <1>5, <2>2 DEF LastReadable
  <2> QED
    BY <1>5, <2>3
<1> QED
  BY <1>3, <1>4, <1>5

-----------------------------------------------------------------------------
(* Suffixes and concatenations of sequences.                               *)

LEMMA SuffixByPosition ==
    ASSUME NEW S, NEW s \in Seq(S), NEW t \in Seq(S)
    PROVE  IsSuffix(s, t) <=>
             /\ Len(s) <= Len(t)
             /\ \A i \in 1..Len(s) : s[Len(s) - i + 1] = t[Len(t) - i + 1]
<1> DEFINE m == Len(s)
           n == Len(t)
           r == Reverse(s)
           q == Reverse(t)
<1>1. m \in Nat /\ n \in Nat
  OBVIOUS
<1>2. /\ r \in Seq(S) /\ Len(r) = m
      /\ \A i \in 1..m : r[i] = s[m - i + 1]
  <2>1. \A i \in 1..m : s[m - i + 1] \in S
    OBVIOUS
  <2> QED
    BY <1>1, <2>1 DEF Reverse
<1>3. /\ q \in Seq(S) /\ Len(q) = n
      /\ \A i \in 1..n : q[i] = t[n - i + 1]
  <2>1. \A i \in 1..n : t[n - i + 1] \in S
    OBVIOUS
  <2> QED
    BY <1>1, <2>1 DEF Reverse
<1> HIDE DEF m, n, r, q
<1>4. SubSeq(r, 1, m) = r
  BY <1>2, SubSeqFull
<1>5. CASE m <= n
  <2> DEFINE u == SubSeq(q, 1, m)
  <2>1. /\ u \in Seq(S) /\ Len(u) = m
        /\ \A i \in 1..m : u[i] = q[i]
    BY <1>1, <1>3, <1>5
  <2> HIDE DEF u
  <2>2. r = u <=> \A i \in 1..m : r[i] = u[i]
    BY <1>2, <2>1, SeqEqual
  <2>3. \A i \in 1..m : i \in 1..n
    BY <1>1, <1>5
  <2>4. r = u <=> \A i \in 1..m : s[m - i + 1] = t[n - i + 1]
    BY <1>2, <1>3, <2>1, <2>2, <2>3
  <2> QED
    BY <1>2, <1>3, <1>4, <1>5, <2>4 DEF IsSuffix, IsPrefix, m, n, r, q, u
<1>6. CASE ~(m <= n)
  BY <1>2, <1>3, <1>6 DEF IsSuffix, IsPrefix, m, n, r, q
<1> QED
  BY <1>5, <1>6

LEMMA EmptySuffix ==
    ASSUME NEW S, NEW t \in Seq(S)
    PROVE  IsSuffix(<<>>, t)
<1> DEFINE e == <<>>
<1>1. e \in Seq(S) /\ Len(e) = 0 /\ Len(t) \in Nat
  OBVIOUS
<1> HIDE DEF e
<1>2. Len(e) <= Len(t) /\ \A i \in 1..Len(e) : e[Len(e) - i + 1] = t[Len(t) - i + 1]
  BY <1>1
<1>3. IsSuffix(e, t)
  BY <1>1, <1>2, SuffixByPosition, Zenon
<1> QED
  BY <1>3 DEF e

LEMMA SuffixAppend ==
    ASSUME NEW S, NEW s \in Seq(S), NEW t \in Seq(S), NEW x \in S, IsSuffix(s, t)
    PROVE  IsSuffix(Append(s, x), Append(t, x))
<1> DEFINE m == Len(s)
           n == Len(t)
           u == Append(s, x)
           v == Append(t, x)
<1>1. /\ m \in Nat /\ n \in Nat /\ m <= n
      /\ \A i \in 1..m : s[m - i + 1] = t[n - i + 1]
  BY SuffixByPosition
<1>2. /\ u \in Seq(S) /\ Len(u) = m + 1
      /\ \A i \in 1..m : u[i] = s[i]
      /\ u[m + 1] = x
  BY AppendProperties
<1>3. /\ v \in Seq(S) /\ Len(v) = n + 1
      /\ \A i \in 1..n : v[i] = t[i]
      /\ v[n + 1] = x
  BY AppendProperties
<1> HIDE DEF m, n, u, v
<1>4. ASSUME NEW i \in 1..(m + 1)
      PROVE  u[(m + 1) - i + 1] = v[(n + 1) - i + 1]
  <2>1. CASE i = 1
    <3>1. (m + 1) - i + 1 = m + 1 /\ (n + 1) - i + 1 = n + 1
      BY <1>1, <2>1
    <3> QED
      BY <1>2, <1>3, <3>1
  <2>2. CASE i # 1
    <3> DEFINE j == i - 1
    <3>1. /\ j \in 1..m
          /\ (m + 1) - i + 1 = m - j + 1 /\ (n + 1) - i + 1 = n - j + 1
          /\ m - j + 1 \in 1..m /\ n - j + 1 \in 1..n
      BY <1>1, <2>2
    <3> HIDE DEF j
    <3> QED
      BY <1>1, <1>2, <1>3, <3>1
  <2> QED
    BY <2>1, <2>2
<1>5. /\ Len(u) <= Len(v)
      /\ \A i \in 1..Len(u) : u[Len(u) - i + 1] = v[Len(v) - i + 1]
  BY <1>1, <1>2, <1>3, <1>4
<1>6. IsSuffix(u, v)
  BY <1>2, <1>3, <1>5, SuffixByPosition, Zenon
<1> QED
  BY <1>6 DEF u, v

\* FlattenSeq is defined by a recursive function; there is one for every
\* number of sequences.
Flattening(seqs, n) ==
    CHOOSE f : f = [i \in 1..n |-> IF i = 1 THEN seqs[i] ELSE f[i-1] \o seqs[i]]

LEMMA LeastNumber ==
    ASSUME NEW T \in SUBSET Nat, T # {}
    PROVE  \E x \in T : \A y \in T : ~(y < x)
<1>1. PICK x \in T : \A y \in T : ~(<<y, x>> \in OpToRel(<, Nat))
  BY WFMin, NatLessThanWellFounded, Zenon
<1>2. \A y \in T : ~(y < x)
  BY <1>1 DEF OpToRel
<1> QED
  BY <1>2

LEMMA FlatteningExists ==
    ASSUME NEW seqs, NEW n \in Nat
    PROVE  \E f : f = [i \in 1..n |-> IF i = 1 THEN seqs[i] ELSE f[i-1] \o seqs[i]]
<1> DEFINE Exists(m) ==
             \E f : f = [i \in 1..m |-> IF i = 1 THEN seqs[i] ELSE f[i-1] \o seqs[i]]
           Missing == {m \in Nat : ~Exists(m)}
<1>1. SUFFICES ASSUME Missing # {}
               PROVE  FALSE
  OBVIOUS
<1>2. PICK m \in Missing : \A k \in Missing : ~(k < m)
  BY <1>1, LeastNumber
<1>3. ASSUME NEW k \in Nat, k < m
      PROVE  Exists(k)
  BY <1>2, <1>3
<1>4. m # 0
  <2>1. Exists(0)
    <3> DEFINE f == [i \in 1..0 |-> 0]
    <3>1. f = [i \in 1..0 |-> IF i = 1 THEN seqs[i] ELSE f[i-1] \o seqs[i]]
      OBVIOUS
    <3> QED
      BY <3>1
  <2> QED
    BY <2>1
<1>5. PICK f : f = [i \in 1..(m - 1) |->
                      IF i = 1 THEN seqs[i] ELSE f[i-1] \o seqs[i]]
  <2>1. m - 1 \in Nat /\ m - 1 < m
    BY <1>4
  <2> QED
    BY <1>3, <2>1
<1> DEFINE g == [i \in 1..m |->
                   IF i < m THEN f[i] ELSE IF m = 1 THEN seqs[m] ELSE f[m-1] \o seqs[m]]
<1>6. g = [i \in 1..m |-> IF i = 1 THEN seqs[i] ELSE g[i-1] \o seqs[i]]
  <2>1. ASSUME NEW i \in 1..m
        PROVE  g[i] = IF i = 1 THEN seqs[i] ELSE g[i-1] \o seqs[i]
    <3>1. CASE i < m
      <4>1. i \in 1..(m - 1) /\ (i # 1 => i - 1 \in 1..m /\ i - 1 < m)
        BY <3>1
      <4>2. f[i] = IF i = 1 THEN seqs[i] ELSE f[i-1] \o seqs[i]
        BY <1>5, <4>1
      <4>3. g[i] = f[i] /\ (i # 1 => g[i-1] = f[i-1])
        BY <3>1, <4>1
      <4> QED
        BY <4>2, <4>3
    <3>2. CASE i = m
      <4>1. i # 1 => i - 1 \in 1..m /\ i - 1 < m
        BY <3>2
      <4>2. i # 1 => g[i-1] = f[i-1]
        BY <4>1
      <4> QED
        BY <3>2, <4>2
    <3> QED
      BY <3>1, <3>2
  <2> HIDE DEF g
  <2>2. g = [i \in 1..m |-> g[i]]
    BY DEF g
  <2> QED
    BY <2>1, <2>2
<1>7. Exists(m)
  BY <1>6
<1> QED
  BY <1>2, <1>7

LEMMA FlatteningEquation ==
    ASSUME NEW seqs, NEW n \in Nat, NEW i \in 1..n
    PROVE  Flattening(seqs, n)[i] =
             IF i = 1 THEN seqs[i] ELSE Flattening(seqs, n)[i-1] \o seqs[i]
<1> DEFINE f == Flattening(seqs, n)
<1>1. f = [j \in 1..n |-> IF j = 1 THEN seqs[j] ELSE f[j-1] \o seqs[j]]
  BY FlatteningExists DEF Flattening
<1> HIDE DEF f
<1>2. f[i] = IF i = 1 THEN seqs[i] ELSE f[i-1] \o seqs[i]
  BY <1>1
<1> QED
  BY <1>2 DEF f

\* Two sequences that begin alike are flattened alike so far.
LEMMA FlatteningAlike ==
    ASSUME NEW seqs, NEW more, NEW n \in Nat, NEW m \in Nat, n <= m,
           \A i \in 1..n : more[i] = seqs[i],
           NEW k \in 1..n
    PROVE  Flattening(more, m)[k] = Flattening(seqs, n)[k]
<1> DEFINE f == Flattening(seqs, n)
           g == Flattening(more, m)
           Bad == {i \in 1..n : g[i] # f[i]}
<1>1. SUFFICES ASSUME Bad # {}
               PROVE  FALSE
  OBVIOUS
<1>2. PICK b \in Bad : \A i \in Bad : ~(i < b)
  <2>1. Bad \in SUBSET Nat
    OBVIOUS
  <2> HIDE DEF Bad
  <2> QED
    BY <1>1, <2>1, LeastNumber
<1>3. ASSUME NEW i \in 1..n, i < b
      PROVE  g[i] = f[i]
  BY <1>2, <1>3, Zenon
<1>4. b \in 1..n /\ b \in 1..m /\ more[b] = seqs[b] /\ g[b] # f[b]
  OBVIOUS
<1>5. /\ f[b] = IF b = 1 THEN seqs[b] ELSE f[b-1] \o seqs[b]
      /\ g[b] = IF b = 1 THEN more[b] ELSE g[b-1] \o more[b]
  BY <1>4, FlatteningEquation
<1>6. b # 1 => b - 1 \in 1..n /\ b - 1 < b
  BY <1>4
<1> HIDE DEF f, g, Bad
<1> QED
  BY <1>3, <1>4, <1>5, <1>6

LEMMA FlattenIsFlattening ==
    ASSUME NEW seqs, Len(seqs) # 0
    PROVE  FlattenSeq(seqs) = Flattening(seqs, Len(seqs))[Len(seqs)]
BY DEF FlattenSeq, Flattening

LEMMA FlattenType ==
    ASSUME NEW S, NEW seqs \in Seq(Seq(S))
    PROVE  FlattenSeq(seqs) \in Seq(S)
<1> DEFINE n == Len(seqs)
           f == Flattening(seqs, n)
           Bad == {i \in 1..n : f[i] \notin Seq(S)}
<1>1. n \in Nat /\ \A i \in 1..n : seqs[i] \in Seq(S)
  OBVIOUS
<1>2. ASSUME Bad # {}
      PROVE  FALSE
  <2>1. PICK b \in Bad : \A i \in Bad : ~(i < b)
    <3>1. Bad \in SUBSET Nat
      OBVIOUS
    <3> HIDE DEF Bad
    <3> QED
      BY <1>2, <3>1, LeastNumber
  <2>2. b \in 1..n /\ f[b] \notin Seq(S)
    OBVIOUS
  <2>3. \A i \in 1..n : i < b => f[i] \in Seq(S)
    BY <2>1, Zenon
  <2>4. f[b] = IF b = 1 THEN seqs[b] ELSE f[b-1] \o seqs[b]
    BY <1>1, <2>2, FlatteningEquation
  <2>5. b # 1 => b - 1 \in 1..n /\ b - 1 < b
    BY <1>1, <2>2
  <2> HIDE DEF f, n, Bad
  <2>6. CASE b = 1
    BY <1>1, <2>2, <2>4, <2>6
  <2>7. CASE b # 1
    <3>1. f[b-1] \in Seq(S) /\ seqs[b] \in Seq(S)
      BY <1>1, <2>2, <2>3, <2>5, <2>7
    <3>2. f[b-1] \o seqs[b] \in Seq(S)
      BY <3>1, ConcatProperties
    <3> QED
      BY <2>2, <2>4, <2>7, <3>2
  <2> QED
    BY <2>6, <2>7
<1>3. CASE n = 0
  <2>1. seqs = <<>> /\ FlattenSeq(seqs) = seqs
    BY <1>3 DEF FlattenSeq
  <2>2. <<>> \in Seq(S)
    BY EmptySeq
  <2> QED
    BY <2>1, <2>2, Zenon
<1>4. CASE n # 0
  <2>1. n \in 1..n
    BY <1>1, <1>4
  <2>2. f[n] \in Seq(S)
    BY <1>2, <2>1
  <2> QED
    BY <1>4, <2>2, FlattenIsFlattening
<1> QED
  BY <1>3, <1>4

LEMMA FlattenAppend ==
    ASSUME NEW S, NEW seqs \in Seq(Seq(S)), NEW s \in Seq(S)
    PROVE  FlattenSeq(Append(seqs, s)) = FlattenSeq(seqs) \o s
<1> DEFINE n == Len(seqs)
           more == Append(seqs, s)
<1>1. /\ n \in Nat /\ Len(more) = n + 1
      /\ \A i \in 1..n : more[i] = seqs[i]
      /\ more[n + 1] = s
  BY AppendProperties
<1> HIDE DEF more
<1> DEFINE g == Flattening(more, n + 1)
<1>2. FlattenSeq(more) = g[n + 1]
  BY <1>1, FlattenIsFlattening
<1>3. g[n + 1] = IF n + 1 = 1 THEN more[n + 1] ELSE g[(n + 1) - 1] \o more[n + 1]
  <2>1. n + 1 \in Nat /\ n + 1 \in 1..(n + 1)
    BY <1>1
  <2> QED
    BY <2>1, FlatteningEquation
<1>4. CASE n = 0
  <2>1. seqs = <<>> /\ FlattenSeq(seqs) = seqs
    BY <1>4 DEF FlattenSeq
  <2>2. <<>> \o s = s
    OBVIOUS
  <2>3. g[n + 1] = s
    BY <1>1, <1>3, <1>4
  <2> QED
    BY <1>2, <2>1, <2>2, <2>3 DEF more
<1>5. CASE n # 0
  <2>1. FlattenSeq(seqs) = Flattening(seqs, n)[n]
    BY <1>5, FlattenIsFlattening
  <2>2. g[n] = Flattening(seqs, n)[n]
    <3>1. n \in 1..n /\ n + 1 \in Nat /\ n <= n + 1
      BY <1>1, <1>5
    <3> HIDE DEF n
    <3> QED
      BY <1>1, <3>1, FlatteningAlike
  <2>3. g[n + 1] = g[n] \o s
    <3>1. (n + 1) - 1 = n /\ n + 1 # 1
      BY <1>1, <1>5
    <3> HIDE DEF g, n
    <3> QED
      BY <1>1, <1>3, <3>1
  <2> QED
    BY <1>2, <2>1, <2>2, <2>3 DEF more
<1> QED
  BY <1>4, <1>5

-----------------------------------------------------------------------------
(* The parser's variables keep their types, and its current hub is that of *)
(* the last header, if that one parses.                                    *)

CurrentIsLast ==
    /\ finished => current_hub = None
    /\ ~finished => (current_hub # None <=> LastReadable(text))

ParserInv == TypeOK /\ CurrentIsLast

LEMMA FoundType ==
    ASSUME TypeOK
    PROVE  /\ Found \in Seq(Hub) /\ hubs \in Seq(Hub)
           /\ current_hub # None =>
                /\ [hub |-> current_hub, ports |-> current_ports] \in Hub
                /\ Found = Append(hubs, [hub |-> current_hub, ports |-> current_ports])
           /\ current_hub = None => Found = hubs
<1>1. CASE current_hub = None
  BY <1>1 DEF TypeOK, Found
<1>2. CASE current_hub # None
  <2>1. [hub |-> current_hub, ports |-> current_ports] \in Hub
    BY <1>2 DEF TypeOK, Hub
  <2> QED
    BY <1>2, <2>1 DEF TypeOK, Found, WithCurrent
<1> QED
  BY <1>1, <1>2

\* What a line is, and what reading it does to the hubs found.
LEMMA HeaderStep ==
    ASSUME TypeOK, NEW line \in HeaderLine, Header(line)
    PROVE  /\ line \in Line /\ line.kind = "header" /\ ~IsPort(line)
           /\ line.hub \in Hubs \cup {None}
           /\ ~finished /\ finished' = finished /\ text' = Append(text, line)
           /\ hubs' = Found /\ current_hub' = line.hub
           /\ current_ports' \in Seq(Port)
           /\ current_hub # None => current_ports' = <<>>
           /\ current_hub = None => current_ports' = current_ports
           /\ Found' = IF line.hub = None THEN Found
                       ELSE Append(Found, [hub |-> line.hub, ports |-> current_ports'])
<1>1. line \in Line /\ line.kind = "header" /\ line.hub \in Hubs \cup {None}
  BY DEF Line, HeaderLine
<1>2. /\ ~finished /\ finished' = finished /\ text' = Append(text, line)
      /\ hubs' = Found /\ current_hub' = line.hub
      /\ current_ports' = IF current_hub = None THEN current_ports ELSE <<>>
  BY DEF Header, Read, Found
<1>3. current_ports' \in Seq(Port)
  BY <1>2 DEF TypeOK
<1>4. Found' = IF line.hub = None THEN Found
               ELSE Append(Found, [hub |-> line.hub, ports |-> current_ports'])
  BY <1>2 DEF Found, WithCurrent
<1> QED
  BY <1>1, <1>2, <1>3, <1>4 DEF IsPort

LEMMA PortStep ==
    ASSUME TypeOK, NEW line \in PortLine, PortStatus(line)
    PROVE  /\ line \in Line /\ line.kind # "header"
           /\ ~finished /\ finished' = finished /\ text' = Append(text, line)
           /\ hubs' = hubs /\ current_hub' = current_hub
           /\ IsPort(line) => /\ PortOf(line) \in Port
                              /\ current_ports' = Append(current_ports, PortOf(line))
           /\ ~IsPort(line) => current_ports' = current_ports
<1>1. line \in Line /\ line.kind = "port"
  BY DEF Line, PortLine
<1>2. IsPort(line) <=> line.number # None
  BY <1>1 DEF IsPort
<1> QED
  BY <1>1, <1>2, ReadablePort DEF PortStatus, Read

LEMMA OtherStep ==
    ASSUME TypeOK, NEW line \in OtherLine, Other(line)
    PROVE  /\ line \in Line /\ line.kind # "header" /\ ~IsPort(line)
           /\ ~finished /\ finished' = finished /\ text' = Append(text, line)
           /\ hubs' = hubs /\ current_hub' = current_hub
           /\ current_ports' = current_ports
BY DEF Line, OtherLine, IsPort, Other, Read

LEMMA FinishStep ==
    ASSUME TypeOK, Finish
    PROVE  /\ ~finished /\ finished' = TRUE /\ text' = text
           /\ hubs' = Found /\ current_hub' = None /\ current_ports' = <<>>
           /\ Found' = Found
BY DEF Finish, Found

LEMMA ParserInit == Init => ParserInv
<1>1. ASSUME Init
      PROVE  TypeOK
  BY <1>1, EmptySeq, Zenon DEF Init, TypeOK
<1>2. ASSUME Init
      PROVE  CurrentIsLast
  <2>1. Headers(<<>>) = {}
    BY DEF Headers, Positions
  <2>2. ~LastReadable(<<>>)
    BY <2>1 DEF LastReadable, ReadableHeaders
  <2> QED
    BY <1>2, <2>2 DEF Init, CurrentIsLast
<1> QED
  BY <1>1, <1>2 DEF ParserInv

LEMMA ParserStep ==
    ASSUME ParserInv, [Next]_vars
    PROVE  ParserInv'
<1>1. TypeOK /\ CurrentIsLast /\ text \in Seq(Line)
  BY DEF ParserInv, TypeOK
<1>2. ASSUME NEW line \in HeaderLine, Header(line)
      PROVE  ParserInv'
  <2>1. Append(text, line) \in Seq(Line)
    <3>1. line \in Line
      BY <1>1, <1>2, HeaderStep
    <3> QED
      BY <1>1, <3>1, AppendProperties
  <2>2. TypeOK'
    BY <1>1, <1>2, <2>1, HeaderStep, FoundType DEF TypeOK
  <2>3. LastReadable(Append(text, line)) <=> line.hub # None
    BY <1>1, <1>2, HeaderStep, LastReadableExtends
  <2>4. CurrentIsLast'
    BY <1>1, <1>2, <2>3, HeaderStep DEF CurrentIsLast
  <2> QED
    BY <2>2, <2>4 DEF ParserInv
<1>3. ASSUME NEW line, (line \in PortLine /\ PortStatus(line))
                          \/ (line \in OtherLine /\ Other(line))
      PROVE  ParserInv'
  <2>1. /\ line \in Line /\ line.kind # "header"
        /\ ~finished /\ finished' = finished /\ text' = Append(text, line)
        /\ hubs' = hubs /\ current_hub' = current_hub
        /\ current_ports' = current_ports
             \/ (PortOf(line) \in Port
                   /\ current_ports' = Append(current_ports, PortOf(line)))
    BY <1>1, <1>3, PortStep, OtherStep
  <2>2. TypeOK'
    <3>1. text' \in Seq(Line)
      BY <1>1, <2>1, AppendProperties
    <3>2. current_ports' \in Seq(Port)
      <4>1. current_ports \in Seq(Port)
        BY <1>1 DEF TypeOK
      <4> QED
        BY <2>1, <4>1, AppendProperties
    <3> QED
      BY <1>1, <2>1, <3>1, <3>2 DEF TypeOK
  <2>3. LastReadable(Append(text, line)) <=> LastReadable(text)
    BY <1>1, <2>1, LastReadableExtends
  <2>4. CurrentIsLast'
    BY <1>1, <2>1, <2>3 DEF CurrentIsLast
  <2> QED
    BY <2>2, <2>4 DEF ParserInv
<1>4. CASE Finish
  <2>1. TypeOK'
    <3>1. <<>> \in Seq(Port)
      BY EmptySeq
    <3> QED
      BY <1>1, <1>4, <3>1, FinishStep, FoundType, Zenon DEF TypeOK
  <2>2. CurrentIsLast'
    BY <1>1, <1>4, FinishStep DEF CurrentIsLast
  <2> QED
    BY <2>1, <2>2 DEF ParserInv
<1>5. CASE UNCHANGED vars
  BY <1>1, <1>5 DEF vars, ParserInv, TypeOK, CurrentIsLast
<1> QED
  BY <1>2, <1>3, <1>4, <1>5 DEF Next

LEMMA ParserAlways == Spec => []ParserInv
BY ParserInit, ParserStep, PTL DEF Spec

\* Whatever uhubctl prints, parse_hub_list builds hubs of ports with numbers.
THEOREM ParserTypes == Spec => []TypeOK
<1>1. ParserInv => TypeOK
  BY DEF ParserInv
<1> QED
  BY <1>1, ParserAlways, PTL

-----------------------------------------------------------------------------
(* Every port line is in one place.                                        *)

\* The ports of the hubs that are done, one sequence for each.
Saved(hs) == [k \in 1..Len(hs) |-> hs[k].ports]

LEMMA SavedType ==
    ASSUME NEW hs \in Seq(Hub)
    PROVE  /\ Saved(hs) \in Seq(Seq(Port)) /\ Len(Saved(hs)) = Len(hs)
           /\ Len(hs) \in Nat
           /\ \A k \in 1..Len(hs) : Saved(hs)[k] = hs[k].ports
<1>1. \A hub \in Hub : hub.ports \in Seq(Port)
  BY DEF Hub
<1>2. Len(hs) \in Nat /\ \A k \in 1..Len(hs) : hs[k] \in Hub
  OBVIOUS
<1>3. \A k \in 1..Len(hs) : hs[k].ports \in Seq(Port)
  BY <1>1, <1>2
<1> QED
  BY <1>2, <1>3 DEF Saved

LEMMA SavedAppend ==
    ASSUME NEW hs \in Seq(Hub), NEW hub \in Hub
    PROVE  /\ Saved(hs) \in Seq(Seq(Port)) /\ hub.ports \in Seq(Port)
           /\ Saved(Append(hs, hub)) = Append(Saved(hs), hub.ports)
<1> DEFINE n == Len(hs)
           more == Append(hs, hub)
           s == Saved(hs)
           t == Saved(more)
           u == Append(s, hub.ports)
<1>1. hub.ports \in Seq(Port)
  BY DEF Hub
<1>2. /\ s \in Seq(Seq(Port)) /\ Len(s) = n /\ n \in Nat
      /\ \A k \in 1..n : s[k] = hs[k].ports
  BY SavedType
<1>3. /\ more \in Seq(Hub) /\ Len(more) = n + 1
      /\ \A k \in 1..n : more[k] = hs[k]
      /\ more[n + 1] = hub
  BY AppendProperties
<1> HIDE DEF n, more, s
<1>4. /\ u \in Seq(Seq(Port)) /\ Len(u) = n + 1
      /\ \A k \in 1..n : u[k] = s[k]
      /\ u[n + 1] = hub.ports
  BY <1>1, <1>2, AppendProperties
<1>5. /\ t \in Seq(Seq(Port)) /\ Len(t) = n + 1
      /\ \A k \in 1..(n + 1) : t[k] = more[k].ports
  BY <1>3, SavedType
<1> HIDE DEF t, u
<1>6. ASSUME NEW k \in 1..(n + 1)
      PROVE  t[k] = u[k]
  <2>1. k \in 1..n \/ k = n + 1
    BY <1>2
  <2> QED
    BY <1>2, <1>3, <1>4, <1>5, <2>1
<1>7. t = u
  BY <1>4, <1>5, <1>6, SeqEqual
<1> QED
  BY <1>1, <1>2, <1>7 DEF s, t, u, more

\* The readable ports of a text and one more line.
LEMMA AllPortsExtend ==
    ASSUME NEW lines \in Seq(Line), NEW line \in Line
    PROVE  LET more == Append(lines, line)
           IN  PortsAt(more, Positions(more)) =
                 IF IsPort(line)
                 THEN Append(PortsAt(lines, Positions(lines)), PortOf(line))
                 ELSE PortsAt(lines, Positions(lines))
<1>1. Positions(Append(lines, line)) = Positions(lines) \cup {Len(lines) + 1}
  BY OneMoreLine
<1> QED
  BY <1>1, NewPort

LEMMA EveryPortInit == Init => EveryPortOnce
<1> SUFFICES ASSUME Init
             PROVE  FlattenSeq(Saved(<<>>)) \o <<>> = PortsAt(<<>>, Positions(<<>>))
  BY DEF Init, EveryPortOnce, Saved
<1>1. Saved(<<>>) = <<>>
  BY DEF Saved
<1>2. FlattenSeq(<<>>) = <<>>
  BY DEF FlattenSeq
<1>3. Positions(<<>>) = {}
  BY DEF Positions
<1>4. <<>> \o <<>> = <<>>
  OBVIOUS
<1> QED
  BY <1>1, <1>2, <1>3, <1>4, NoPorts

LEMMA EveryPortStep ==
    ASSUME ParserInv, EveryPortOnce, [Next]_vars
    PROVE  EveryPortOnce'
<1> DEFINE flat == FlattenSeq(Saved(hubs))
           ports == PortsAt(text, Positions(text))
<1>1. /\ TypeOK /\ text \in Seq(Line) /\ hubs \in Seq(Hub)
      /\ current_ports \in Seq(Port)
  BY DEF ParserInv, TypeOK
<1>2. ~finished => flat \o current_ports = ports
  BY DEF EveryPortOnce, Saved
<1>3. flat \in Seq(Port)
  <2>1. Saved(hubs) \in Seq(Seq(Port))
    BY <1>1, SavedType
  <2> QED
    BY <2>1, FlattenType
<1>4. ASSUME FlattenSeq(Saved(hubs')) \o current_ports' = PortsAt(text', Positions(text'))
      PROVE  EveryPortOnce'
  BY <1>4 DEF EveryPortOnce, Saved
<1>5. ASSUME NEW line \in HeaderLine, Header(line)
      PROVE  EveryPortOnce'
  <2>1. /\ line \in Line /\ ~IsPort(line) /\ ~finished /\ text' = Append(text, line)
        /\ hubs' = Found
        /\ current_hub # None => current_ports' = <<>>
        /\ current_hub = None => current_ports' = current_ports
    BY <1>1, <1>5, HeaderStep
  <2>2. PortsAt(text', Positions(text')) = ports
    BY <1>1, <2>1, AllPortsExtend
  <2>3. CASE current_hub = None
    BY <1>1, <1>2, <1>4, <2>1, <2>2, <2>3, FoundType
  <2>4. CASE current_hub # None
    <3> DEFINE hub == [hub |-> current_hub, ports |-> current_ports]
    <3>1. hub \in Hub /\ hubs' = Append(hubs, hub)
      BY <1>1, <2>1, <2>4, FoundType
    <3>2. /\ Saved(hubs) \in Seq(Seq(Port)) /\ hub.ports = current_ports
          /\ Saved(hubs') = Append(Saved(hubs), current_ports)
      <4>1. /\ Saved(hubs) \in Seq(Seq(Port))
            /\ Saved(Append(hubs, hub)) = Append(Saved(hubs), hub.ports)
        BY <1>1, <3>1, SavedAppend
      <4> QED
        BY <3>1, <4>1
    <3>3. FlattenSeq(Saved(hubs')) = flat \o current_ports
      BY <1>1, <3>2, FlattenAppend
    <3>4. (flat \o current_ports) \o <<>> = flat \o current_ports
      <4>1. flat \o current_ports \in Seq(Port)
        BY <1>1, <1>3, ConcatProperties
      <4> QED
        BY <4>1, ConcatEmptySeq
    <3> QED
      BY <1>2, <1>4, <2>1, <2>2, <2>4, <3>3, <3>4
  <2> QED
    BY <2>3, <2>4
<1>6. ASSUME NEW line, (line \in PortLine /\ PortStatus(line))
                          \/ (line \in OtherLine /\ Other(line))
      PROVE  EveryPortOnce'
  <2>1. /\ line \in Line /\ ~finished /\ text' = Append(text, line) /\ hubs' = hubs
        /\ IsPort(line) => /\ PortOf(line) \in Port
                           /\ current_ports' = Append(current_ports, PortOf(line))
        /\ ~IsPort(line) => current_ports' = current_ports
    BY <1>1, <1>6, PortStep, OtherStep
  <2>2. PortsAt(text', Positions(text')) =
          IF IsPort(line) THEN Append(ports, PortOf(line)) ELSE ports
    BY <1>1, <2>1, AllPortsExtend
  <2>3. CASE ~IsPort(line)
    BY <1>2, <1>4, <2>1, <2>2, <2>3
  <2>4. CASE IsPort(line)
    <3> DEFINE one == <<PortOf(line)>>
    <3>1. one \in Seq(Port) /\ PortOf(line) \in Port
      BY <2>1, <2>4
    <3>2. /\ Append(current_ports, PortOf(line)) = current_ports \o one
          /\ Append(flat \o current_ports, PortOf(line)) = (flat \o current_ports) \o one
      <4>1. flat \o current_ports \in Seq(Port)
        BY <1>1, <1>3, ConcatProperties
      <4> QED
        BY <1>1, <3>1, <4>1, AppendIsConcat
    <3>3. (flat \o current_ports) \o one = flat \o (current_ports \o one)
      BY <1>1, <1>3, <3>1, ConcatAssociative
    <3> QED
      BY <1>2, <1>4, <2>1, <2>2, <2>4, <3>2, <3>3
  <2> QED
    BY <2>3, <2>4
<1>7. CASE Finish
  BY <1>1, <1>7, FinishStep DEF EveryPortOnce
<1>8. CASE UNCHANGED vars
  BY <1>8 DEF vars, EveryPortOnce
<1> QED
  BY <1>5, <1>6, <1>7, <1>8 DEF Next

\* Whatever the output, no readable port line is lost, doubled or moved before
\* another: up to the end each is with one hub, or in current_ports.
THEOREM NoPortLost == Spec => []EveryPortOnce
BY EveryPortInit, EveryPortStep, ParserAlways, PTL DEF Spec

-----------------------------------------------------------------------------
(* Every hub has the ports of its section.                                 *)

\* The hubs of the reference, in order, with their ports last.
Covers(own, found) ==
    /\ Len(found) = Len(own)
    /\ \A k \in 1..Len(found) :
           /\ found[k].hub = own[k].hub
           /\ IsSuffix(own[k].ports, found[k].ports)

LEMMA CoversNewHub ==
    ASSUME NEW own \in Seq(Hub), NEW found \in Seq(Hub), Covers(own, found),
           NEW h \in Hubs, NEW ports \in Seq(Port)
    PROVE  Covers(Append(own, [hub |-> h, ports |-> <<>>]),
                  Append(found, [hub |-> h, ports |-> ports]))
<1> DEFINE a == [hub |-> h, ports |-> <<>>]
           b == [hub |-> h, ports |-> ports]
           n == Len(found)
           u == Append(own, a)
           v == Append(found, b)
<1>1. a \in Hub /\ b \in Hub
  <2>1. <<>> \in Seq(Port)
    BY EmptySeq
  <2> QED
    BY <2>1 DEF Hub
<1>2. a.hub = b.hub /\ IsSuffix(a.ports, b.ports)
  BY EmptySuffix
<1>3. n \in Nat /\ Len(own) = n
  BY DEF Covers
<1> HIDE DEF a, b, n, u, v
<1>4. /\ Len(u) = n + 1 /\ u[n + 1] = a
      /\ \A k \in 1..n : u[k] = own[k]
  BY <1>1, <1>3, AppendProperties DEF u
<1>5. /\ Len(v) = n + 1 /\ v[n + 1] = b
      /\ \A k \in 1..n : v[k] = found[k]
  BY <1>1, <1>3, AppendProperties DEF v, n
<1>6. ASSUME NEW k \in 1..(n + 1)
      PROVE  v[k].hub = u[k].hub /\ IsSuffix(u[k].ports, v[k].ports)
  <2>1. k \in 1..n \/ k = n + 1
    BY <1>3
  <2> QED
    BY <1>2, <1>4, <1>5, <2>1 DEF Covers, n
<1> QED
  BY <1>4, <1>5, <1>6 DEF Covers, u, v, a, b

\* The last of c hubs has one more port, and nothing else is different.
GainsPort(old, new, c, port) ==
    /\ Len(old) = c /\ Len(new) = c
    /\ \A k \in 1..c : k # c => new[k] = old[k]
    /\ new[c].hub = old[c].hub
    /\ new[c].ports = Append(old[c].ports, port)

LEMMA CoversNewPort ==
    ASSUME NEW own \in Seq(Hub), NEW found \in Seq(Hub), Covers(own, found),
           NEW more, NEW now, NEW port \in Port, NEW c \in Nat \ {0},
           GainsPort(own, more, c, port), GainsPort(found, now, c, port)
    PROVE  Covers(more, now)
<1> USE DEF GainsPort
<1>1. c \in 1..c /\ Len(found) = c
  OBVIOUS
<1>2. own[c].ports \in Seq(Port) /\ found[c].ports \in Seq(Port)
  <2>1. own[c] \in Hub /\ found[c] \in Hub
    BY <1>1
  <2> QED
    BY <2>1 DEF Hub
<1>3. IsSuffix(more[c].ports, now[c].ports)
  BY <1>1, <1>2, SuffixAppend DEF Covers
<1>4. ASSUME NEW k \in 1..c
      PROVE  now[k].hub = more[k].hub /\ IsSuffix(more[k].ports, now[k].ports)
  BY <1>1, <1>3, <1>4 DEF Covers
<1> QED
  BY <1>4 DEF Covers

LEMMA OwnIsCovers == OwnPortsKept <=> Covers(Readable(text), Found)
BY DEF OwnPortsKept, Covers

\* A text without a line has no hub.
LEMMA ReadableEmpty == Readable(<<>>) = <<>>
<1>1. ReadableHeaders(<<>>) = {}
  BY DEF ReadableHeaders, Headers, Positions
<1>2. DOMAIN InOrder({}) = 1..0
  BY OrderedEmpty
<1> QED
  BY <1>1, <1>2 DEF Readable

LEMMA OwnPortsInit == Init => OwnPortsKept
<1> SUFFICES ASSUME Init
             PROVE  OwnPortsKept
  OBVIOUS
<1>1. Found = <<>> /\ text = <<>>
  BY DEF Init, Found
<1> QED
  BY <1>1, ReadableEmpty DEF OwnPortsKept

\* What a port line does to the hub found last.
LEMMA PortJoinsFound ==
    ASSUME TypeOK, NEW line \in PortLine, PortStatus(line), IsPort(line),
           current_hub # None
    PROVE  /\ Found' \in Seq(Hub)
           /\ \E c \in Nat \ {0} : GainsPort(Found, Found', c, PortOf(line))
<1> DEFINE n == Len(hubs)
           c == n + 1
           a == [hub |-> current_hub, ports |-> current_ports]
           b == [hub |-> current_hub, ports |-> Append(current_ports, PortOf(line))]
<1>1. /\ hubs \in Seq(Hub) /\ a \in Hub /\ Found = Append(hubs, a)
  BY FoundType
<1>2. /\ hubs' = hubs /\ current_hub' = current_hub /\ PortOf(line) \in Port
      /\ current_ports' = Append(current_ports, PortOf(line))
  BY PortStep
<1>3. b \in Hub
  <2>1. current_hub \in Hubs /\ current_ports \in Seq(Port)
    BY DEF TypeOK
  <2>2. Append(current_ports, PortOf(line)) \in Seq(Port)
    BY <1>2, <2>1, AppendProperties
  <2> QED
    BY <2>1, <2>2 DEF Hub
<1>4. Found' = Append(hubs, b)
  BY <1>2 DEF Found, WithCurrent
<1>5. b.hub = a.hub /\ b.ports = Append(a.ports, PortOf(line))
  OBVIOUS
<1> HIDE DEF a, b
<1>6. /\ Found \in Seq(Hub) /\ Len(Found) = c /\ Found[c] = a
      /\ \A k \in 1..n : Found[k] = hubs[k]
  BY <1>1, AppendProperties
<1>7. /\ Append(hubs, b) \in Seq(Hub) /\ Len(Append(hubs, b)) = c
      /\ Append(hubs, b)[c] = b
      /\ \A k \in 1..n : Append(hubs, b)[k] = hubs[k]
  BY <1>1, <1>3, AppendProperties
<1>8. c \in Nat \ {0} /\ \A k \in 1..c : k # c => k \in 1..n
  BY <1>1
<1> HIDE DEF c, n
<1>9. GainsPort(Found, Append(hubs, b), c, PortOf(line))
  BY <1>5, <1>6, <1>7, <1>8 DEF GainsPort
<1> QED
  BY <1>4, <1>7, <1>8, <1>9

LEMMA OwnPortsStep ==
    ASSUME ParserInv, OwnPortsKept, [Next]_vars
    PROVE  OwnPortsKept'
<1> DEFINE own == Readable(text)
<1>1. TypeOK /\ CurrentIsLast /\ text \in Seq(Line) /\ Found \in Seq(Hub)
  BY FoundType DEF ParserInv, TypeOK
<1>2. Covers(own, Found) /\ own \in Seq(Hub)
  BY <1>1, OwnIsCovers, ReadableShape
<1>3. ASSUME Covers(Readable(text'), Found')
      PROVE  OwnPortsKept'
  BY <1>3 DEF OwnPortsKept, Covers
<1> HIDE DEF own
<1>4. ASSUME NEW line \in HeaderLine, Header(line)
      PROVE  OwnPortsKept'
  <2>1. /\ line \in Line /\ line.kind = "header" /\ ~IsPort(line)
        /\ line.hub \in Hubs \cup {None}
        /\ text' = Append(text, line) /\ current_ports' \in Seq(Port)
        /\ Found' = IF line.hub = None THEN Found
                    ELSE Append(Found, [hub |-> line.hub, ports |-> current_ports'])
    BY <1>1, <1>4, HeaderStep
  <2>2. CASE line.hub = None
    <3>1. Readable(text') = own
      BY <1>1, <2>1, <2>2, OtherLinesAddNothing DEF own
    <3> QED
      BY <1>2, <1>3, <2>1, <2>2, <3>1
  <2>3. CASE line.hub # None
    <3>1. Readable(text') = Append(own, [hub |-> line.hub, ports |-> <<>>])
      BY <1>1, <2>1, <2>3, HeaderAddsHub DEF own
    <3>2. Covers(Append(own, [hub |-> line.hub, ports |-> <<>>]),
                 Append(Found, [hub |-> line.hub, ports |-> current_ports']))
      BY <1>1, <1>2, <2>1, <2>3, CoversNewHub
    <3> QED
      BY <1>3, <2>1, <2>3, <3>1, <3>2
  <2> QED
    BY <2>2, <2>3
<1>5. ASSUME NEW line \in PortLine, PortStatus(line), IsPort(line), current_hub # None
      PROVE  OwnPortsKept'
  <2>1. line \in Line /\ PortOf(line) \in Port /\ ~finished /\ text' = Append(text, line)
    BY <1>1, <1>5, PortStep
  <2>2. LastReadable(text)
    BY <1>1, <1>5, <2>1 DEF CurrentIsLast
  <2>3. PICK before, after : before = Found /\ after = Found'
    OBVIOUS
  <2>4. PICK c \in Nat \ {0} : GainsPort(before, after, c, PortOf(line))
    BY <1>1, <1>5, <2>3, PortJoinsFound
  <2>5. before \in Seq(Hub) /\ Covers(own, before) /\ Len(own) = c
    BY <1>1, <1>2, <2>3, <2>4 DEF Covers, GainsPort
  <2>6. PICK more : more = Readable(text')
    OBVIOUS
  <2>7. GainsPort(own, more, c, PortOf(line))
    BY <1>1, <1>5, <2>1, <2>2, <2>5, <2>6, PortGoesToLast DEF own, GainsPort
  <2>8. Covers(more, after)
    BY <1>2, <2>1, <2>4, <2>5, <2>7, CoversNewPort
  <2> QED
    BY <1>3, <2>3, <2>6, <2>8
<1>6. ASSUME NEW line,
             \/ line \in PortLine /\ PortStatus(line)
                  /\ ~(IsPort(line) /\ current_hub # None)
             \/ line \in OtherLine /\ Other(line)
      PROVE  OwnPortsKept'
  <2>1. /\ line \in Line /\ line.kind # "header" /\ ~finished
        /\ text' = Append(text, line) /\ hubs' = hubs /\ current_hub' = current_hub
        /\ IsPort(line) => current_hub = None
        /\ ~IsPort(line) => current_ports' = current_ports
    BY <1>1, <1>6, PortStep, OtherStep
  <2>2. Found' = Found
    BY <2>1 DEF Found, WithCurrent
  <2>3. Readable(text') = own
    <3>1. ~(IsPort(line) /\ LastReadable(text))
      BY <1>1, <2>1 DEF CurrentIsLast
    <3> QED
      BY <1>1, <2>1, <3>1, OtherLinesAddNothing DEF own
  <2> QED
    BY <1>2, <1>3, <2>2, <2>3
<1>7. CASE Finish \/ UNCHANGED vars
  <2>1. text' = text /\ Found' = Found
    BY <1>1, <1>7, FinishStep DEF vars, Found, WithCurrent
  <2> QED
    BY <1>2, <1>3, <2>1 DEF own
<1> QED
  BY <1>4, <1>5, <1>6, <1>7 DEF Next

\* Whatever the output, every header that parses gets its hub, in order, and
\* the ports of its section are the last of that hub's: mem::take gives a hub
\* no port of a later section, and only ports after a header that does not
\* parse can come before its own.
THEOREM OwnPortsStay == Spec => []OwnPortsKept
BY OwnPortsInit, OwnPortsStep, ParserAlways, PTL DEF Spec

-----------------------------------------------------------------------------
(* Of a well-formed output the hubs are the reference's, port for port.    *)

\* Before the first header of a well-formed output nothing waits for a hub.
Exact ==
    WellFormed(text) =>
        /\ Found = Readable(text)
        /\ ~finished /\ current_hub = None =>
             Headers(text) = {} /\ current_ports = <<>>

\* What comes before a line of a well-formed output is well-formed.
LEMMA WellFormedPrefix ==
    ASSUME NEW lines \in Seq(Line), NEW line \in Line,
           WellFormed(Append(lines, line))
    PROVE  /\ WellFormed(lines)
           /\ line.kind = "header" => line.hub # None
           /\ IsPort(line) => Headers(lines) # {}
<1> DEFINE n == Len(lines) + 1
           more == Append(lines, line)
<1>1. /\ n \in Nat /\ n \notin Positions(lines) /\ more[n] = line
      /\ \A i \in Positions(lines) : i \in Nat /\ i < n
      /\ \A i \in Positions(lines) : more[i] = lines[i]
      /\ Positions(more) = Positions(lines) \cup {n}
  BY OneMoreLine
<1>2. /\ Headers(more) = IF line.kind = "header"
                         THEN Headers(lines) \cup {n} ELSE Headers(lines)
      /\ ReadableHeaders(more) =
           IF line.kind = "header" /\ line.hub # None
           THEN ReadableHeaders(lines) \cup {n} ELSE ReadableHeaders(lines)
  BY HeadersExtend
<1>3. /\ Headers(more) = ReadableHeaders(more)
      /\ \A i \in Positions(more) :
           IsPort(more[i]) => \E j \in Headers(more) : j < i
  BY DEF WellFormed
<1>4. n \notin Headers(lines) /\ n \notin ReadableHeaders(lines)
  BY <1>1 DEF Headers, ReadableHeaders
<1> HIDE DEF n, more
<1>5. line.kind = "header" => line.hub # None
  BY <1>2, <1>3, <1>4
<1>6. Headers(lines) = ReadableHeaders(lines)
  <2>1. CASE line.kind = "header"
    <3>1. Headers(lines) \cup {n} = ReadableHeaders(lines) \cup {n}
      BY <1>2, <1>3, <1>5, <2>1
    <3>2. \A A, B, x : x \notin A /\ x \notin B /\ A \cup {x} = B \cup {x} => A = B
      <4>1. SUFFICES ASSUME NEW A, NEW B, NEW x, x \notin A, x \notin B,
                            A \cup {x} = B \cup {x}
                     PROVE  \A y : y \in A <=> y \in B
        OBVIOUS
      <4>2. \A y : y \in A \cup {x} <=> y \in B \cup {x}
        BY <4>1
      <4> QED
        BY <4>1, <4>2
    <3> QED
      BY <1>4, <3>1, <3>2
  <2>2. CASE line.kind # "header"
    BY <1>2, <1>3, <2>2
  <2> QED
    BY <2>1, <2>2
<1>7. ASSUME NEW i \in Positions(more), IsPort(more[i])
      PROVE  \E j \in Headers(lines) : j < i
  <2>1. PICK j \in Headers(more) : j < i
    BY <1>3, <1>7
  <2>2. i \in Nat /\ i <= n
    BY <1>1
  <2>3. j # n
    BY <1>1, <2>1, <2>2
  <2> QED
    BY <1>2, <2>1, <2>3
<1>8. \A i \in Positions(lines) : IsPort(lines[i]) => \E j \in Headers(lines) : j < i
  BY <1>1, <1>7
<1>9. IsPort(line) => Headers(lines) # {}
  BY <1>1, <1>7
<1> QED
  BY <1>5, <1>6, <1>8, <1>9 DEF WellFormed

LEMMA GainsTheSame ==
    ASSUME NEW old, NEW new1 \in Seq(Hub), NEW new2 \in Seq(Hub), NEW port,
           NEW c \in Nat \ {0},
           GainsPort(old, new1, c, port), GainsPort(old, new2, c, port)
    PROVE  new1 = new2
<1>1. Len(new1) = c /\ Len(new2) = c
  BY DEF GainsPort
<1>2. new1[c] = new2[c]
  <2>1. new1[c] \in Hub /\ new2[c] \in Hub
    BY <1>1
  <2>2. new1[c].hub = new2[c].hub /\ new1[c].ports = new2[c].ports
    BY DEF GainsPort
  <2>3. \A a, b \in Hub : a.hub = b.hub /\ a.ports = b.ports => a = b
    BY DEF Hub
  <2> QED
    BY <2>1, <2>2, <2>3
<1>3. \A k \in 1..c : new1[k] = new2[k]
  BY <1>2 DEF GainsPort
<1> QED
  BY <1>1, <1>3, SeqEqual

LEMMA ExactInit == Init => Exact
<1> SUFFICES ASSUME Init
             PROVE  Exact
  OBVIOUS
<1>1. Headers(<<>>) = {}
  BY DEF Headers, Positions
<1>2. Found = <<>> /\ text = <<>> /\ current_ports = <<>>
  BY DEF Init, Found
<1> QED
  BY <1>1, <1>2, ReadableEmpty DEF Exact

LEMMA ExactStep ==
    ASSUME ParserInv, Exact, [Next]_vars
    PROVE  Exact'
<1> DEFINE own == Readable(text)
<1>1. /\ TypeOK /\ CurrentIsLast /\ text \in Seq(Line) /\ Found \in Seq(Hub)
      /\ own \in Seq(Hub)
  BY FoundType, ReadableShape DEF ParserInv, TypeOK
<1> HIDE DEF own
<1>2. ASSUME NEW line \in HeaderLine, Header(line)
      PROVE  Exact'
  <2>1. /\ line \in Line /\ line.kind = "header" /\ ~finished
        /\ text' = Append(text, line) /\ current_hub' = line.hub
        /\ current_hub # None => current_ports' = <<>>
        /\ current_hub = None => current_ports' = current_ports
        /\ Found' = IF line.hub = None THEN Found
                    ELSE Append(Found, [hub |-> line.hub, ports |-> current_ports'])
    BY <1>1, <1>2, HeaderStep
  <2>2. SUFFICES ASSUME WellFormed(text')
                 PROVE  Found' = Readable(text') /\ current_hub' # None
    BY DEF Exact
  <2>3. WellFormed(text) /\ line.hub # None
    BY <1>1, <2>1, <2>2, WellFormedPrefix
  <2>4. Found = own /\ current_ports' = <<>>
    BY <2>1, <2>3 DEF Exact, own
  <2>5. Readable(text') = Append(own, [hub |-> line.hub, ports |-> <<>>])
    BY <1>1, <2>1, <2>3, HeaderAddsHub DEF own
  <2> QED
    BY <2>1, <2>3, <2>4, <2>5
<1>3. ASSUME NEW line \in PortLine, PortStatus(line), IsPort(line)
      PROVE  Exact'
  <2>1. /\ line \in Line /\ PortOf(line) \in Port /\ ~finished
        /\ text' = Append(text, line) /\ current_hub' = current_hub
    BY <1>1, <1>3, PortStep
  <2>2. SUFFICES ASSUME WellFormed(text')
                 PROVE  Found' = Readable(text') /\ current_hub' # None
    BY DEF Exact
  <2>3. WellFormed(text) /\ Headers(text) # {}
    BY <1>1, <1>3, <2>1, <2>2, WellFormedPrefix
  <2>4. current_hub # None /\ Found = own
    BY <2>1, <2>3 DEF Exact, own
  <2>5. LastReadable(text)
    BY <1>1, <2>1, <2>4 DEF CurrentIsLast
  <2>6. PICK after, more : after = Found' /\ more = Readable(text')
    OBVIOUS
  <2>7. PICK c \in Nat \ {0} : GainsPort(own, after, c, PortOf(line))
    BY <1>1, <1>3, <2>4, <2>6, PortJoinsFound
  <2>8. GainsPort(own, more, c, PortOf(line))
    <3>1. Len(own) = c
      BY <2>7 DEF GainsPort
    <3> QED
      BY <1>1, <1>3, <2>1, <2>5, <2>6, <3>1, PortGoesToLast DEF own, GainsPort
  <2>9. after \in Seq(Hub) /\ more \in Seq(Hub)
    <3>1. Found' \in Seq(Hub)
      BY <1>1, <1>3, <2>4, PortJoinsFound
    <3>2. text' \in Seq(Line)
      BY <1>1, <2>1, AppendProperties
    <3> QED
      BY <2>6, <3>1, <3>2, ReadableShape
  <2>10. after = more
    BY <2>7, <2>8, <2>9, GainsTheSame
  <2> QED
    BY <2>1, <2>4, <2>6, <2>10
<1>4. ASSUME NEW line, \/ line \in PortLine /\ PortStatus(line) /\ ~IsPort(line)
                       \/ line \in OtherLine /\ Other(line)
      PROVE  Exact'
  <2>1. /\ line \in Line /\ line.kind # "header" /\ ~IsPort(line) /\ ~finished
        /\ text' = Append(text, line) /\ hubs' = hubs /\ current_hub' = current_hub
        /\ current_ports' = current_ports
    BY <1>1, <1>4, PortStep, OtherStep
  <2>2. Found' = Found
    BY <2>1 DEF Found, WithCurrent
  <2>3. Readable(text') = own /\ Headers(text') = Headers(text)
    BY <1>1, <2>1, OtherLinesAddNothing, HeadersExtend DEF own
  <2>4. WellFormed(text') => WellFormed(text)
    BY <1>1, <2>1, WellFormedPrefix
  <2> QED
    BY <2>1, <2>2, <2>3, <2>4 DEF Exact, own
<1>5. CASE Finish
  <2>1. text' = text /\ Found' = Found /\ finished' = TRUE
    BY <1>1, <1>5, FinishStep
  <2> QED
    BY <2>1 DEF Exact
<1>6. CASE UNCHANGED vars
  BY <1>6 DEF vars, Exact, Found, WithCurrent
<1> QED
  BY <1>2, <1>3, <1>4, <1>5, <1>6 DEF Next

\* Of an output whose headers parse and whose ports come after one, the hubs
\* are its sections: one for each header, in order, the last one included,
\* each with the ports of its section and no other.
THEOREM SectionsParsed == Spec => []SectionsKept
<1>1. ParserInv /\ Exact => SectionsKept
  <2>1. ASSUME ParserInv, Exact, finished, WellFormed(text)
        PROVE  hubs = Readable(text)
    BY <2>1 DEF ParserInv, CurrentIsLast, Exact, Found
  <2> QED
    BY <2>1 DEF SectionsKept
<1> QED
  BY <1>1, ExactInit, ExactStep, ParserAlways, PTL DEF Spec
===============================================================================
