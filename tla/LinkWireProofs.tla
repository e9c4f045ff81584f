--------------------------- MODULE LinkWireProofs ---------------------------
(***************************************************************************)
(* Theorems about LinkWire, for every set of frames, every length of a full *)
(* block and any noise.                                                     *)
(***************************************************************************)
EXTENDS LinkWire, SequenceTheorems, WellFoundedInduction, TLAPS

-----------------------------------------------------------------------------
(* Induction and recursive functions. The library's induction theorems take *)
(* an operator; over a set of numbers it is a fact about sets.              *)

LEMMA SetInduction ==
    ASSUME NEW T, T \subseteq Nat, 0 \in T, \A n \in T : n + 1 \in T
    PROVE  T = Nat
<1> SUFFICES ASSUME T # Nat PROVE FALSE
  OBVIOUS
<1> DEFINE U == Nat \ T
<1>1. U # {} /\ U \subseteq Nat
  OBVIOUS
<1>2. PICK x \in U : \A y \in U : ~ (<<y, x>> \in OpToRel(<, Nat))
  <2> HIDE DEF U
  <2> QED BY <1>1, WFMin, NatLessThanWellFounded
<1>3. x \in Nat /\ x # 0 /\ x \notin T
  BY <1>2
<1>4. x - 1 \in Nat /\ x - 1 < x /\ (x - 1) + 1 = x
  BY <1>3
<1>5. x - 1 \in U
  BY <1>2, <1>3, <1>4
<1>6. <<x - 1, x>> \in OpToRel(<, Nat)
  BY <1>3, <1>4 DEF OpToRel
<1> QED BY <1>2, <1>5, <1>6

Turns(g, a, F, N) == g[0] = a /\ \A i \in 1..N : g[i] = F[i][g[i - 1]]

\* A loop of N turns over states of S has a table of the states it goes through.
LEMMA Iteration ==
    ASSUME NEW S, NEW a \in S, NEW N \in Nat,
           NEW F, F \in [Nat -> [S -> S]]
    PROVE  \E g \in [0..N -> S] : Turns(g, a, F, N)
<1> DEFINE Table(n, g) == /\ g \in [0..n -> S]
                          /\ g[0] = a
                          /\ \A i \in 1..n : g[i] = F[i][g[i - 1]]
           T == {n \in Nat : \E g : Table(n, g)}
<1>1. 0 \in T
  <2>1. Table(0, [i \in 0..0 |-> a])
    OBVIOUS
  <2> QED BY <2>1
<1>2. ASSUME NEW n \in T PROVE n + 1 \in T
  <2>1. PICK g : Table(n, g)
    OBVIOUS
  <2> DEFINE h == [i \in 0..(n + 1) |-> IF i = n + 1 THEN F[i][g[n]] ELSE g[i]]
  <2>2. F[n + 1][g[n]] \in S
    BY <2>1
  <2>3. h \in [0..(n + 1) -> S] /\ h[0] = a
    BY <2>1, <2>2
  <2>4. ASSUME NEW i \in 1..(n + 1) PROVE h[i] = F[i][h[i - 1]]
    <3>1. CASE i = n + 1
      BY <3>1
    <3>2. CASE i # n + 1
      BY <2>1, <3>2
    <3> QED BY <3>1, <3>2
  <2>5. Table(n + 1, h)
    BY <2>3, <2>4
  <2> HIDE DEF h, Table
  <2> QED BY <2>5
<1>3. T \subseteq Nat
  OBVIOUS
<1>4. T = Nat
  <2> HIDE DEF T
  <2> QED BY <1>1, <1>2, <1>3, SetInduction
<1> QED BY <1>4 DEF Turns

\* What the first state is and every turn keeps, every state is.
LEMMA LoopInvariant ==
    ASSUME NEW S, NEW N \in Nat, NEW g, g[0] \in S,
           \A i \in 1..N : g[i - 1] \in S => g[i] \in S
    PROVE  \A i \in 0..N : g[i] \in S
<1> DEFINE T == {n \in Nat : n <= N => g[n] \in S}
<1>1. 0 \in T
  OBVIOUS
<1>2. ASSUME NEW n \in T PROVE n + 1 \in T
  <2> SUFFICES ASSUME n + 1 <= N PROVE g[n + 1] \in S
    OBVIOUS
  <2>1. g[n] \in S /\ n + 1 \in 1..N /\ (n + 1) - 1 = n
    OBVIOUS
  <2> QED BY <2>1
<1>3. T \subseteq Nat
  OBVIOUS
<1> HIDE DEF T
<1>4. T = Nat
  BY <1>1, <1>2, <1>3, SetInduction
<1> QED BY <1>4 DEF T

-----------------------------------------------------------------------------
(* The checksum is a 16-bit number.                                         *)

LEMMA XorType == ASSUME NEW a \in Byte, NEW b \in Byte PROVE Xor[a][b] \in Byte
<1> DEFINE bit(p) == IF (a \div p) % 2 = (b \div p) % 2 THEN 0 ELSE p
<1>1. Xor[a][b] = bit(1) + bit(2) + bit(4) + bit(8) + bit(16) + bit(32) + bit(64) + bit(128)
  BY DEF Xor
<1>2. ASSUME NEW p \in Nat PROVE bit(p) \in Nat /\ bit(p) <= p
  OBVIOUS
<1> HIDE DEF bit
<1> DEFINE two == bit(1) + bit(2)
           three == two + bit(4)
           four == three + bit(8)
           five == four + bit(16)
           six == five + bit(32)
           seven == six + bit(64)
           eight == seven + bit(128)
<1>3. ASSUME NEW x \in Nat, NEW m \in Nat, x <= m, NEW p \in Nat
      PROVE  x + bit(p) \in Nat /\ x + bit(p) <= m + p
  BY <1>2, <1>3
<1>4. two \in Nat /\ two <= 1 + 2
  BY <1>2, <1>3
<1> HIDE DEF two
<1>5. three \in Nat /\ three <= 3 + 4
  BY <1>2, <1>3, <1>4
<1> HIDE DEF three
<1>6. four \in Nat /\ four <= 7 + 8
  BY <1>2, <1>3, <1>5
<1> HIDE DEF four
<1>7. five \in Nat /\ five <= 15 + 16
  BY <1>2, <1>3, <1>6
<1> HIDE DEF five
<1>8. six \in Nat /\ six <= 31 + 32
  BY <1>2, <1>3, <1>7
<1> HIDE DEF six
<1>9. seven \in Nat /\ seven <= 63 + 64
  BY <1>2, <1>3, <1>8
<1> HIDE DEF seven
<1>10. eight \in Nat /\ eight <= 127 + 128
  BY <1>2, <1>3, <1>9
<1>11. Xor[a][b] = eight
  BY <1>1 DEF two, three, four, five, six, seven
<1> HIDE DEF eight
<1> QED BY <1>10, <1>11 DEF Byte

LEMMA ShiftType == ASSUME NEW crc \in Words PROVE CrcShift[crc] \in Words
<1>1. CASE crc < 32768
  BY <1>1, SMT DEF CrcShift, Words
<1>2. CASE ~(crc < 32768)
  <2> DEFINE m == ((crc * 2) % 65536) + 1
             n == Flip(m, 32)
  <2>1. m \in Words
    BY <1>2, SMT DEF Words
  <2>2. ASSUME NEW k \in Words PROVE Flip(k, 32) \in Words /\ Flip(k, 4096) \in Words
    BY SMT DEF Flip, Words
  <2>3. CrcShift[crc] = Flip(n, 4096)
    BY <1>2, SMT DEF CrcShift
  <2> HIDE DEF m
  <2>4. n \in Words
    BY <2>1, <2>2
  <2> HIDE DEF n
  <2> QED BY <2>2, <2>3, <2>4
<1> QED BY <1>1, <1>2

LEMMA TableType == ASSUME NEW b \in Byte PROVE CrcTable[b] \in Words
<1>1. b * 256 \in Words
  BY SMT DEF Byte, Words
<1> QED BY <1>1, ShiftType, ZenonT(60) DEF CrcTable

LEMMA CrcByteType ==
    ASSUME NEW crc \in Words, NEW b \in Byte PROVE CrcByte(crc, b) \in Words
<1> DEFINE eight == CrcTable[Xor[crc \div 256][b]]
<1>1. crc \div 256 \in Byte /\ crc % 256 \in Byte
  BY SMT DEF Byte, Words
<1>2. eight \in Words
  BY <1>1, XorType, TableType
<1> HIDE DEF eight
<1>3. eight \div 256 \in Byte /\ eight % 256 \in Byte
  BY <1>2, SMT DEF Byte, Words
<1>4. Xor[crc % 256][eight \div 256] \in Byte
  BY <1>1, <1>3, XorType
<1>5. ASSUME NEW h \in Byte, NEW l \in Byte PROVE 256 * h + l \in Words
  BY SMT DEF Byte, Words
<1> QED BY <1>3, <1>4, <1>5 DEF CrcByte, eight

LEMMA CrcType == ASSUME NEW data \in Seq(Byte) PROVE Crc16(data) \in Words
<1> DEFINE N == Len(data)
           F == [i \in Nat |-> [crc \in Words |->
                    IF i \in 1..N THEN CrcByte(crc, data[i]) ELSE crc]]
           Loop(g) == g = [i \in 0..N |-> IF i = 0 THEN CrcStart ELSE CrcByte(g[i - 1], data[i])]
<1>1. N \in Nat
  OBVIOUS
<1>2. CrcStart \in Words
  BY SMT DEF CrcStart, Words
<1>3. ASSUME NEW i \in 1..N, NEW crc \in Words PROVE CrcByte(crc, data[i]) \in Words
  BY CrcByteType
<1> HIDE DEF N
<1>4. F \in [Nat -> [Words -> Words]]
  BY <1>3
<1>5. ASSUME NEW i \in 1..N, NEW crc \in Words PROVE F[i][crc] = CrcByte(crc, data[i])
  BY <1>1
<1> HIDE DEF F
<1>6. PICK g \in [0..N -> Words] : Turns(g, CrcStart, F, N)
  BY <1>1, <1>2, <1>4, Iteration
<1>7. \A i \in 0..N : g[i] = IF i = 0 THEN CrcStart ELSE CrcByte(g[i - 1], data[i])
  BY <1>1, <1>5, <1>6 DEF Turns
<1>8. Loop(g)
  BY <1>6, <1>7
<1> DEFINE c == CHOOSE h : Loop(h)
<1>9. Loop(c)
  BY <1>8
<1>10. Crc16(data) = c[N]
  BY DEF Crc16, N
<1> HIDE DEF c
<1>11. c[0] \in Words
  BY <1>1, <1>2, <1>9
<1>12. \A i \in 1..N : c[i - 1] \in Words => c[i] \in Words
  BY <1>1, <1>3, <1>9
<1>13. \A i \in 0..N : c[i] \in Words
  BY <1>1, <1>11, <1>12, LoopInvariant
<1> QED BY <1>1, <1>10, <1>13

-----------------------------------------------------------------------------
(* The states that the loops of the encoder and of the decoder go through.  *)

Full == {n \in Nat : 0 < n /\ n < 256}

Enc(out, block) == [out |-> out, block |-> block]

EncState == {s \in [out: Seq(Full), block: Seq(Full)] : Len(s.block) < MaxBlock}

LEMMA EncStateForm ==
    /\ \A out \in Seq(Full), block \in Seq(Full) :
          Len(block) < MaxBlock => Enc(out, block) \in EncState
    /\ \A s \in EncState :
          /\ s = Enc(s.out, s.block)
          /\ s.out \in Seq(Full) /\ s.block \in Seq(Full) /\ Len(s.block) < MaxBlock
BY DEF Enc, EncState

LEMMA FlushType ==
    ASSUME NEW out \in Seq(Full), NEW block \in Seq(Full), Len(block) < 255
    PROVE  Flush(Enc(out, block)) \in Seq(Full)
<1>1. Len(block) + 1 \in Full
  <2>1. Len(block) \in Nat
    OBVIOUS
  <2> QED BY <2>1 DEF Full
<1>2. <<Len(block) + 1>> \in Seq(Full)
  BY <1>1
<1> QED BY <1>2 DEF Flush, Enc

\* What a byte does to the encoder's state: it ends a block, fills one, or is
\* only stored.
LEMMA EncodeByteCases ==
    ASSUME ConstantsAssumption, NEW out \in Seq(Full), NEW block \in Seq(Full),
           Len(block) < MaxBlock, NEW b \in Byte
    PROVE  /\ EncodeByte(Enc(out, block), b) \in EncState
           /\ b = 0 => EncodeByte(Enc(out, block), b) = Enc(Flush(Enc(out, block)), <<>>)
           /\ b # 0 /\ Len(block) + 1 = MaxBlock =>
                  EncodeByte(Enc(out, block), b) = Enc(Flush(Enc(out, Append(block, b))), <<>>)
           /\ b # 0 /\ Len(block) + 1 # MaxBlock =>
                  EncodeByte(Enc(out, block), b) = Enc(out, Append(block, b))
<1> DEFINE s == Enc(out, block)
           longer == Append(block, b)
           t == Enc(out, longer)
<1>1. MaxBlock \in Nat /\ 0 < MaxBlock /\ MaxBlock < 255 /\ Len(block) \in Nat
  <2>1. MaxBlock \in 1..254
    BY DEF ConstantsAssumption
  <2> QED BY <2>1
<1>2. <<>> \in Seq(Full) /\ Len(<<>>) < MaxBlock
  BY <1>1
<1>3. EncodeByte(s, b) = IF b = 0 THEN Enc(Flush(s), <<>>)
                         ELSE IF Len(longer) = MaxBlock THEN Enc(Flush(t), <<>>) ELSE t
  <2>1. [s EXCEPT !.block = Append(@, b)] = t
    <3>1. ASSUME NEW c
          PROVE  [[out |-> out, block |-> block] EXCEPT !.block = c] = [out |-> out, block |-> c]
      OBVIOUS
    <3>2. s.block = block
      BY DEF Enc
    <3> QED BY <3>1, <3>2 DEF Enc
  <2>2. t.block = longer
    BY DEF Enc
  <2> HIDE DEF t, s, longer
  <2>3. EncodeByte(s, b) =
            LET l == [s EXCEPT !.block = Append(@, b)] IN
            IF b = 0 THEN Enc(Flush(s), <<>>)
            ELSE IF Len(l.block) = MaxBlock THEN Enc(Flush(l), <<>>)
            ELSE l
    BY DEF EncodeByte, Enc
  <2> QED BY <2>1, <2>2, <2>3
<1>4. CASE b = 0
  <2>1. Len(block) < 255
    BY <1>1
  <2>2. Flush(s) \in Seq(Full)
    BY <2>1, FlushType
  <2> HIDE DEF s
  <2>3. Enc(Flush(s), <<>>) \in EncState
    BY <1>2, <2>2, EncStateForm
  <2> QED BY <1>3, <1>4, <2>3 DEF s
<1>5. CASE b # 0
  <2>1. b \in Full
    BY <1>5 DEF Byte, Full
  <2>2. longer \in Seq(Full) /\ Len(longer) = Len(block) + 1
    BY <2>1
  <2> HIDE DEF longer
  <2>3. Len(longer) < 255
    BY <1>1, <2>2
  <2>4. Flush(t) \in Seq(Full)
    BY <2>2, <2>3, FlushType
  <2> HIDE DEF s, t
  <2>5. CASE Len(longer) = MaxBlock
    <3>1. EncodeByte(s, b) = Enc(Flush(t), <<>>)
      BY <1>3, <1>5, <2>5
    <3>2. Enc(Flush(t), <<>>) \in EncState
      BY <1>2, <2>4, EncStateForm
    <3> QED BY <1>5, <2>2, <2>5, <3>1, <3>2 DEF s, t, longer
  <2>6. CASE Len(longer) # MaxBlock
    <3>1. Len(longer) < MaxBlock
      BY <1>1, <2>2, <2>6
    <3>2. EncodeByte(s, b) = t
      BY <1>3, <1>5, <2>6
    <3>3. t \in EncState
      BY <2>2, <3>1, EncStateForm DEF t
    <3> QED BY <1>5, <2>2, <2>6, <3>2, <3>3 DEF s, t, longer
  <2> QED BY <2>5, <2>6
<1> QED BY <1>4, <1>5

LEMMA EncodingTurns ==
    ASSUME ConstantsAssumption, NEW data \in Seq(Byte)
    PROVE  /\ Encoding(data)[0] = Enc(<<>>, <<>>)
           /\ \A i \in 1..Len(data) :
                  Encoding(data)[i] = EncodeByte(Encoding(data)[i - 1], data[i])
           /\ \A i \in 0..Len(data) : Encoding(data)[i] \in EncState
<1> DEFINE N == Len(data)
           a == Enc(<<>>, <<>>)
           F == [i \in Nat |-> [s \in EncState |->
                    IF i \in 1..N THEN EncodeByte(s, data[i]) ELSE s]]
           Loop(g) == g = [i \in 0..N |-> IF i = 0 THEN a ELSE EncodeByte(g[i - 1], data[i])]
<1>1. N \in Nat
  OBVIOUS
<1>2. a \in EncState
  <2>1. <<>> \in Seq(Full) /\ Len(<<>>) < MaxBlock
    BY DEF ConstantsAssumption
  <2> QED BY ONLY <2>1, EncStateForm
<1>3. ASSUME NEW i \in 1..N, NEW s \in EncState PROVE EncodeByte(s, data[i]) \in EncState
  <2>1. data[i] \in Byte
    OBVIOUS
  <2> QED BY <2>1, EncodeByteCases, EncStateForm
<1> HIDE DEF N, a
<1>4. F \in [Nat -> [EncState -> EncState]]
  BY <1>3
<1>5. ASSUME NEW i \in 1..N, NEW s \in EncState PROVE F[i][s] = EncodeByte(s, data[i])
  BY <1>1
<1> HIDE DEF F
<1>6. PICK g \in [0..N -> EncState] : Turns(g, a, F, N)
  BY <1>1, <1>2, <1>4, Iteration
<1>7. \A i \in 0..N : g[i] = IF i = 0 THEN a ELSE EncodeByte(g[i - 1], data[i])
  BY <1>1, <1>5, <1>6 DEF Turns
<1>8. Loop(g)
  BY <1>6, <1>7
<1> DEFINE c == CHOOSE h : Loop(h)
<1>9. Loop(c)
  BY <1>8
<1>10. Encoding(data) = c
  BY DEF Encoding, N, a, Enc
<1> HIDE DEF c
<1>11. c[0] = a /\ \A i \in 1..N : c[i] = EncodeByte(c[i - 1], data[i])
  BY <1>1, <1>9
<1>12. \A i \in 1..N : c[i - 1] \in EncState => c[i] \in EncState
  BY <1>1, <1>3, <1>11
<1>13. \A i \in 0..N : c[i] \in EncState
  BY <1>1, <1>2, <1>11, <1>12, LoopInvariant
<1> QED BY <1>10, <1>11, <1>13 DEF N, a

DecState(data) == [idx: 0..Len(data), out: Seq(Byte)]

\* A block behind its length byte, inside the data.
BlockAt(data, idx) ==
    idx # Len(data) /\ data[idx + 1] # 0 /\ idx + data[idx + 1] <= Len(data)

LEMMA DecodeBlockCases ==
    ASSUME NEW data \in Seq(Byte), NEW s \in DecState(data)
    PROVE  /\ DecodeBlock(data, s) \in DecState(data)
           /\ ~BlockAt(data, s.idx) => DecodeBlock(data, s) = s
           /\ BlockAt(data, s.idx) =>
                DecodeBlock(data, s) =
                    [idx |-> s.idx + data[s.idx + 1],
                     out |-> s.out \o SubSeq(data, s.idx + 2, s.idx + data[s.idx + 1])
                                   \o (IF ZeroFollows(data, data[s.idx + 1],
                                                      s.idx + data[s.idx + 1])
                                       THEN <<0>> ELSE <<>>)]
<1> DEFINE length == data[s.idx + 1]
           end == s.idx + length
           block == SubSeq(data, s.idx + 2, end)
           zero == IF ZeroFollows(data, length, end) THEN <<0>> ELSE <<>>
<1>1. s.idx \in 0..Len(data) /\ s.out \in Seq(Byte) /\ Len(data) \in Nat
  BY DEF DecState
<1>d. DecodeBlock(data, s) =
        IF BlockAt(data, s.idx) THEN [idx |-> end, out |-> s.out \o block \o zero] ELSE s
  <2>1. s.idx # Len(data) => length \in Nat
    <3> SUFFICES ASSUME s.idx # Len(data) PROVE length \in Nat
      OBVIOUS
    <3>1. s.idx + 1 \in 1..Len(data)
      BY <1>1
    <3>2. length \in Byte
      BY <3>1
    <3> HIDE DEF length
    <3> QED BY <3>2 DEF Byte
  <2>2. BlockAt(data, s.idx) <=> ~(s.idx = Len(data) \/ length = 0 \/ end > Len(data))
    BY <1>1, <2>1 DEF BlockAt
  <2> HIDE DEF length, end, block, zero
  <2>3. DecodeBlock(data, s) =
          IF s.idx = Len(data) \/ length = 0 \/ end > Len(data) THEN s
          ELSE [idx |-> end, out |-> s.out \o block \o zero]
    BY DEF DecodeBlock, length, end, block, zero
  <2> QED BY <2>2, <2>3
<1>2. CASE ~BlockAt(data, s.idx)
  BY <1>2, <1>d
<1>3. CASE BlockAt(data, s.idx)
  <2>1. DecodeBlock(data, s) = [idx |-> end, out |-> s.out \o block \o zero]
    BY <1>3, <1>d
  <2>2. s.idx + 1 \in 1..Len(data) /\ length \in Byte
    BY <1>1, <1>3 DEF BlockAt
  <2>3. length \in 1..255 /\ end \in 0..Len(data)
    <3>1. length # 0 /\ end <= Len(data)
      BY <1>3 DEF BlockAt
    <3> HIDE DEF length
    <3> QED BY <1>1, <2>2, <3>1 DEF Byte
  <2>4. block \in Seq(Byte)
    <3> HIDE DEF length, end
    <3>1. \A i \in (s.idx + 2)..end : data[i] \in Byte
      BY <1>1, <2>3
    <3> QED BY <1>1, <2>3, <3>1, SubSeqProperties
  <2>5. zero \in Seq(Byte)
    <3>1. <<0>> \in Seq(Byte) /\ <<>> \in Seq(Byte)
      BY DEF Byte
    <3> QED BY <3>1
  <2> HIDE DEF length, end, block, zero
  <2>6. s.out \o block \o zero \in Seq(Byte)
    BY <1>1, <2>4, <2>5
  <2>7. DecodeBlock(data, s) \in DecState(data)
    BY <2>1, <2>3, <2>6 DEF DecState
  <2> QED BY <1>3, <2>1, <2>7 DEF length, end, block, zero
<1> QED BY <1>2, <1>3

LEMMA DecodingTurns ==
    ASSUME NEW data \in Seq(Byte)
    PROVE  /\ Decoding(data)[0] = [idx |-> 0, out |-> <<>>]
           /\ \A n \in 1..Len(data) :
                  Decoding(data)[n] = DecodeBlock(data, Decoding(data)[n - 1])
           /\ \A n \in 0..Len(data) : Decoding(data)[n] \in DecState(data)
<1> DEFINE N == Len(data)
           S == DecState(data)
           a == [idx |-> 0, out |-> <<>>]
           F == [i \in Nat |-> [s \in S |-> DecodeBlock(data, s)]]
           Loop(g) == g = [n \in 0..N |-> IF n = 0 THEN a ELSE DecodeBlock(data, g[n - 1])]
<1>1. N \in Nat
  OBVIOUS
<1>2. a \in S
  BY DEF DecState
<1>3. ASSUME NEW s \in S PROVE DecodeBlock(data, s) \in S
  BY DecodeBlockCases
<1> HIDE DEF N, a, S
<1>4. F \in [Nat -> [S -> S]]
  BY <1>3
<1>5. ASSUME NEW i \in 1..N, NEW s \in S PROVE F[i][s] = DecodeBlock(data, s)
  BY <1>1
<1> HIDE DEF F
<1>6. PICK g \in [0..N -> S] : Turns(g, a, F, N)
  BY <1>1, <1>2, <1>4, Iteration
<1>7. \A n \in 0..N : g[n] = IF n = 0 THEN a ELSE DecodeBlock(data, g[n - 1])
  BY <1>1, <1>5, <1>6 DEF Turns
<1>8. Loop(g)
  BY <1>6, <1>7
<1> DEFINE c == CHOOSE h : Loop(h)
<1>9. Loop(c)
  BY <1>8
<1>10. Decoding(data) = c
  BY DEF Decoding, N, a
<1> HIDE DEF c
<1>11. c[0] = a /\ \A n \in 1..N : c[n] = DecodeBlock(data, c[n - 1])
  BY <1>1, <1>9
<1>12. \A n \in 1..N : c[n - 1] \in S => c[n] \in S
  BY <1>3, <1>11
<1>13. \A n \in 0..N : c[n] \in S
  BY <1>1, <1>2, <1>11, <1>12, LoopInvariant
<1> QED BY <1>10, <1>11, <1>13 DEF N, a, S

-----------------------------------------------------------------------------
(* COBS: what was encoded is decoded.                                       *)

LEMMA Between ==
    ASSUME NEW S, NEW s \in Seq(S), NEW t \in Seq(S), NEW u \in Seq(S)
    PROVE  /\ (s \o t) \o u \in Seq(S)
           /\ Len((s \o t) \o u) = Len(s) + Len(t) + Len(u)
           /\ SubSeq((s \o t) \o u, Len(s) + 1, Len(s) + Len(t)) = t
           /\ \A i \in 1..Len(t) : ((s \o t) \o u)[Len(s) + i] = t[i]
<1> DEFINE st == s \o t
           w == st \o u
           m == Len(s)
           n == Len(s) + Len(t)
<1>1. Len(s) \in Nat /\ Len(t) \in Nat /\ Len(u) \in Nat
  BY LenProperties
<1>2. st \in Seq(S) /\ Len(st) = Len(s) + Len(t)
  BY ConcatProperties
<1>3. \A i \in 1..Len(t) : st[Len(s) + i] = t[i]
  BY <1>1, ConcatProperties
<1> HIDE DEF st
<1>4. /\ w \in Seq(S) /\ Len(w) = Len(s) + Len(t) + Len(u)
      /\ \A i \in 1..(Len(st) + Len(u)) : w[i] = IF i <= Len(st) THEN st[i] ELSE u[i - Len(st)]
  <2>1. w \in Seq(S) /\ Len(w) = Len(st) + Len(u)
    BY <1>2, ConcatProperties
  <2>2. \A i \in 1..(Len(st) + Len(u)) : w[i] = IF i <= Len(st) THEN st[i] ELSE u[i - Len(st)]
    BY <1>2, ConcatProperties
  <2> HIDE DEF w
  <2> QED BY <1>1, <1>2, <2>1, <2>2
<1> HIDE DEF w
<1>5. ASSUME NEW i \in 1..Len(t) PROVE w[Len(s) + i] = t[i]
  <2>1. Len(s) + i \in 1..(Len(st) + Len(u)) /\ Len(s) + i <= Len(st)
    BY <1>1, <1>2
  <2> QED BY <1>3, <1>4, <2>1
<1>6. ASSUME NEW i \in (m + 1)..n PROVE w[i] \in S
  <2>1. i \in 1..Len(w)
    BY <1>1, <1>4
  <2> QED BY <1>4, <2>1, ElementOfSeq
<1> DEFINE q == SubSeq(w, m + 1, n)
<1>7. /\ q \in Seq(S) /\ Len(q) = IF m + 1 <= n THEN n - (m + 1) + 1 ELSE 0
      /\ \A i \in 1..(n - (m + 1) + 1) : q[i] = w[(m + 1) + i - 1]
  <2>1. m + 1 \in Int /\ n \in Int
    BY <1>1
  <2> HIDE DEF q, m, n
  <2> QED BY <1>6, <2>1, SubSeqProperties DEF q
<1> HIDE DEF q
<1>8. q = t
  <2>1. Len(q) = Len(t)
    BY <1>1, <1>7
  <2>2. ASSUME NEW i \in 1..Len(q) PROVE q[i] = t[i]
    <3>1. q[i] = w[(m + 1) + i - 1] /\ (m + 1) + i - 1 = Len(s) + i /\ i \in 1..Len(t)
      BY <1>1, <1>7, <2>1
    <3> QED BY <1>5, <3>1
  <2> QED BY <1>7, <2>1, <2>2, SeqEqual
<1> QED BY <1>4, <1>5, <1>8 DEF st, w, q

Zero == <<0>>

Coded(out, block) == Flush(Enc(out, block))

\* What the decoder writes behind a block.
EndOf(block, rest) == IF Len(block) < MaxBlock /\ rest # <<>> THEN Zero ELSE <<>>

Dec(idx, out) == [idx |-> idx, out |-> out]

\* A block that the encoder wrote, when the decoder is at its length byte.
LEMMA DecodeOneBlock ==
    ASSUME ConstantsAssumption, NEW out \in Seq(Full), NEW block \in Seq(Full),
           Len(block) <= MaxBlock, NEW rest \in Seq(Full), NEW D \in Seq(Byte)
    PROVE  /\ Coded(out, block) \in Seq(Full)
           /\ Len(Coded(out, block)) = Len(out) + 1 + Len(block)
           /\ DecodeBlock(Coded(out, block) \o rest, Dec(Len(out), D)) =
                  Dec(Len(Coded(out, block)), (D \o block) \o EndOf(block, rest))
<1> DEFINE head == <<Len(block) + 1>>
           coded == (out \o head) \o block
           w == coded \o rest
           s == Dec(Len(out), D)
<1>1. /\ MaxBlock \in Nat /\ MaxBlock < 255
      /\ Len(block) \in Nat /\ Len(out) \in Nat /\ Len(rest) \in Nat
  <2>1. MaxBlock \in 1..254
    BY DEF ConstantsAssumption
  <2> QED BY <2>1
<1>2. head \in Seq(Full) /\ Len(head) = 1 /\ head[1] = Len(block) + 1
  BY <1>1 DEF Full
<1>3. Coded(out, block) = coded
  BY DEF Flush, Enc, Coded
<1> HIDE DEF head
<1>4. /\ coded \in Seq(Full) /\ Len(coded) = Len(out) + 1 + Len(block)
      /\ coded[Len(out) + 1] = Len(block) + 1
  <2>1. 1 \in 1..Len(head)
    BY <1>2
  <2> DEFINE oh == out \o head
  <2>o. oh \in Seq(Full) /\ Len(oh) = Len(out) + Len(head)
    BY <1>2, ConcatProperties
  <2>2. coded \in Seq(Full) /\ Len(coded) = Len(out) + Len(head) + Len(block)
    <3>1. oh \o block \in Seq(Full) /\ Len(oh \o block) = Len(oh) + Len(block)
      <4> HIDE DEF oh
      <4> QED BY <2>o, ConcatProperties
    <3> QED BY <2>o, <3>1
  <2>3. coded[Len(out) + 1] = head[1]
    BY <1>2, <2>1, Between
  <2> HIDE DEF coded
  <2> QED BY <1>2, <2>2, <2>3
<1>5. /\ w \in Seq(Full) /\ Len(w) = Len(coded) + Len(rest)
      /\ \A i \in 1..(Len(coded) + Len(rest)) :
            w[i] = IF i <= Len(coded) THEN coded[i] ELSE rest[i - Len(coded)]
  <2> HIDE DEF coded
  <2> QED BY <1>4, ConcatProperties, ZenonT(60)
<1>6. w[Len(out) + 1] = Len(block) + 1
  <2> HIDE DEF coded, w
  <2>1. Len(out) + 1 \in 1..(Len(coded) + Len(rest)) /\ Len(out) + 1 <= Len(coded)
    BY <1>1, <1>4
  <2> QED BY <1>4, <1>5, <2>1
<1>7. SubSeq(w, Len(out) + 2, Len(coded)) = block
  <2> DEFINE oh == out \o head
  <2>1. oh \in Seq(Full) /\ Len(oh) = Len(out) + 1
    <3>1. oh \in Seq(Full) /\ Len(oh) = Len(out) + Len(head)
      BY <1>2, ConcatProperties
    <3> QED BY <1>2, <3>1
  <2>2. SubSeq((oh \o block) \o rest, Len(oh) + 1, Len(oh) + Len(block)) = block
    <3> HIDE DEF oh
    <3> QED BY <2>1, Between
  <2>3. Len(oh) + 1 = Len(out) + 2 /\ Len(oh) + Len(block) = Len(coded)
    <3> HIDE DEF oh, coded
    <3> QED BY <1>1, <1>4, <2>1
  <2> QED BY <2>2, <2>3
<1>8. w \in Seq(Byte) /\ s \in DecState(w)
  <2> HIDE DEF coded, w
  <2>1. \A n \in Full : n \in Byte
    BY DEF Full, Byte
  <2>2. w \in Seq(Byte)
    BY <1>5, <2>1, SeqMonotonic
  <2>3. Len(out) \in 0..Len(w)
    BY <1>1, <1>4, <1>5
  <2> QED BY <2>2, <2>3 DEF DecState, Dec
<1>9. Len(out) + w[Len(out) + 1] = Len(coded)
  <2> HIDE DEF coded, w
  <2> QED BY <1>1, <1>4, <1>6
<1>10. BlockAt(w, Len(out))
  <2> HIDE DEF coded, w
  <2> QED BY <1>1, <1>4, <1>5, <1>6, <1>9 DEF BlockAt
<1>11. ZeroFollows(w, w[Len(out) + 1], Len(coded)) <=> Len(block) < MaxBlock /\ rest # <<>>
  <2> HIDE DEF coded, w
  <2>1. Len(coded) < Len(w) <=> rest # <<>>
    <3>1. rest # <<>> <=> Len(rest) # 0
      BY EmptySeq
    <3> QED BY <1>1, <1>4, <1>5, <3>1
  <2>2. w[Len(out) + 1] < MaxBlock + 1 <=> Len(block) < MaxBlock
    BY <1>1, <1>6
  <2> QED BY <2>1, <2>2 DEF ZeroFollows
<1> HIDE DEF coded, w, s
<1>12. s.idx = Len(out) /\ s.out = D
  BY DEF s, Dec
<1>13. DecodeBlock(w, s) =
        [idx |-> s.idx + w[s.idx + 1],
         out |-> s.out \o SubSeq(w, s.idx + 2, s.idx + w[s.idx + 1])
                       \o (IF ZeroFollows(w, w[s.idx + 1], s.idx + w[s.idx + 1])
                           THEN Zero ELSE <<>>)]
  BY <1>8, <1>10, <1>12, DecodeBlockCases, ZenonT(60) DEF Zero
<1>14. DecodeBlock(w, s) =
        Dec(Len(coded), (D \o block) \o EndOf(block, rest))
  BY <1>7, <1>9, <1>11, <1>12, <1>13 DEF EndOf, Dec
<1> QED BY <1>3, <1>4, <1>14 DEF w, s

\* The decoder comes to the end of out with D decoded...
Reaches(w, out, D) == \E k \in 0..Len(out) : Decoding(w)[k] = Dec(Len(out), D)

\* ...whatever follows.
Decodable(out, D) == \A rest \in Seq(Full) : rest # <<>> => Reaches(out \o rest, out, D)

LEMMA DecodeNextBlock ==
    ASSUME ConstantsAssumption, NEW out \in Seq(Full), NEW block \in Seq(Full),
           Len(block) <= MaxBlock, NEW rest \in Seq(Full), NEW D \in Seq(Byte),
           Decodable(out, D)
    PROVE  Reaches(Coded(out, block) \o rest, Coded(out, block), (D \o block) \o EndOf(block, rest))
<1> DEFINE coded == Coded(out, block)
           E == (D \o block) \o EndOf(block, rest)
           w == coded \o rest
           head == <<Len(block) + 1>>
           tail == (head \o block) \o rest
<1>1. /\ coded \in Seq(Full) /\ Len(coded) = Len(out) + 1 + Len(block)
      /\ DecodeBlock(w, Dec(Len(out), D)) = Dec(Len(coded), E)
  <2>1. coded \in Seq(Full) /\ Len(coded) = Len(out) + 1 + Len(block)
    BY DecodeOneBlock
  <2>2. DecodeBlock(w, Dec(Len(out), D)) = Dec(Len(coded), E)
    BY DecodeOneBlock
  <2> QED BY <2>1, <2>2
<1>2. /\ MaxBlock \in Nat /\ MaxBlock < 255
      /\ Len(block) \in Nat /\ Len(out) \in Nat /\ Len(rest) \in Nat
  <2>1. MaxBlock \in 1..254
    BY DEF ConstantsAssumption
  <2> QED BY <2>1
<1>3. head \in Seq(Full) /\ Len(head) = 1
  BY <1>2 DEF Full
<1>4. coded = (out \o head) \o block
  BY DEF Flush, Enc, Coded
<1> HIDE DEF head
<1>5. tail \in Seq(Full) /\ Len(tail) = Len(head) + Len(block) + Len(rest)
  <2>1. tail \in Seq(Full)
    BY <1>3, Between
  <2> DEFINE hb == head \o block
  <2>2. hb \in Seq(Full) /\ Len(hb) = Len(head) + Len(block)
    BY <1>3, ConcatProperties
  <2>3. Len(tail) = Len(hb) + Len(rest)
    <3> HIDE DEF hb
    <3> QED BY <2>2, ConcatProperties
  <2> HIDE DEF tail, hb
  <2> QED BY <2>1, <2>2, <2>3
<1>6. tail # <<>>
  <2> HIDE DEF tail
  <2>1. Len(tail) # 0
    BY <1>2, <1>3, <1>5
  <2> QED BY <2>1, EmptySeq
<1>7. w = out \o tail
  <2> DEFINE hb == head \o block
  <2>1. hb \in Seq(Full)
    BY <1>3, ConcatProperties
  <2>2. coded = out \o hb
    <3>1. (out \o head) \o block = out \o (head \o block)
      BY ONLY out \in Seq(Full), block \in Seq(Full), <1>3, ConcatAssociative, SMTT(30)
    <3> HIDE DEF coded
    <3> QED BY <1>4, <3>1
  <2> HIDE DEF hb, coded
  <2>3. (out \o hb) \o rest = out \o (hb \o rest)
    BY ONLY out \in Seq(Full), rest \in Seq(Full), <2>1, ConcatAssociative, SMTT(30)
  <2> QED BY <2>2, <2>3 DEF hb
<1>8. w \in Seq(Byte) /\ Len(w) = Len(coded) + Len(rest)
  <2>1. \A n \in Full : n \in Byte
    BY DEF Full, Byte
  <2> HIDE DEF coded
  <2>2. w \in Seq(Full) /\ Len(w) = Len(coded) + Len(rest)
    BY <1>1, ConcatProperties
  <2>3. w \in Seq(Byte)
    <3> HIDE DEF w
    <3> QED BY <2>1, <2>2, SeqMonotonic
  <2> QED BY <2>2, <2>3
<1> HIDE DEF coded, E, w, tail
<1>9. PICK k \in 0..Len(out) : Decoding(w)[k] = Dec(Len(out), D)
  BY <1>5, <1>6, <1>7 DEF Decodable, Reaches
<1>10. k + 1 \in 1..Len(w) /\ (k + 1) - 1 = k /\ k + 1 \in 0..Len(coded)
  BY <1>1, <1>2, <1>8
<1>11. Decoding(w)[k + 1] = DecodeBlock(w, Decoding(w)[k])
  BY <1>8, <1>10, DecodingTurns
<1>12. Reaches(w, coded, E)
  BY <1>1, <1>9, <1>10, <1>11 DEF Reaches
<1> QED BY <1>12 DEF w, E, coded

\* After i bytes, what is decoded and the block that is not written yet.
RoundTo(data, i) ==
    \E D \in Seq(Byte) :
        /\ D \o Encoding(data)[i].block = SubSeq(data, 1, i)
        /\ Decodable(Encoding(data)[i].out, D)

LEMMA RoundToNext ==
    ASSUME ConstantsAssumption, NEW data \in Seq(Byte), NEW i \in 0..(Len(data) - 1),
           RoundTo(data, i)
    PROVE  RoundTo(data, i + 1)
<1> DEFINE out == Encoding(data)[i].out
           block == Encoding(data)[i].block
           b == data[i + 1]
           next == Encoding(data)[i + 1]
           longer == Append(block, b)
<1>1. i \in 0..Len(data) /\ i + 1 \in 1..Len(data) /\ (i + 1) - 1 = i /\ Len(data) \in Nat
  BY LenProperties
<1>2. /\ Encoding(data)[i] = Enc(out, block)
      /\ out \in Seq(Full) /\ block \in Seq(Full) /\ Len(block) < MaxBlock
  <2>1. Encoding(data)[i] \in EncState
    BY <1>1, EncodingTurns
  <2> QED BY <2>1, EncStateForm
<1>3. next = EncodeByte(Enc(out, block), b)
  BY <1>1, <1>2, EncodingTurns
<1>4. b \in Byte
  BY <1>1, ElementOfSeq
<1>5. PICK D \in Seq(Byte) : D \o block = SubSeq(data, 1, i) /\ Decodable(out, D)
  BY DEF RoundTo
<1>6. SubSeq(data, 1, i + 1) = SubSeq(data, 1, i) \o <<b>>
  <2>1. 1 \in 1..Len(data) /\ i + 1 \in 1..Len(data) /\ (i + 1) - 1 = i
    BY <1>1
  <2>2. SubSeq(data, 1, i + 1) = SubSeq(data, 1, (i + 1) - 1) \o <<data[i + 1]>>
    BY <2>1, SubSeqRecursiveSecond
  <2> QED BY <2>1, <2>2
<1> HIDE DEF out, block, b, next
<1>7. /\ MaxBlock \in Nat /\ MaxBlock < 255 /\ Len(block) \in Nat
  <2>1. MaxBlock \in 1..254
    BY DEF ConstantsAssumption
  <2> QED BY <1>2, <2>1, LenProperties
<1>8. ASSUME NEW s \in Seq(Full) PROVE s \in Seq(Byte)
  <2>1. \A n \in Full : n \in Byte
    BY DEF Full, Byte
  <2> QED BY <2>1, SeqMonotonic
<1>9. ASSUME NEW E \in Seq(Byte), NEW o \in Seq(Full), NEW c \in Seq(Full),
             next = Enc(o, c), E \o c = SubSeq(data, 1, i + 1), Decodable(o, E)
      PROVE  RoundTo(data, i + 1)
  <2>1. next.out = o /\ next.block = c
    BY <1>9 DEF Enc
  <2> QED BY <1>9, <2>1 DEF RoundTo, next
<1>10. D \o block \in Seq(Byte)
  BY <1>2, <1>8, ConcatProperties
<1>11. CASE b = 0
  <2> DEFINE coded == Coded(out, block)
             E == (D \o block) \o Zero
  <2>6. <<>> \in Seq(Full)
    BY EmptySeq
  <2>1. next = Enc(coded, <<>>)
    BY <1>2, <1>3, <1>4, <1>11, EncodeByteCases DEF Coded
  <2>2. E \in Seq(Byte) /\ E = SubSeq(data, 1, i + 1)
    <3>1. Zero \in Seq(Byte) /\ Zero = <<b>>
      BY <1>11 DEF Zero, Byte
    <3> QED BY <1>5, <1>6, <1>10, <3>1, ConcatProperties
  <2>0. Len(block) <= MaxBlock
    BY <1>2, <1>7
  <2>3. coded \in Seq(Full)
    BY <1>2, <1>5, <2>0, <2>6, DecodeOneBlock
  <2>4. ASSUME NEW rest \in Seq(Full), rest # <<>> PROVE Reaches(coded \o rest, coded, E)
    <3>1. EndOf(block, rest) = Zero
      BY <1>2, <2>4 DEF EndOf
    <3>2. Reaches(coded \o rest, coded, (D \o block) \o EndOf(block, rest))
      BY <1>2, <1>5, <2>0, DecodeNextBlock
    <3> QED BY <3>1, <3>2
  <2> HIDE DEF coded, E
  <2>5. Decodable(coded, E)
    BY <2>4 DEF Decodable
  <2>7. E \o <<>> = E
    BY <2>2, ConcatEmptySeq
  <2> QED BY <1>9, <2>1, <2>2, <2>3, <2>5, <2>6, <2>7
<1>12. CASE b # 0
  <2>1. b \in Full
    BY <1>4, <1>12 DEF Byte, Full
  <2>2. longer \in Seq(Full) /\ Len(longer) = Len(block) + 1 /\ longer = block \o <<b>>
    BY <1>2, <2>1, AppendProperties, AppendIsConcat
  <2>3. D \o longer = SubSeq(data, 1, i + 1)
    <3>1. D \in Seq(Byte) /\ block \in Seq(Byte) /\ <<b>> \in Seq(Byte)
      BY <1>2, <1>4, <1>8
    <3>2. D \o (block \o <<b>>) = (D \o block) \o <<b>>
      BY <3>1, ConcatAssociative
    <3> HIDE DEF longer
    <3> QED BY <1>5, <1>6, <2>2, <3>2
  <2> HIDE DEF longer
  <2>4. CASE Len(block) + 1 # MaxBlock
    <3>1. next = Enc(out, longer)
      BY <1>2, <1>3, <1>4, <1>12, <2>4, EncodeByteCases DEF longer
    <3> QED BY <1>2, <1>5, <1>9, <2>2, <2>3, <3>1
  <2>5. CASE Len(block) + 1 = MaxBlock
    <3> DEFINE coded == Coded(out, longer)
               E == D \o longer
    <3>1. next = Enc(coded, <<>>)
      BY <1>2, <1>3, <1>4, <1>12, <2>5, EncodeByteCases DEF longer, Coded
    <3>2. Len(longer) <= MaxBlock /\ ~(Len(longer) < MaxBlock)
      BY <1>7, <2>2, <2>5
    <3>3. coded \in Seq(Full)
      BY <1>2, <1>5, <2>2, <3>2, DecodeOneBlock, EmptySeq
    <3>4. E \in Seq(Byte)
      BY <1>8, <2>2, ConcatProperties
    <3>5. E \o <<>> = E /\ <<>> \in Seq(Full)
      <4> HIDE DEF E
      <4> QED BY <3>4, ConcatEmptySeq, EmptySeq
    <3>6. ASSUME NEW rest \in Seq(Full), rest # <<>> PROVE Reaches(coded \o rest, coded, E)
      <4>1. Reaches(coded \o rest, coded, (D \o longer) \o EndOf(longer, rest))
        BY <1>2, <1>5, <2>2, <3>2, DecodeNextBlock
      <4>2. EndOf(longer, rest) = <<>>
        BY <3>2 DEF EndOf
      <4>3. Reaches(coded \o rest, coded, E \o <<>>)
        BY <4>1, <4>2
      <4> HIDE DEF coded, E
      <4> QED BY <3>5, <4>3
    <3> HIDE DEF coded
    <3>7. Decodable(coded, E)
      <4> HIDE DEF E
      <4> QED BY <3>6 DEF Decodable
    <3>8. E \o <<>> = SubSeq(data, 1, i + 1)
      BY <2>3, <3>5
    <3> HIDE DEF E
    <3> QED BY <1>9, <3>1, <3>3, <3>4, <3>5, <3>7, <3>8
  <2> QED BY <2>4, <2>5
<1> QED BY <1>11, <1>12

\* At the end of the data the decoder stays.
LEMMA DecodeReached ==
    ASSUME NEW w \in Seq(Byte), w # <<>>, NEW D \in Seq(Byte), Reaches(w, w, D)
    PROVE  CobsDecode(w) = D
<1> DEFINE N == Len(w)
           s == Dec(N, D)
           dec == Decoding(w)
<1>1. PICK k \in 0..N : dec[k] = s
  BY DEF Reaches
<1>2. N \in Nat
  BY LenProperties
<1>3. DecodeBlock(w, s) = s
  <2>1. s \in DecState(w) /\ s.idx = N
    BY <1>2 DEF DecState, Dec
  <2>2. ~BlockAt(w, s.idx)
    BY <2>1 DEF BlockAt
  <2> HIDE DEF s
  <2> QED BY <2>1, <2>2, DecodeBlockCases
<1>4. ASSUME NEW n \in 1..N PROVE dec[n] = DecodeBlock(w, dec[n - 1])
  BY DecodingTurns
<1> HIDE DEF s, dec, N
<1> DEFINE T == {n \in Nat : k <= n /\ n <= N => dec[n] = s}
<1>5. 0 \in T
  BY <1>1
<1>6. ASSUME NEW n \in T PROVE n + 1 \in T
  <2> SUFFICES ASSUME k <= n + 1, n + 1 <= N PROVE dec[n + 1] = s
    OBVIOUS
  <2>1. CASE k = n + 1
    BY <1>1, <2>1
  <2>2. CASE k # n + 1
    <3>1. dec[n] = s /\ n + 1 \in 1..N /\ (n + 1) - 1 = n
      BY <1>2, <2>2
    <3> QED BY <1>3, <1>4, <3>1
  <2> QED BY <2>1, <2>2
<1>7. T \subseteq Nat
  OBVIOUS
<1>8. T = Nat
  <2> HIDE DEF T
  <2> QED BY <1>5, <1>6, <1>7, SetInduction
<1>9. dec[N] = s
  BY <1>2, <1>8
<1>10. s.idx = N /\ s.out = D
  BY DEF s, Dec
<1> QED BY <1>9, <1>10 DEF CobsDecode, dec, N

LEMMA CobsRoundTrip ==
    ASSUME ConstantsAssumption, NEW data \in Seq(Byte)
    PROVE  /\ CobsEncode(data) \in Seq(Full) /\ CobsEncode(data) # <<>>
           /\ CobsDecode(CobsEncode(data)) = data
<1> DEFINE N == Len(data)
           T == {n \in Nat : n <= N => RoundTo(data, n)}
<1>1. N \in Nat
  BY LenProperties
<1>2. 0 \in T
  <2>1. Encoding(data)[0].out = <<>> /\ Encoding(data)[0].block = <<>>
    BY EncodingTurns DEF Enc
  <2>2. <<>> \in Seq(Byte) /\ <<>> \o <<>> = <<>> /\ SubSeq(data, 1, 0) = <<>>
    BY EmptySeq, ConcatEmptySeq, SubSeqEmpty
  <2>3. ASSUME NEW rest \in Seq(Full) PROVE Reaches(<<>> \o rest, <<>>, <<>>)
    <3>1. <<>> \o rest = rest
      BY ConcatEmptySeq
    <3>2. rest \in Seq(Byte)
      <4>1. \A n \in Full : n \in Byte
        BY DEF Full, Byte
      <4> QED BY <4>1, SeqMonotonic
    <3>3. Decoding(rest)[0] = Dec(0, <<>>)
      BY <3>2, DecodingTurns DEF Dec
    <3>4. Len(<<>>) = 0 /\ 0 \in 0..0
      OBVIOUS
    <3> QED BY <3>1, <3>3, <3>4 DEF Reaches
  <2>4. RoundTo(data, 0)
    BY <2>1, <2>2, <2>3 DEF RoundTo, Decodable
  <2> QED BY <2>4
<1>3. ASSUME NEW n \in T PROVE n + 1 \in T
  <2> SUFFICES ASSUME n + 1 <= N PROVE RoundTo(data, n + 1)
    OBVIOUS
  <2>1. n \in 0..(N - 1) /\ RoundTo(data, n)
    BY <1>1
  <2> QED BY <2>1, RoundToNext
<1>4. T \subseteq Nat
  OBVIOUS
<1>5. T = Nat
  <2> HIDE DEF T
  <2> QED BY <1>2, <1>3, <1>4, SetInduction
<1>6. RoundTo(data, N)
  BY <1>1, <1>5
<1> HIDE DEF T
<1> DEFINE out == Encoding(data)[N].out
           block == Encoding(data)[N].block
           w == Coded(out, block)
<1>7. /\ Encoding(data)[N] = Enc(out, block)
      /\ out \in Seq(Full) /\ block \in Seq(Full) /\ Len(block) <= MaxBlock
  <2>1. N \in 0..Len(data)
    BY <1>1
  <2>2. Encoding(data)[N] \in EncState
    BY <2>1, EncodingTurns
  <2>3. Len(block) \in Nat /\ Len(block) < MaxBlock /\ MaxBlock \in Nat
    BY <2>2, EncStateForm, LenProperties DEF ConstantsAssumption
  <2> HIDE DEF out, block
  <2>4. Len(block) <= MaxBlock
    BY <2>3
  <2> QED BY <2>2, <2>4, EncStateForm DEF out, block
<1>8. CobsEncode(data) = w
  BY <1>7 DEF CobsEncode, Coded
<1>9. PICK D \in Seq(Byte) : D \o block = data /\ Decodable(out, D)
  BY <1>6, SubSeqFull DEF RoundTo
<1> HIDE DEF out, block
<1>10. <<>> \in Seq(Full)
  BY EmptySeq
<1>11. w \in Seq(Full) /\ Len(w) = Len(out) + 1 + Len(block)
  BY <1>7, <1>9, <1>10, DecodeOneBlock
<1>12. Reaches(w \o <<>>, w, (D \o block) \o EndOf(block, <<>>))
  BY <1>7, <1>9, <1>10, DecodeNextBlock
<1>13. w \in Seq(Byte)
  <2>1. \A n \in Full : n \in Byte
    BY DEF Full, Byte
  <2> QED BY <1>11, <2>1, SeqMonotonic
<1> HIDE DEF w
<1>14. w \o <<>> = w
  BY <1>11, ConcatEmptySeq
<1>15. (D \o block) \o EndOf(block, <<>>) = data
  <2>1. EndOf(block, <<>>) = <<>>
    BY DEF EndOf
  <2> QED BY <1>9, <2>1, ConcatEmptySeq
<1>16. w # <<>>
  <2>1. Len(out) \in Nat /\ Len(block) \in Nat
    BY <1>7, LenProperties
  <2>2. Len(w) # 0
    BY <1>11, <2>1
  <2> QED BY <2>2, EmptySeq
<1>17. CobsDecode(w) = data
  BY <1>12, <1>13, <1>14, <1>15, <1>16, DecodeReached
<1> QED BY <1>8, <1>11, <1>16, <1>17

-----------------------------------------------------------------------------
(* Frames: what was packed and stuffed is received.                         *)

LEMMA LittleEndianType ==
    ASSUME NEW n \in Words
    PROVE  /\ LittleEndian(n) \in Seq(Byte) /\ Len(LittleEndian(n)) = 2
           /\ n % 256 \in Byte /\ n \div 256 \in Byte
           /\ (n % 256) + 256 * (n \div 256) = n
<1>1. n % 256 \in Byte /\ n \div 256 \in Byte /\ (n % 256) + 256 * (n \div 256) = n
  BY SMT DEF Words, Byte
<1> QED BY <1>1 DEF LittleEndian

LEMMA FrameBytes == ASSUME NEW s \in Seq(Full) PROVE s \in Seq(Byte)
<1>1. \A n \in Full : n \in Byte
  BY DEF Full, Byte
<1> QED BY <1>1, SeqMonotonic

\* Inside a sequence.
LEMMA Piece ==
    ASSUME NEW S, NEW s \in Seq(S), NEW m \in Nat, NEW n \in Nat,
           1 <= m, n <= Len(s), m <= n + 1
    PROVE  /\ SubSeq(s, m, n) \in Seq(S) /\ Len(SubSeq(s, m, n)) = n - m + 1
           /\ \A i \in 1..(n - m + 1) : SubSeq(s, m, n)[i] = s[m + i - 1]
<1>1. Len(s) \in Nat /\ m \in Int /\ n \in Int
  BY LenProperties
<1>2. \A i \in m..n : s[i] \in S
  BY <1>1, ElementOfSeq
<1>3. (IF m <= n THEN n - m + 1 ELSE 0) = n - m + 1
  OBVIOUS
<1> QED BY <1>1, <1>2, <1>3, SubSeqProperties

\* The two parts of a sequence.
LEMMA Parts ==
    ASSUME NEW S, NEW s \in Seq(S), NEW t \in Seq(S)
    PROVE  /\ SubSeq(s \o t, 1, Len(s)) = s
           /\ SubSeq(s \o t, Len(s) + 1, Len(s) + Len(t)) = t
<1>1. Len(s) \in Nat /\ Len(t) \in Nat
  BY LenProperties
<1> DEFINE w == s \o t
<1>2. /\ w \in Seq(S) /\ Len(w) = Len(s) + Len(t)
      /\ \A i \in 1..(Len(s) + Len(t)) : w[i] = IF i <= Len(s) THEN s[i] ELSE t[i - Len(s)]
  BY ConcatProperties
<1> HIDE DEF w
<1>3. SubSeq(w, 1, Len(s)) = s
  <2> DEFINE q == SubSeq(w, 1, Len(s))
  <2>1. 1 \in Nat /\ 1 <= 1 /\ Len(s) <= Len(w) /\ 1 <= Len(s) + 1
    BY <1>1, <1>2
  <2>2. /\ q \in Seq(S) /\ Len(q) = Len(s) - 1 + 1
        /\ \A i \in 1..(Len(s) - 1 + 1) : q[i] = w[1 + i - 1]
    BY <1>1, <1>2, <2>1, Piece
  <2> HIDE DEF q
  <2>3. Len(q) = Len(s)
    BY <1>1, <2>2
  <2>4. ASSUME NEW i \in 1..Len(q) PROVE q[i] = s[i]
    <3>1. i \in 1..(Len(s) - 1 + 1) /\ 1 + i - 1 = i /\ i <= Len(s) /\ i \in 1..(Len(s) + Len(t))
      BY <1>1, <2>3
    <3> QED BY <1>2, <2>2, <3>1
  <2>5. q = s
    BY <2>2, <2>3, <2>4, SeqEqual
  <2> QED BY <2>5 DEF q
<1>4. SubSeq(w, Len(s) + 1, Len(s) + Len(t)) = t
  <2> DEFINE m == Len(s) + 1
             n == Len(s) + Len(t)
             q == SubSeq(w, m, n)
  <2>1. m \in Nat /\ n \in Nat /\ 1 <= m /\ n <= Len(w) /\ m <= n + 1
    BY <1>1, <1>2
  <2>2. /\ q \in Seq(S) /\ Len(q) = n - m + 1
        /\ \A i \in 1..(n - m + 1) : q[i] = w[m + i - 1]
    <3> HIDE DEF m, n
    <3> QED BY <1>2, <2>1, Piece
  <2> HIDE DEF q
  <2>3. Len(q) = Len(t)
    BY <1>1, <2>2
  <2>4. ASSUME NEW i \in 1..Len(q) PROVE q[i] = t[i]
    <3>1. /\ i \in 1..(n - m + 1) /\ m + i - 1 = Len(s) + i /\ ~(Len(s) + i <= Len(s))
          /\ Len(s) + i \in 1..(Len(s) + Len(t)) /\ (Len(s) + i) - Len(s) = i
      BY <1>1, <2>3
    <3>2. q[i] = w[Len(s) + i]
      BY <2>2, <3>1
    <3> QED BY <1>2, <3>1, <3>2
  <2>5. q = t
    BY <2>2, <2>3, <2>4, SeqEqual
  <2> QED BY <2>5 DEF q
<1> QED BY <1>3, <1>4 DEF w

LEMMA StuffRoundTrip ==
    ASSUME ConstantsAssumption, NEW raw \in Seq(Byte)
    PROVE  /\ StuffFrame(raw) \in Seq(Byte)
           /\ Len(StuffFrame(raw)) \in Nat /\ 0 < Len(StuffFrame(raw))
           /\ StuffFrame(raw)[Len(StuffFrame(raw))] = 0
           /\ \A i \in 1..(Len(StuffFrame(raw)) - 1) : StuffFrame(raw)[i] # 0
           /\ UnstuffFrame(StuffFrame(raw)) = raw
<1> DEFINE crc == LittleEndian(Crc16(raw))
           d == raw \o crc
           code == CobsEncode(d)
           wire == code \o <<0>>
<1>1. crc \in Seq(Byte) /\ Len(crc) = 2
  BY CrcType, LittleEndianType
<1> HIDE DEF crc
<1>2. /\ d \in Seq(Byte) /\ Len(d) = Len(raw) + 2 /\ Len(raw) \in Nat
      /\ SubSeq(d, 1, Len(raw)) = raw /\ SubSeq(d, Len(raw) + 1, Len(raw) + Len(crc)) = crc
  <2>1. d \in Seq(Byte) /\ Len(d) = Len(raw) + Len(crc) /\ Len(raw) \in Nat
    BY <1>1, ConcatProperties, LenProperties
  <2>2. SubSeq(d, 1, Len(raw)) = raw /\ SubSeq(d, Len(raw) + 1, Len(raw) + Len(crc)) = crc
    BY <1>1, Parts
  <2> HIDE DEF d
  <2> QED BY <1>1, <2>1, <2>2
<1> HIDE DEF d
<1>3. code \in Seq(Full) /\ code # <<>> /\ CobsDecode(code) = d
  BY <1>2, CobsRoundTrip
<1> HIDE DEF code
<1>4. code \in Seq(Byte) /\ <<0>> \in Seq(Byte) /\ Len(<<0>>) = 1 /\ Len(code) \in Nat
  <2>1. 0 \in Byte
    BY DEF Byte
  <2> QED BY <1>3, <2>1, FrameBytes, LenProperties
<1>5. /\ wire \in Seq(Byte) /\ Len(wire) = Len(code) + 1
      /\ \A i \in 1..Len(code) : wire[i] = code[i]
      /\ wire[Len(code) + 1] = 0
      /\ SubSeq(wire, 1, Len(code)) = code
  BY <1>4, ConcatProperties, Parts
<1> HIDE DEF wire
<1>6. \A i \in 1..Len(code) : code[i] # 0
  <2>1. \A i \in 1..Len(code) : code[i] \in Full
    BY <1>3, ElementOfSeq
  <2> QED BY <2>1 DEF Full
<1>7. UnstuffFrame(wire) = raw
  <2>1. SubSeq(wire, 1, Len(wire) - 1) = code
    BY <1>4, <1>5
  <2>2. d # Malformed
    <3>1. 256 \notin Byte
      BY DEF Byte
    <3>2. Malformed[1] = 256 /\ Len(Malformed) = 1 /\ 1 \in 1..1
      BY DEF Malformed
    <3> QED BY <1>2, <3>1, <3>2, ElementOfSeq
  <2>3. /\ Len(d) - 2 = Len(raw) /\ Len(d) - 1 = Len(raw) + 1 /\ Len(d) = Len(raw) + Len(crc)
        /\ ~(Len(d) < 2)
    BY <1>1, <1>2
  <2>4. SubSeq(d, 1, Len(d) - 2) = raw /\ SubSeq(d, Len(d) - 1, Len(d)) = crc
    BY <1>2, <2>3
  <2> QED BY <1>3, <2>1, <2>2, <2>3, <2>4 DEF UnstuffFrame, crc
<1>8. StuffFrame(raw) = wire
  BY DEF StuffFrame, wire, code, d, crc
<1> QED BY <1>4, <1>5, <1>6, <1>7, <1>8, SMTT(30)

\* w is s, of n bytes, and two more.
TwoMore(w, s, n, a, b) ==
    /\ w \in Seq(Byte) /\ Len(w) = n + 2
    /\ \A i \in 1..n : w[i] = s[i]
    /\ w[n + 1] = a /\ w[n + 2] = b

LEMMA AppendPair ==
    ASSUME NEW s \in Seq(Byte), NEW n \in Nat, Len(s) = n, NEW a \in Byte, NEW b \in Byte
    PROVE  TwoMore(s \o <<a, b>>, s, n, a, b)
<1> DEFINE t == <<a, b>>
           w == s \o t
<1>1. t \in Seq(Byte) /\ Len(t) = 2 /\ t[1] = a /\ t[2] = b
  OBVIOUS
<1> HIDE DEF t
<1>2. w \in Seq(Byte) /\ Len(w) = n + 2
  <2>1. w \in Seq(Byte) /\ Len(w) = Len(s) + Len(t)
    BY <1>1, ConcatProperties
  <2> HIDE DEF w
  <2> QED BY <1>1, <2>1
<1>3. \A i \in 1..(n + 2) : w[i] = IF i <= n THEN s[i] ELSE t[i - n]
  BY <1>1, ConcatProperties
<1> HIDE DEF w
<1>4. w[n + 1] = t[1] /\ w[n + 2] = t[2]
  BY <1>3
<1>5. \A i \in 1..n : w[i] = s[i]
  BY <1>3
<1> QED BY <1>1, <1>2, <1>4, <1>5 DEF w, t, TwoMore

LEMMA FirstTwo ==
    ASSUME NEW S, NEW s \in Seq(S), Len(s) >= 2
    PROVE  SubSeq(s, 1, 2) = <<s[1], s[2]>>
<1> DEFINE q == SubSeq(s, 1, 2)
           t == <<s[1], s[2]>>
<1>1. Len(s) \in Nat
  BY LenProperties
<1>2. \A i \in 1..2 : s[i] \in S
  BY <1>1, ElementOfSeq
<1>3. t \in Seq(S) /\ Len(t) = 2 /\ t[1] = s[1] /\ t[2] = s[2]
  BY <1>2
<1>4. q \in Seq(S) /\ Len(q) = 2 /\ \A i \in 1..2 : q[i] = s[i]
  <2>1. 1 \in Int /\ 2 \in Int /\ 1 <= 2 /\ 2 - 1 + 1 = 2 /\ \A i \in Int : 1 + i - 1 = i
    OBVIOUS
  <2>2. /\ q \in Seq(S) /\ Len(q) = IF 1 <= 2 THEN 2 - 1 + 1 ELSE 0
        /\ \A i \in 1..(2 - 1 + 1) : q[i] = s[1 + i - 1]
    BY <1>2, <2>1, SubSeqProperties
  <2> HIDE DEF q
  <2> QED BY <2>1, <2>2
<1> HIDE DEF q, t
<1>5. ASSUME NEW i \in 1..2 PROVE q[i] = t[i]
  <2>1. i = 1 \/ i = 2
    OBVIOUS
  <2> QED BY <1>3, <1>4, <2>1
<1>6. q = t
  BY <1>3, <1>4, <1>5, SeqEqual
<1> QED BY <1>6 DEF q, t

\* The ten bytes before the payload.
Header(f) ==
    Magic \o <<Version, f.flags>> \o LittleEndian(f.sequence) \o LittleEndian(f.command)
          \o LittleEndian(Len(f.payload))

LEMMA HeaderBytes ==
    ASSUME NEW f \in FrameOf, Len(f.payload) <= MaxPayload
    PROVE  /\ Header(f) \in Seq(Byte) /\ Len(Header(f)) = HeaderLen
           /\ Header(f)[1] = Magic[1] /\ Header(f)[2] = Magic[2]
           /\ Header(f)[3] = Version /\ Header(f)[4] = f.flags
           /\ Word(Header(f), 5) = f.sequence /\ Word(Header(f), 7) = f.command
           /\ Word(Header(f), 9) = Len(f.payload)
<1> DEFINE size == Len(f.payload)
           a == f.sequence % 256
           b == f.sequence \div 256
           c == f.command % 256
           d == f.command \div 256
           x == size % 256
           y == size \div 256
           h2 == Magic
           h4 == h2 \o <<Version, f.flags>>
           h6 == h4 \o <<a, b>>
           h8 == h6 \o <<c, d>>
           h == h8 \o <<x, y>>
<1>1. f.flags \in Byte /\ f.sequence \in Words /\ f.command \in Words /\ f.payload \in Seq(Byte)
  BY DEF FrameOf
<1>2. size \in Words
  <2>1. size \in Nat /\ size <= MaxPayload
    BY <1>1, LenProperties
  <2> HIDE DEF size
  <2> QED BY <2>1, SMT DEF MaxPayload, Words
<1> HIDE DEF size
<1>3. a \in Byte /\ b \in Byte /\ a + 256 * b = f.sequence
  BY <1>1, LittleEndianType
<1>4. c \in Byte /\ d \in Byte /\ c + 256 * d = f.command
  BY <1>1, LittleEndianType
<1>5. x \in Byte /\ y \in Byte /\ x + 256 * y = size
  BY <1>2, LittleEndianType
<1>6. Header(f) = h
  BY DEF Header, LittleEndian, size
<1> HIDE DEF a, b, c, d, x, y
<1>7. 84 \in Byte /\ 53 \in Byte /\ Version \in Byte
  BY DEF Byte, Version
<1>8. h2 \in Seq(Byte) /\ Len(h2) = 2
  BY <1>7 DEF Magic
<1> HIDE DEF h2
<1>9. /\ h4 \in Seq(Byte) /\ Len(h4) = 4 /\ h4[1] = h2[1] /\ h4[2] = h2[2]
      /\ h4[3] = Version /\ h4[4] = f.flags
  <2>1. TwoMore(h4, h2, 2, Version, f.flags)
    BY <1>1, <1>7, <1>8, AppendPair
  <2> HIDE DEF h4
  <2> QED BY <2>1 DEF TwoMore
<1> HIDE DEF h4
<1>10. /\ h6 \in Seq(Byte) /\ Len(h6) = 6 /\ \A i \in 1..4 : h6[i] = h4[i]
       /\ h6[5] = a /\ h6[6] = b
  <2>1. TwoMore(h6, h4, 4, a, b)
    BY <1>3, <1>9, AppendPair
  <2> HIDE DEF h6
  <2> QED BY <2>1 DEF TwoMore
<1> HIDE DEF h6
<1>11. /\ h8 \in Seq(Byte) /\ Len(h8) = 8 /\ \A i \in 1..6 : h8[i] = h6[i]
       /\ h8[7] = c /\ h8[8] = d
  <2>1. TwoMore(h8, h6, 6, c, d)
    BY <1>4, <1>10, AppendPair
  <2> HIDE DEF h8
  <2> QED BY <2>1 DEF TwoMore
<1> HIDE DEF h8
<1>12. /\ h \in Seq(Byte) /\ Len(h) = 10 /\ \A i \in 1..8 : h[i] = h8[i]
       /\ h[9] = x /\ h[10] = y
  <2>1. TwoMore(h, h8, 8, x, y)
    BY <1>5, <1>11, AppendPair
  <2> HIDE DEF h
  <2> QED BY <2>1 DEF TwoMore
<1> HIDE DEF h
<1>13. /\ h[1] = h2[1] /\ h[2] = h2[2] /\ h[3] = Version /\ h[4] = f.flags
       /\ h[5] = a /\ h[6] = b /\ h[7] = c /\ h[8] = d /\ h[9] = x /\ h[10] = y
  BY <1>9, <1>10, <1>11, <1>12
<1>14. Word(h, 5) = a + 256 * b /\ Word(h, 7) = c + 256 * d /\ Word(h, 9) = x + 256 * y
  BY <1>13 DEF Word
<1> QED BY <1>3, <1>4, <1>5, <1>6, <1>12, <1>13, <1>14 DEF HeaderLen, size, h2

LEMMA RawRoundTrip ==
    ASSUME NEW f \in FrameOf, Len(f.payload) <= MaxPayload
    PROVE  Raw(f) \in Seq(Byte) /\ Raw(f) # Malformed /\ Parse(Raw(f)) = <<f>>
<1> DEFINE h == Header(f)
           p == f.payload
           raw == h \o p
<1>1. f.flags \in Byte /\ f.sequence \in Words /\ f.command \in Words /\ p \in Seq(Byte)
  BY DEF FrameOf
<1>2. Raw(f) = raw
  BY DEF Raw, Header
<1>3. Len(h) = 10 /\ h \in Seq(Byte) /\ Len(p) \in Nat
  BY <1>1, HeaderBytes, LenProperties DEF HeaderLen
<1>4. /\ h[1] = Magic[1] /\ h[2] = Magic[2] /\ h[3] = Version /\ h[4] = f.flags
      /\ Word(h, 5) = f.sequence /\ Word(h, 7) = f.command /\ Word(h, 9) = Len(p)
  BY HeaderBytes
<1> HIDE DEF h, p
<1>5. /\ raw \in Seq(Byte) /\ Len(raw) = 10 + Len(p)
      /\ \A i \in 1..(Len(h) + Len(p)) : raw[i] = IF i <= Len(h) THEN h[i] ELSE p[i - Len(h)]
      /\ SubSeq(raw, Len(h) + 1, Len(h) + Len(p)) = p
  <2>1. raw \in Seq(Byte) /\ Len(raw) = Len(h) + Len(p)
    BY <1>1, <1>3, ConcatProperties
  <2>2. \A i \in 1..(Len(h) + Len(p)) : raw[i] = IF i <= Len(h) THEN h[i] ELSE p[i - Len(h)]
    BY <1>1, <1>3, ConcatProperties
  <2>3. SubSeq(raw, Len(h) + 1, Len(h) + Len(p)) = p
    BY <1>1, <1>3, Parts
  <2> HIDE DEF raw
  <2> QED BY <1>3, <2>1, <2>2, <2>3
<1> HIDE DEF raw
<1>6. \A i \in 1..10 : raw[i] = h[i]
  BY <1>3, <1>5
<1>7. \A i \in 1..9 : Word(raw, i) = Word(h, i)
  BY <1>6 DEF Word
<1>8. SubSeq(raw, 1, 2) = Magic
  <2>1. Len(raw) >= 2 /\ raw[1] = Magic[1] /\ raw[2] = Magic[2]
    BY <1>3, <1>4, <1>5, <1>6
  <2>2. SubSeq(raw, 1, 2) = <<raw[1], raw[2]>>
    BY <1>5, <2>1, FirstTwo
  <2>3. Magic = <<Magic[1], Magic[2]>>
    BY DEF Magic
  <2> QED BY <2>1, <2>2, <2>3
<1>9. Parse(raw) = <<[flags |-> raw[4], sequence |-> Word(raw, 5), command |-> Word(raw, 7),
                      payload |-> SubSeq(raw, HeaderLen + 1, HeaderLen + Word(raw, 9))]>>
  <2>1. HeaderLen = 10 /\ raw[3] = Version /\ Word(raw, 9) = Len(p)
    BY <1>4, <1>6, <1>7 DEF HeaderLen
  <2>2. ~(Len(raw) < HeaderLen) /\ ~(Len(raw) < HeaderLen + Word(raw, 9))
    BY <1>3, <1>5, <2>1
  <2> QED BY <1>8, <2>1, <2>2 DEF Parse
<1>10. SubSeq(raw, HeaderLen + 1, HeaderLen + Word(raw, 9)) = p
  BY <1>3, <1>4, <1>5, <1>7, SMTT(30) DEF HeaderLen
<1>11. f = [flags |-> f.flags, sequence |-> f.sequence, command |-> f.command, payload |-> p]
  BY DEF FrameOf, p
<1>12. raw[4] = f.flags /\ Word(raw, 5) = f.sequence /\ Word(raw, 7) = f.command
  BY <1>4, <1>6, <1>7
<1>13. Parse(raw) = <<f>>
  BY <1>9, <1>10, <1>11, <1>12, Zenon
<1>14. raw # Malformed
  <2>1. Len(raw) # 1
    BY <1>3, <1>5
  <2>2. Len(Malformed) = 1
    BY DEF Malformed
  <2> QED BY <2>1, <2>2
<1> QED BY <1>2, <1>5, <1>13, <1>14

\* Every frame the panel can send is what the gateway makes of its bytes.
LEMMA FrameRoundTrip ==
    ASSUME ConstantsAssumption, NEW f \in FrameOf, Len(f.payload) <= MaxPayload
    PROVE  Received(StuffFrame(Raw(f))) = <<f>>
<1>1. Raw(f) \in Seq(Byte) /\ Raw(f) # Malformed /\ Parse(Raw(f)) = <<f>>
  BY RawRoundTrip
<1>2. UnstuffFrame(StuffFrame(Raw(f))) = Raw(f)
  BY <1>1, StuffRoundTrip
<1> QED BY <1>1, <1>2 DEF Received

LEMMA UnstuffType ==
    ASSUME NEW wire \in Seq(Byte)
    PROVE  UnstuffFrame(wire) = Malformed \/ UnstuffFrame(wire) \in Seq(Byte)
<1> DEFINE code == SubSeq(wire, 1, Len(wire) - 1)
           decoded == CobsDecode(code)
           raw == SubSeq(decoded, 1, Len(decoded) - 2)
<1>1. code \in Seq(Byte)
  <2> DEFINE n == Len(wire) - 1
  <2>1. Len(wire) \in Nat
    BY LenProperties
  <2>2. \A i \in 1..n : wire[i] \in Byte
    BY <2>1, ElementOfSeq
  <2>3. 1 \in Int /\ n \in Int
    BY <2>1
  <2> HIDE DEF n
  <2>4. SubSeq(wire, 1, n) \in Seq(Byte)
    BY <2>2, <2>3, SubSeqProperties
  <2> QED BY <2>4 DEF n
<1> HIDE DEF code
<1>2. decoded = Malformed \/ decoded \in Seq(Byte)
  <2>1. Len(code) \in 0..Len(code)
    BY <1>1, LenProperties
  <2>2. Decoding(code)[Len(code)].out \in Seq(Byte)
    BY <1>1, <2>1, DecodingTurns DEF DecState
  <2> QED BY <2>2 DEF CobsDecode
<1>3. CASE decoded = Malformed
  BY <1>3 DEF UnstuffFrame, code
<1>4. CASE decoded \in Seq(Byte)
  <2> HIDE DEF decoded
  <2> DEFINE n == Len(decoded) - 2
  <2>1. Len(decoded) \in Nat
    BY <1>4, LenProperties
  <2>2. \A i \in 1..n : decoded[i] \in Byte
    BY <1>4, <2>1, ElementOfSeq
  <2>3. 1 \in Int /\ n \in Int
    BY <2>1
  <2> HIDE DEF n
  <2>4. SubSeq(decoded, 1, n) \in Seq(Byte)
    BY <2>2, <2>3, SubSeqProperties
  <2> QED BY <2>4 DEF UnstuffFrame, decoded, code, n
<1> QED BY <1>2, <1>3, <1>4

\* At most one frame is received, and it is one.
LEMMA ReceivedType ==
    ASSUME NEW wire \in Seq(Byte)
    PROVE  Received(wire) = <<>> \/ \E f \in FrameOf : Received(wire) = <<f>>
<1> DEFINE raw == UnstuffFrame(wire)
           size == Word(raw, 9)
           f == [flags |-> raw[4], sequence |-> Word(raw, 5), command |-> Word(raw, 7),
                 payload |-> SubSeq(raw, HeaderLen + 1, HeaderLen + size)]
<1> SUFFICES ASSUME Received(wire) # <<>> PROVE f \in FrameOf /\ Received(wire) = <<f>>
  OBVIOUS
<1>1. /\ raw # Malformed /\ Parse(raw) # <<>> /\ Received(wire) = Parse(raw)
  BY DEF Received
<1>2. raw \in Seq(Byte)
  BY <1>1, UnstuffType
<1> HIDE DEF raw
<1>3. ~(Len(raw) < HeaderLen) /\ ~(Len(raw) < HeaderLen + size) /\ Parse(raw) = <<f>>
  BY <1>1 DEF Parse
<1>4. Len(raw) \in Nat /\ Len(raw) >= 10
  BY <1>2, <1>3, LenProperties DEF HeaderLen
<1>5. \A i \in 1..10 : raw[i] \in Byte
  BY <1>2, <1>4, ElementOfSeq
<1>6. ASSUME NEW i \in 1..9 PROVE Word(raw, i) \in Words
  <2>1. raw[i] \in Byte /\ raw[i + 1] \in Byte
    BY <1>5
  <2>2. ASSUME NEW l \in Byte, NEW h \in Byte PROVE l + 256 * h \in Words
    BY SMT DEF Byte, Words
  <2> QED BY <2>1, <2>2 DEF Word
<1>7. size \in Nat
  BY <1>6 DEF Words
<1>8. f.payload \in Seq(Byte)
  <2> HIDE DEF size
  <2> DEFINE n == HeaderLen + size
  <2>1. \A i \in 11..n : raw[i] \in Byte
    BY <1>2, <1>3, <1>4, <1>7, ElementOfSeq DEF HeaderLen
  <2>2. 11 \in Int /\ n \in Int
    BY <1>7 DEF HeaderLen
  <2> HIDE DEF n
  <2>3. SubSeq(raw, 11, n) \in Seq(Byte)
    BY <2>1, <2>2, SubSeqProperties
  <2> QED BY <2>3 DEF n, HeaderLen
<1>9. raw[4] \in Byte /\ Word(raw, 5) \in Words /\ Word(raw, 7) \in Words
  BY <1>5, <1>6
<1>10. f \in FrameOf
  <2> HIDE DEF size
  <2> QED BY <1>8, <1>9 DEF FrameOf
<1> QED BY <1>1, <1>3, <1>10

-----------------------------------------------------------------------------
(* The invariant. It looks at the bytes that were received and not taken and *)
(* those still on the line as one sequence s, which reading leaves alone.   *)

Wire(f) == StuffFrame(Raw(f))

Sendable == {f \in FrameOf : Len(f.payload) <= MaxPayload}
Bytes == [byte: Byte, frame: Nat]
Dispatch == [frame: FrameOf, of: Nat]

\* Frame number k is whole, from behind position p: the beginning or the end
\* of the frame before.
Placed(s, p, f, k) ==
    /\ p + Len(Wire(f)) <= Len(s)
    /\ \A j \in 1..Len(Wire(f)) : s[p + j] = [byte |-> Wire(f)[j], frame |-> k]
    /\ \A i \in 1..Len(s) : s[i].frame = k => p < i /\ i <= p + Len(Wire(f))
    /\ p # 0 => s[p] = [byte |-> 0, frame |-> k - 1]

Entry(f, k) == [frame |-> f, of |-> k]

NotArrived(d, k) == \A i \in 1..Len(d) : d[i].of # k

OnItsWay(s, d, f, k) == NotArrived(d, k) /\ \E p \in 0..Len(s) : Placed(s, p, f, k)

HasArrived(s, d, f, k) ==
    /\ \A i \in 1..Len(s) : s[i].frame # k
    /\ \E i \in 1..Len(d) :
          /\ d[i] = Entry(f, k)
          /\ \A j \in 1..Len(d) : d[j].of = k => j = i

\* The bytes and what was dispatched are in the order of the frames.
InTurn(s, d) ==
    /\ \A i, j \in 1..Len(s) : i < j => s[i].frame <= s[j].frame
    /\ \A i \in 1..Len(d), j \in 1..Len(s) : d[i].of <= s[j].frame
    /\ \A i, j \in 1..Len(d) : i < j => d[i].of <= d[j].of

\* The last byte is the delimiter of frame number n.
Ends(s, n) == Len(s) # 0 => s[Len(s)] = [byte |-> 0, frame |-> n]

\* n frames were sent.
Good(s, d, frames, n, hurt) ==
    /\ InTurn(s, d)
    /\ n + 1 \notin hurt => Ends(s, n) /\ NotArrived(d, n + 1)
    /\ \A k \in 1..n : k \notin hurt => OnItsWay(s, d, frames[k], k) \/ HasArrived(s, d, frames[k], k)

IInv == TypeOK /\ Good(buffer \o line, delivered, sent, Len(sent), damaged)

LEMMA WireFacts ==
    ASSUME ConstantsAssumption, NEW f \in Sendable
    PROVE  /\ Wire(f) \in Seq(Byte) /\ Len(Wire(f)) \in Nat /\ 0 < Len(Wire(f))
           /\ Wire(f)[Len(Wire(f))] = 0
           /\ \A i \in 1..(Len(Wire(f)) - 1) : Wire(f)[i] # 0
           /\ Received(Wire(f)) = <<f>>
<1>1. f \in FrameOf /\ Len(f.payload) <= MaxPayload
  BY DEF Sendable
<1>2. Raw(f) \in Seq(Byte)
  BY <1>1, RawRoundTrip
<1> QED BY <1>1, <1>2, StuffRoundTrip, FrameRoundTrip DEF Wire

-----------------------------------------------------------------------------
(* What is lost from the front, and what is taken.                          *)

\* t is s without its first c elements.
IsCut(t, s, c) ==
    /\ t \in Seq(Bytes) /\ Len(t) = Len(s) - c
    /\ \A i \in 1..Len(t) : t[i] = s[c + i]

LEMMA CutPlaced ==
    ASSUME NEW s \in Seq(Bytes), NEW t, NEW c \in 0..Len(s), IsCut(t, s, c),
           NEW p \in 0..Len(s), c <= p, NEW f, NEW k \in Nat, Len(Wire(f)) \in Nat,
           Placed(s, p, f, k)
    PROVE  p - c \in 0..Len(t) /\ Placed(t, p - c, f, k)
<1> DEFINE M == Len(Wire(f))
           q == p - c
<1>1. Len(s) \in Nat /\ Len(t) = Len(s) - c /\ Len(t) \in Nat /\ p + M <= Len(s) /\ q \in 0..Len(t)
  BY LenProperties DEF IsCut, Placed
<1>2. q + M <= Len(t)
  BY <1>1
<1>3. ASSUME NEW j \in 1..M PROVE t[q + j] = [byte |-> Wire(f)[j], frame |-> k]
  <2>1. q + j \in 1..Len(t) /\ c + (q + j) = p + j
    BY <1>1
  <2>2. t[q + j] = s[p + j]
    BY <2>1 DEF IsCut
  <2> QED BY <2>2 DEF Placed
<1>4. ASSUME NEW i \in 1..Len(t), t[i].frame = k PROVE q < i /\ i <= q + M
  <2>1. c + i \in 1..Len(s) /\ t[i] = s[c + i]
    BY <1>1 DEF IsCut
  <2>2. p < c + i /\ c + i <= p + M
    BY <1>4, <2>1 DEF Placed
  <2> QED BY <1>1, <2>2
<1>5. ASSUME q # 0 PROVE t[q] = [byte |-> 0, frame |-> k - 1]
  <2>1. q \in 1..Len(t) /\ c + q = p /\ p # 0
    BY <1>1, <1>5
  <2>2. t[q] = s[p]
    BY <2>1 DEF IsCut
  <2> QED BY <2>1, <2>2 DEF Placed
<1> QED BY <1>1, <1>2, <1>3, <1>4, <1>5 DEF Placed

LEMMA CutInTurn ==
    ASSUME NEW s \in Seq(Bytes), NEW t, NEW c \in 0..Len(s), IsCut(t, s, c),
           NEW d, InTurn(s, d)
    PROVE  InTurn(t, d)
<1>1. Len(s) \in Nat /\ Len(t) \in Nat
  BY LenProperties DEF IsCut
<1>2. \A i \in 1..Len(t) : c + i \in 1..Len(s) /\ t[i] = s[c + i]
  BY <1>1 DEF IsCut
<1>3. ASSUME NEW i \in 1..Len(t), NEW j \in 1..Len(t), i < j PROVE t[i].frame <= t[j].frame
  <2>1. c + i < c + j
    BY <1>1, <1>3
  <2> QED BY <1>2, <2>1 DEF InTurn
<1>4. \A i \in 1..Len(d), j \in 1..Len(t) : d[i].of <= t[j].frame
  BY <1>2 DEF InTurn
<1> QED BY <1>3, <1>4 DEF InTurn

LEMMA CutEnds ==
    ASSUME NEW s \in Seq(Bytes), NEW t, NEW c \in 0..Len(s), IsCut(t, s, c), NEW n, Ends(s, n)
    PROVE  Ends(t, n)
<1> SUFFICES ASSUME Len(t) # 0 PROVE t[Len(t)] = [byte |-> 0, frame |-> n]
  BY DEF Ends
<1>1. Len(s) \in Nat /\ Len(t) \in Nat /\ Len(t) \in 1..Len(t) /\ c + Len(t) = Len(s) /\ Len(s) # 0
  BY LenProperties DEF IsCut
<1>2. t[Len(t)] = s[Len(s)]
  BY <1>1 DEF IsCut
<1> QED BY <1>1, <1>2 DEF Ends

\* The first c bytes are gone, and hurt the frames that they were of.
LEMMA CutGood ==
    ASSUME ConstantsAssumption,
           NEW s \in Seq(Bytes), NEW t, NEW c \in 0..Len(s), IsCut(t, s, c),
           NEW d, NEW frames, NEW n \in Nat, \A k \in 1..n : frames[k] \in Sendable,
           NEW hurt, NEW hurt2, hurt \subseteq hurt2, \A i \in 1..c : s[i].frame \in hurt2,
           Good(s, d, frames, n, hurt)
    PROVE  Good(t, d, frames, n, hurt2)
<1>1. InTurn(t, d)
  BY CutInTurn DEF Good
<1>2. n + 1 \notin hurt2 => Ends(t, n) /\ NotArrived(d, n + 1)
  BY CutEnds DEF Good
<1>3. ASSUME NEW k \in 1..n, k \notin hurt2
      PROVE  OnItsWay(t, d, frames[k], k) \/ HasArrived(t, d, frames[k], k)
  <2> DEFINE f == frames[k]
  <2>1. Len(Wire(f)) \in Nat /\ 0 < Len(Wire(f)) /\ Len(s) \in Nat
    BY WireFacts, LenProperties
  <2> HIDE DEF f
  <2>2. CASE OnItsWay(s, d, f, k)
    <3>1. PICK p \in 0..Len(s) : Placed(s, p, f, k)
      BY <2>2 DEF OnItsWay
    <3>2. s[p + 1].frame = k
      <4>1. 1 \in 1..Len(Wire(f))
        BY <2>1
      <4>2. s[p + 1] = [byte |-> Wire(f)[1], frame |-> k]
        BY <3>1, <4>1 DEF Placed
      <4> QED BY <4>2
    <3>3. c <= p
      <4>1. ~(p + 1 \in 1..c)
        BY <1>3, <3>2
      <4> QED BY <2>1, <4>1
    <3>4. p - c \in 0..Len(t) /\ Placed(t, p - c, f, k)
      BY <2>1, <3>1, <3>3, CutPlaced
    <3> QED BY <2>2, <3>4 DEF OnItsWay, f
  <2>3. CASE HasArrived(s, d, f, k)
    <3>1. \A i \in 1..Len(t) : c + i \in 1..Len(s) /\ t[i] = s[c + i]
      BY <2>1 DEF IsCut
    <3> QED BY <2>3, <3>1 DEF HasArrived, f
  <2> QED BY <1>3, <2>2, <2>3 DEF Good, f
<1> QED BY <1>1, <1>2, <1>3 DEF Good

Appended(d, d2, e) ==
    /\ Len(d2) = Len(d) + 1
    /\ \A i \in 1..Len(d) : d2[i] = d[i]
    /\ d2[Len(d2)] = e

LEMMA AppendedFacts ==
    ASSUME NEW d, NEW d2, NEW e, Appended(d, d2, e), Len(d) \in Nat
    PROVE  /\ Len(d2) \in 1..Len(d2) /\ d2[Len(d2)] = e
           /\ \A i \in 1..Len(d) : i \in 1..Len(d2) /\ d2[i] = d[i]
           /\ \A i \in 1..Len(d2) : i = Len(d2) \/ i \in 1..Len(d)
<1>1. Len(d2) = Len(d) + 1
  BY DEF Appended
<1>2. Len(d2) \in 1..Len(d2) /\ \A i \in 1..Len(d) : i \in 1..Len(d2)
  BY <1>1
<1>3. \A i \in 1..Len(d2) : i = Len(d2) \/ i \in 1..Len(d)
  BY <1>1
<1> QED BY <1>2, <1>3 DEF Appended

\* What is dispatched of the frames in the bytes of of: the frame g, or nothing.
Outcome(found, d, d2, g, of) ==
    \/ found = <<>> /\ d2 = d
    \/ found = <<g>> /\ Appended(d, d2, Entry(g, of))

\* The first delimiter of s is at c, and taken holds the bytes up to there.
IsTaken(taken, s, c) ==
    /\ s[c].byte = 0 /\ \A i \in 1..(c - 1) : s[i].byte # 0
    /\ taken \in Seq(Byte) /\ Len(taken) = c /\ \A i \in 1..c : taken[i] = s[i].byte

\* The bytes before the first delimiter, and it, are taken.
LEMMA TakeGood ==
    ASSUME ConstantsAssumption,
           NEW s \in Seq(Bytes), NEW t, NEW c \in 1..Len(s), IsCut(t, s, c),
           NEW taken, IsTaken(taken, s, c),
           NEW d \in Seq(Dispatch), NEW d2, NEW g,
           Outcome(Received(taken), d, d2, g, s[c].frame),
           NEW frames, NEW n \in Nat, \A k \in 1..n : frames[k] \in Sendable,
           NEW hurt, Good(s, d, frames, n, hurt)
    PROVE  Good(t, d2, frames, n, hurt)
<1> DEFINE e == Entry(g, s[c].frame)
<1>a. s[c].byte = 0 /\ \A i \in 1..(c - 1) : s[i].byte # 0
  BY DEF IsTaken
<1>b. taken \in Seq(Byte) /\ Len(taken) = c /\ \A i \in 1..c : taken[i] = s[i].byte
  BY DEF IsTaken
<1>1. /\ Len(s) \in Nat /\ Len(d) \in Nat /\ c \in 0..Len(s)
      /\ \A i \in 1..Len(s) : s[i].frame \in Nat
      /\ \A i \in 1..Len(d) : d[i].of \in Nat
  <2>1. \A i \in 1..Len(s) : s[i] \in Bytes
    BY ElementOfSeq
  <2>2. \A i \in 1..Len(d) : d[i] \in Dispatch
    BY ElementOfSeq
  <2>3. Len(s) \in Nat /\ Len(d) \in Nat
    BY LenProperties
  <2>4. c \in 0..Len(s)
    BY <2>3
  <2>5. \A x \in Bytes : x.frame \in Nat
    BY DEF Bytes
  <2>6. \A x \in Dispatch : x.of \in Nat
    BY DEF Dispatch
  <2> QED BY <2>1, <2>2, <2>3, <2>4, <2>5, <2>6
<1>e. e.of = s[c].frame
  BY DEF Entry
<1> HIDE DEF e
<1>2. /\ Len(t) \in Nat /\ \A i \in 1..Len(t) : c + i \in 1..Len(s) /\ t[i] = s[c + i]
  BY <1>1, LenProperties DEF IsCut
<1>3. d2 = d \/ Appended(d, d2, e)
  BY DEF e, Outcome
<1>4. InTurn(t, d)
  BY <1>1, CutInTurn DEF Good
<1>5. InTurn(t, d2)
  <2>1. CASE d2 = d
    BY <1>4, <2>1
  <2>2. CASE Appended(d, d2, e)
    <3>1. /\ d2[Len(d2)] = e /\ Len(d2) = Len(d) + 1 /\ \A i \in 1..Len(d) : d2[i] = d[i]
      BY <2>2 DEF Appended
    <3>2. \A i \in 1..Len(d2) : i = Len(d2) \/ i \in 1..Len(d)
      BY <1>1, <2>2, AppendedFacts
    <3>3. ASSUME NEW j \in 1..Len(t) PROVE s[c].frame <= t[j].frame
      <4>1. c < c + j /\ c + j \in 1..Len(s) /\ t[j] = s[c + j]
        BY <1>1, <1>2
      <4> QED BY <4>1 DEF Good, InTurn
    <3>4. \A i \in 1..Len(d) : d[i].of <= s[c].frame
      BY DEF Good, InTurn
    <3>5. ASSUME NEW i \in 1..Len(d2), NEW j \in 1..Len(t) PROVE d2[i].of <= t[j].frame
      BY <1>4, <1>e, <3>1, <3>2, <3>3 DEF InTurn
    <3>6. ASSUME NEW i \in 1..Len(d2), NEW j \in 1..Len(d2), i < j PROVE d2[i].of <= d2[j].of
      <4>1. i \in 1..Len(d)
        BY <1>1, <3>1, <3>6
      <4>2. CASE j = Len(d2)
        BY <1>e, <3>1, <3>4, <4>1, <4>2
      <4>3. CASE j \in 1..Len(d)
        BY <3>1, <3>6, <4>1, <4>3 DEF Good, InTurn
      <4> QED BY <3>2, <4>2, <4>3
    <3> QED BY <1>4, <3>5, <3>6 DEF InTurn
  <2> QED BY <1>3, <2>1, <2>2
<1>6. ASSUME NEW k, NotArrived(d, k), s[c].frame # k PROVE NotArrived(d2, k)
  <2>1. CASE d2 = d
    BY <1>6, <2>1
  <2>2. CASE Appended(d, d2, e)
    <3>1. /\ d2[Len(d2)] = e /\ Len(d2) = Len(d) + 1 /\ \A i \in 1..Len(d) : d2[i] = d[i]
      BY <2>2 DEF Appended
    <3>2. \A i \in 1..Len(d2) : i = Len(d2) \/ i \in 1..Len(d)
      BY <1>1, <2>2, AppendedFacts
    <3> QED BY <1>6, <1>e, <3>1, <3>2 DEF NotArrived
  <2> QED BY <1>3, <2>1, <2>2
<1>7. n + 1 \notin hurt => Ends(t, n) /\ NotArrived(d2, n + 1)
  <2> SUFFICES ASSUME n + 1 \notin hurt PROVE Ends(t, n) /\ NotArrived(d2, n + 1)
    OBVIOUS
  <2>1. Ends(s, n) /\ NotArrived(d, n + 1)
    BY DEF Good
  <2>2. s[Len(s)].frame = n
    BY <1>1, <2>1 DEF Ends
  <2>3. s[c].frame <= n
    <3>1. CASE c = Len(s)
      BY <1>1, <2>2, <3>1
    <3>2. CASE c < Len(s)
      <4>1. Len(s) \in 1..Len(s)
        BY <1>1
      <4> QED BY <2>2, <3>2, <4>1 DEF Good, InTurn
    <3> QED BY <1>1, <3>1, <3>2
  <2>4. s[c].frame # n + 1
    BY <1>1, <2>3
  <2> QED BY <1>1, <1>6, <2>1, <2>4, CutEnds
<1>8. ASSUME NEW k \in 1..n, k \notin hurt
      PROVE  OnItsWay(t, d2, frames[k], k) \/ HasArrived(t, d2, frames[k], k)
  <2> DEFINE f == frames[k]
             M == Len(Wire(f))
  <2>1. /\ Wire(f) \in Seq(Byte) /\ M \in Nat /\ 0 < M /\ Wire(f)[M] = 0
        /\ \A i \in 1..(M - 1) : Wire(f)[i] # 0
        /\ Received(Wire(f)) = <<f>>
    BY WireFacts
  <2>2. OnItsWay(s, d, f, k) \/ HasArrived(s, d, f, k)
    BY <1>8 DEF Good
  <2> HIDE DEF f
  <2>3. CASE HasArrived(s, d, f, k)
    <3>0. \A i \in 1..Len(s) : s[i].frame # k
      BY <2>3 DEF HasArrived
    <3>1. \A i \in 1..Len(t) : t[i].frame # k
      <4> SUFFICES ASSUME NEW i \in 1..Len(t) PROVE t[i].frame # k
        OBVIOUS
      <4>1. c + i \in 1..Len(s) /\ t[i] = s[c + i]
        BY <1>2
      <4> QED BY <3>0, <4>1
    <3>2. s[c].frame # k
      BY <2>3 DEF HasArrived
    <3>3. PICK i \in 1..Len(d) : /\ d[i] = Entry(f, k)
                                 /\ \A j \in 1..Len(d) : d[j].of = k => j = i
      BY <2>3 DEF HasArrived
    <3>4. i \in 1..Len(d2) /\ d2[i] = Entry(f, k) /\ \A j \in 1..Len(d2) : d2[j].of = k => j = i
      <4>1. CASE d2 = d
        BY <3>3, <4>1
      <4>2. CASE Appended(d, d2, e)
        <5>1. /\ d2[Len(d2)] = e
              /\ \A j \in 1..Len(d) : j \in 1..Len(d2) /\ d2[j] = d[j]
              /\ \A j \in 1..Len(d2) : j = Len(d2) \/ j \in 1..Len(d)
          BY <1>1, <4>2, AppendedFacts
        <5> QED BY <1>e, <3>2, <3>3, <5>1
      <4> QED BY <1>3, <4>1, <4>2
    <3>5. HasArrived(t, d2, f, k)
      BY <3>1, <3>4 DEF HasArrived
    <3> QED BY <3>5 DEF f
  <2>4. CASE OnItsWay(s, d, f, k)
    <3>1. PICK p \in 0..Len(s) : Placed(s, p, f, k)
      BY <2>4 DEF OnItsWay
    <3>2. CASE p # 0
      <4>1. s[p] = [byte |-> 0, frame |-> k - 1] /\ p \in 1..Len(s)
        BY <1>1, <3>1, <3>2 DEF Placed
      <4>2. c <= p
        <5>1. ~(p \in 1..(c - 1))
          BY <1>a, <4>1
        <5> QED BY <1>1, <4>1, <5>1
      <4>3. s[c].frame # k
        <5>1. s[c].frame = k => p < c
          BY <3>1 DEF Placed
        <5> QED BY <1>1, <4>2, <5>1
      <4>4. p - c \in 0..Len(t) /\ Placed(t, p - c, f, k)
        BY <1>1, <2>1, <3>1, <4>2, CutPlaced
      <4>5. NotArrived(d2, k)
        BY <1>6, <2>4, <4>3 DEF OnItsWay
      <4> QED BY <4>4, <4>5 DEF OnItsWay, f
    <3>3. CASE p = 0
      <4>1. /\ M <= Len(s)
            /\ \A j \in 1..M : s[j] = [byte |-> Wire(f)[j], frame |-> k]
            /\ \A i \in 1..Len(s) : s[i].frame = k => i <= M
        <5>1. \A j \in 1..M : 0 + j = j
          BY <2>1
        <5>2. 0 + M = M
          BY <2>1
        <5> QED BY <3>1, <3>3, <5>1, <5>2 DEF Placed
      <4>2. c = M
        <5>1. s[M].byte = 0
          <6>1. M \in 1..M
            BY <2>1
          <6>2. s[M] = [byte |-> Wire(f)[M], frame |-> k]
            BY <4>1, <6>1
          <6> QED BY <2>1, <6>2
        <5>2. ~(M \in 1..(c - 1))
          BY <1>a, <5>1
        <5>3. ASSUME c < M PROVE FALSE
          <6>1. c \in 1..(M - 1) /\ c \in 1..M
            BY <1>1, <2>1, <5>3
          <6>2. s[c] = [byte |-> Wire(f)[c], frame |-> k]
            BY <4>1, <6>1
          <6>3. Wire(f)[c] = 0
            BY <1>a, <6>2
          <6> QED BY <2>1, <6>1, <6>3
        <5> QED BY <1>1, <2>1, <5>2, <5>3
      <4>3. taken = Wire(f)
        <5>1. Len(taken) = Len(Wire(f))
          BY <1>b, <4>2
        <5>2. ASSUME NEW i \in 1..Len(taken) PROVE taken[i] = Wire(f)[i]
          <6>1. i \in 1..M /\ i \in 1..c
            BY <4>2, <5>1
          <6>2. s[i] = [byte |-> Wire(f)[i], frame |-> k]
            BY <4>1, <6>1
          <6>3. s[i].byte = Wire(f)[i]
            BY <6>2
          <6> QED BY <1>b, <6>1, <6>3
        <5> QED BY <1>b, <2>1, <5>1, <5>2, SeqEqual
      <4>4. Received(taken) = <<f>> /\ s[c].frame = k
        <5>1. c \in 1..M
          BY <1>1, <4>2
        <5>2. s[c] = [byte |-> Wire(f)[c], frame |-> k]
          BY <4>1, <5>1
        <5> QED BY <2>1, <4>3, <5>2
      <4>5. Appended(d, d2, Entry(f, k))
        <5>1. <<f>> # <<>> /\ \A x : <<f>> = <<x>> => f = x
          OBVIOUS
        <5> QED BY <4>4, <5>1 DEF Outcome
      <4>6. /\ Len(d2) \in 1..Len(d2) /\ d2[Len(d2)] = Entry(f, k)
            /\ \A i \in 1..Len(d) : d2[i] = d[i]
            /\ \A i \in 1..Len(d2) : i = Len(d2) \/ i \in 1..Len(d)
        BY <1>1, <4>5, AppendedFacts
      <4>7. \A j \in 1..Len(d2) : d2[j].of = k => j = Len(d2)
        BY <2>4, <4>6 DEF OnItsWay, NotArrived
      <4>8. \A i \in 1..Len(t) : t[i].frame # k
        <5> SUFFICES ASSUME NEW i \in 1..Len(t), t[i].frame = k PROVE FALSE
          OBVIOUS
        <5>1. c + i \in 1..Len(s) /\ s[c + i].frame = k
          BY <1>2
        <5>2. c + i <= M
          BY <4>1, <5>1
        <5> QED BY <1>1, <4>2, <5>2
      <4> QED BY <4>6, <4>7, <4>8 DEF HasArrived, f
    <3> QED BY <3>2, <3>3
  <2> QED BY <2>2, <2>3, <2>4
<1> QED BY <1>5, <1>7, <1>8 DEF Good

-----------------------------------------------------------------------------
(* A frame is sent.                                                         *)

\* t is s and the bytes of a frame of that number.
IsSent(t, s, f, k) ==
    /\ t \in Seq(Bytes) /\ Len(t) = Len(s) + Len(Wire(f))
    /\ \A i \in 1..Len(s) : t[i] = s[i]
    /\ \A j \in 1..Len(Wire(f)) : t[Len(s) + j] = [byte |-> Wire(f)[j], frame |-> k]

\* Nothing in s or d belongs to a frame that comes later.
NotLater(s, d, k) ==
    /\ \A i \in 1..Len(s) : s[i].frame \in Nat /\ s[i].frame <= k
    /\ \A i \in 1..Len(d) : d[i].of \in Nat /\ d[i].of <= k

LEMMA SendGood ==
    ASSUME ConstantsAssumption, NEW s \in Seq(Bytes), NEW t, NEW g \in Sendable,
           NEW n \in Nat, IsSent(t, s, g, n + 1), NEW d, NotLater(s, d, n + 1),
           NEW frames, NEW frames2, \A k \in 1..n : frames[k] \in Sendable /\ frames2[k] = frames[k],
           frames2[n + 1] = g, NEW hurt, Good(s, d, frames, n, hurt)
    PROVE  Good(t, d, frames2, n + 1, hurt)
<1> DEFINE N == Len(s)
           G == Len(Wire(g))
<1>1. N \in Nat /\ G \in Nat /\ 0 < G /\ Wire(g)[G] = 0
  BY WireFacts, LenProperties
<1>2. /\ Len(t) = N + G /\ \A i \in 1..N : t[i] = s[i]
      /\ \A j \in 1..G : t[N + j] = [byte |-> Wire(g)[j], frame |-> n + 1]
  BY DEF IsSent
<1> HIDE DEF N, G
<1>3. ASSUME NEW i \in 1..Len(t), i \notin 1..N PROVE t[i].frame = n + 1 /\ i > N
  <2>1. i - N \in 1..G /\ N + (i - N) = i /\ i > N
    BY <1>1, <1>2, <1>3
  <2>2. t[i] = [byte |-> Wire(g)[i - N], frame |-> n + 1]
    BY <1>2, <2>1
  <2> QED BY <2>1, <2>2
<1>4. \A i \in 1..N : t[i] = s[i] /\ t[i].frame \in Nat /\ t[i].frame <= n + 1
  BY <1>2 DEF NotLater, N
<1>5. InTurn(t, d)
  <2>1. ASSUME NEW i \in 1..Len(t), NEW j \in 1..Len(t), i < j PROVE t[i].frame <= t[j].frame
    <3>1. CASE j \in 1..N
      <4>1. i \in 1..N
        BY <1>1, <2>1, <3>1
      <4> QED BY <1>4, <2>1, <3>1, <4>1 DEF Good, InTurn, N
    <3>2. CASE j \notin 1..N
      <4>1. t[j].frame = n + 1
        BY <1>3, <3>2
      <4>2. t[i].frame = n + 1 \/ t[i].frame <= n + 1
        BY <1>3, <1>4
      <4> QED BY <4>1, <4>2
    <3> QED BY <3>1, <3>2
  <2>2. ASSUME NEW i \in 1..Len(d), NEW j \in 1..Len(t) PROVE d[i].of <= t[j].frame
    <3>1. CASE j \in 1..N
      BY <1>4, <3>1 DEF Good, InTurn, N
    <3>2. CASE j \notin 1..N
      BY <1>3, <3>2 DEF NotLater
    <3> QED BY <3>1, <3>2
  <2>3. \A i, j \in 1..Len(d) : i < j => d[i].of <= d[j].of
    BY DEF Good, InTurn
  <2> QED BY <2>1, <2>2, <2>3 DEF InTurn
<1>6. Ends(t, n + 1)
  <2>1. G \in 1..G
    BY <1>1
  <2> QED BY <1>1, <1>2, <2>1 DEF Ends
<1>7. NotArrived(d, (n + 1) + 1)
  BY DEF NotLater, NotArrived
<1>8. ASSUME NEW k \in 1..n, k \notin hurt
      PROVE  OnItsWay(t, d, frames2[k], k) \/ HasArrived(t, d, frames2[k], k)
  <2> DEFINE f == frames2[k]
             M == Len(Wire(f))
  <2>1. f \in Sendable /\ (OnItsWay(s, d, f, k) \/ HasArrived(s, d, f, k))
    BY <1>8 DEF Good
  <2>2. M \in Nat
    BY <2>1, WireFacts
  <2>3. \A i \in 1..Len(t) : t[i].frame = k => i \in 1..N /\ s[i].frame = k
    BY <1>3, <1>4
  <2> HIDE DEF f, M
  <2>4. CASE OnItsWay(s, d, f, k)
    <3>1. PICK p \in 0..N : Placed(s, p, f, k)
      BY <2>4 DEF OnItsWay, N
    <3>2. p + M <= N /\ N <= Len(t) /\ p \in 0..Len(t)
      BY <1>1, <1>2, <3>1 DEF Placed, M, N
    <3>3. ASSUME NEW j \in 1..M PROVE t[p + j] = [byte |-> Wire(f)[j], frame |-> k]
      <4>1. p + j \in 1..N
        BY <1>1, <2>2, <3>2
      <4>2. t[p + j] = s[p + j]
        BY <1>2, <4>1
      <4> QED BY <3>1, <4>2 DEF Placed, M
    <3>4. \A i \in 1..Len(t) : t[i].frame = k => p < i /\ i <= p + M
      BY <2>3, <3>1 DEF Placed, M, N
    <3>5. ASSUME p # 0 PROVE t[p] = [byte |-> 0, frame |-> k - 1]
      <4>1. p \in 1..N
        BY <1>1, <3>5
      <4>2. t[p] = s[p]
        BY <1>2, <4>1
      <4> QED BY <3>1, <3>5, <4>2 DEF Placed
    <3>6. p + M <= Len(t)
      BY <1>1, <1>2, <2>2, <3>2
    <3>7. Placed(t, p, f, k)
      BY <3>3, <3>4, <3>5, <3>6 DEF Placed, M
    <3> QED BY <2>4, <3>2, <3>7 DEF OnItsWay, f
  <2>5. CASE HasArrived(s, d, f, k)
    <3>1. \A i \in 1..N : s[i].frame # k
      BY <2>5 DEF HasArrived, N
    <3>2. \A i \in 1..Len(t) : t[i].frame # k
      BY <2>3, <3>1
    <3>3. HasArrived(t, d, f, k)
      BY <2>5, <3>2 DEF HasArrived
    <3> QED BY <3>3 DEF f
  <2> QED BY <2>1, <2>4, <2>5
<1>9. ASSUME n + 1 \notin hurt PROVE OnItsWay(t, d, g, n + 1)
  <2>1. Ends(s, n) /\ NotArrived(d, n + 1)
    BY <1>9 DEF Good
  <2>2. N # 0 => s[N] = [byte |-> 0, frame |-> n]
    BY <2>1 DEF Ends, N
  <2>3. ASSUME NEW i \in 1..N PROVE s[i].frame # n + 1
    <3>1. N # 0 /\ N \in 1..N
      BY <1>1
    <3>2. s[N].frame = n
      BY <2>2, <3>1
    <3>3. i = N \/ s[i].frame <= s[N].frame
      BY <1>1, <3>1 DEF Good, InTurn, N
    <3>4. s[i].frame \in Nat
      BY DEF NotLater, N
    <3> QED BY <3>2, <3>3, <3>4
  <2>4. \A i \in 1..Len(t) : t[i].frame = n + 1 => N < i /\ i <= N + G
    BY <1>1, <1>2, <1>3, <1>4, <2>3
  <2>5. N # 0 => t[N] = [byte |-> 0, frame |-> (n + 1) - 1]
    <3> SUFFICES ASSUME N # 0 PROVE t[N] = [byte |-> 0, frame |-> (n + 1) - 1]
      OBVIOUS
    <3>1. t[N] = s[N] /\ (n + 1) - 1 = n
      BY <1>1, <1>2
    <3> QED BY <2>2, <3>1
  <2>6. N + G <= Len(t) /\ N \in 0..Len(t)
    BY <1>1, <1>2
  <2>7. Placed(t, N, g, n + 1)
    BY <1>2, <2>4, <2>5, <2>6 DEF Placed, G
  <2> QED BY <2>1, <2>6, <2>7 DEF OnItsWay
<1>10. ASSUME NEW k \in 1..(n + 1), k \notin hurt
       PROVE  OnItsWay(t, d, frames2[k], k) \/ HasArrived(t, d, frames2[k], k)
  <2>1. CASE k \in 1..n
    BY <1>8, <1>10, <2>1
  <2>2. CASE k = n + 1
    BY <1>9, <1>10, <2>2
  <2> QED BY <2>1, <2>2
<1> QED BY <1>5, <1>6, <1>7, <1>10 DEF Good

-----------------------------------------------------------------------------
(* The line loses, changes and adds a byte.                                 *)

\* A frame that is where it was, or has moved as a whole.
LEMMA PlacedMoved ==
    ASSUME NEW s, NEW t, NEW p \in Nat, NEW r \in Nat, NEW f, NEW k, Len(Wire(f)) \in Nat,
           Placed(s, p, f, k),
           r + Len(Wire(f)) <= Len(t),
           \A j \in 1..Len(Wire(f)) : t[r + j] = s[p + j],
           \A i \in 1..Len(t) : t[i].frame = k => r < i /\ i <= r + Len(Wire(f)),
           r # 0 => p # 0 /\ t[r] = s[p]
    PROVE  Placed(t, r, f, k)
<1>1. ASSUME NEW j \in 1..Len(Wire(f)) PROVE t[r + j] = [byte |-> Wire(f)[j], frame |-> k]
  BY DEF Placed
<1>2. r # 0 => t[r] = [byte |-> 0, frame |-> k - 1]
  BY DEF Placed
<1> QED BY <1>1, <1>2 DEF Placed

HurtBy(e) == {e.frame} \cup (IF e.byte = 0 THEN {e.frame + 1} ELSE {})

\* t is s without element q.
IsShorter(t, s, q) ==
    /\ t \in Seq(Bytes) /\ Len(t) = Len(s) - 1
    /\ \A i \in 1..Len(t) : t[i] = IF i < q THEN s[i] ELSE s[i + 1]

\* What is known of a frame behind position p of s that byte q does not hurt.
LEMMA Unhurt ==
    ASSUME NEW s \in Seq(Bytes), NEW q \in 1..Len(s), NEW p \in 0..Len(s), NEW f,
           NEW k \in Nat, NEW hurt, HurtBy(s[q]) \subseteq hurt, k \notin hurt,
           Len(Wire(f)) \in Nat, Placed(s, p, f, k)
    PROVE  (q < p \/ q > p + Len(Wire(f))) /\ s[q].frame # k
<1> DEFINE M == Len(Wire(f))
<1>0. Len(s) \in Nat
  BY LenProperties
<1>1. s[q].frame # k /\ (s[q].byte = 0 => s[q].frame + 1 # k)
  BY DEF HurtBy
<1>2. ~(q = p)
  <2> SUFFICES ASSUME q = p PROVE FALSE
    OBVIOUS
  <2>1. s[q] = [byte |-> 0, frame |-> k - 1]
    BY DEF Placed
  <2>2. s[q].byte = 0 /\ s[q].frame = k - 1
    BY <2>1
  <2> QED BY <1>1, <2>2
<1>3. ~(p < q /\ q <= p + M)
  <2> SUFFICES ASSUME p < q, q <= p + M PROVE FALSE
    OBVIOUS
  <2>1. q - p \in 1..M /\ p + (q - p) = q
    BY <1>0
  <2>2. s[q] = [byte |-> Wire(f)[q - p], frame |-> k]
    BY <2>1 DEF Placed
  <2>3. s[q].frame = k
    BY <2>2
  <2> QED BY <1>1, <2>3
<1> QED BY <1>0, <1>1, <1>2, <1>3

\* If s ends behind frame n and byte q does not hurt the next frame, q is not the last byte.
LEMMA UnhurtEnd ==
    ASSUME NEW s \in Seq(Bytes), NEW q \in 1..Len(s), NEW n \in Nat, Ends(s, n),
           NEW hurt, HurtBy(s[q]) \subseteq hurt, n + 1 \notin hurt
    PROVE  q < Len(s)
<1>1. Len(s) \in Nat
  BY LenProperties
<1> SUFFICES ASSUME q = Len(s) PROVE FALSE
  BY <1>1
<1>2. s[q] = [byte |-> 0, frame |-> n]
  BY <1>1 DEF Ends
<1>3. s[q].byte = 0 /\ s[q].frame = n
  BY <1>2
<1> QED BY <1>3 DEF HurtBy

LEMMA LoseGood ==
    ASSUME ConstantsAssumption,
           NEW s \in Seq(Bytes), NEW t, NEW q \in 1..Len(s), IsShorter(t, s, q), NEW d,
           NEW frames, NEW n \in Nat, \A k \in 1..n : frames[k] \in Sendable,
           NEW hurt, NEW hurt2, hurt \subseteq hurt2, HurtBy(s[q]) \subseteq hurt2,
           Good(s, d, frames, n, hurt)
    PROVE  Good(t, d, frames, n, hurt2)
<1> DEFINE N == Len(s)
           at(i) == IF i < q THEN i ELSE i + 1
<1>1. N \in Nat /\ Len(t) = N - 1 /\ Len(t) \in Nat
  BY LenProperties DEF IsShorter
<1>2. \A i \in 1..Len(t) : at(i) \in 1..N /\ t[i] = s[at(i)]
  BY <1>1 DEF IsShorter
<1>3. \A i, j \in 1..Len(t) : i < j => at(i) < at(j)
  OBVIOUS
<1>4. InTurn(t, d)
  <2> HIDE DEF at
  <2>1. \A i, j \in 1..Len(t) : i < j => t[i].frame <= t[j].frame
    BY <1>2, <1>3 DEF Good, InTurn
  <2>2. \A i \in 1..Len(d), j \in 1..Len(t) : d[i].of <= t[j].frame
    BY <1>2 DEF Good, InTurn
  <2>3. \A i, j \in 1..Len(d) : i < j => d[i].of <= d[j].of
    BY DEF Good, InTurn
  <2> QED BY <2>1, <2>2, <2>3 DEF InTurn
<1>5. n + 1 \notin hurt2 => Ends(t, n) /\ NotArrived(d, n + 1)
  <2> SUFFICES ASSUME n + 1 \notin hurt2 PROVE Ends(t, n) /\ NotArrived(d, n + 1)
    OBVIOUS
  <2>1. Ends(s, n) /\ NotArrived(d, n + 1)
    BY DEF Good
  <2>2. q < N
    BY <2>1, UnhurtEnd
  <2>3. Len(t) \in 1..Len(t) /\ at(Len(t)) = N
    BY <1>1, <2>2
  <2>4. t[Len(t)] = s[N] /\ N # 0
    BY <1>1, <1>2, <2>3
  <2> QED BY <2>1, <2>4 DEF Ends
<1>6. ASSUME NEW k \in 1..n, k \notin hurt2
      PROVE  OnItsWay(t, d, frames[k], k) \/ HasArrived(t, d, frames[k], k)
  <2> DEFINE f == frames[k]
             M == Len(Wire(f))
  <2>1. M \in Nat /\ 0 < M /\ (OnItsWay(s, d, f, k) \/ HasArrived(s, d, f, k))
    BY <1>6, WireFacts DEF Good
  <2> HIDE DEF f
  <2>2. CASE OnItsWay(s, d, f, k)
    <3>1. PICK p \in 0..N : Placed(s, p, f, k)
      BY <2>2 DEF OnItsWay
    <3>2. q < p \/ q > p + M
      BY <1>6, <2>1, <3>1, Unhurt
    <3>3. p + M <= N /\ \A i \in 1..N : s[i].frame = k => p < i /\ i <= p + M
      BY <3>1 DEF Placed
    <3>4. \A i \in 1..Len(t) : t[i].frame = k => p < at(i) /\ at(i) <= p + M
      <4> HIDE DEF at, M
      <4> QED BY <1>2, <3>3
    <3> DEFINE r == IF q < p THEN p - 1 ELSE p
    <3>5. r \in 0..Len(t) /\ r + M <= Len(t)
      BY <1>1, <2>1, <3>2, <3>3
    <3>6. ASSUME NEW j \in 1..M PROVE t[r + j] = s[p + j]
      <4>1. r + j \in 1..Len(t) /\ at(r + j) = p + j
        BY <1>1, <2>1, <3>2, <3>5
      <4> QED BY <1>2, <4>1
    <3>7. \A i \in 1..Len(t) : t[i].frame = k => r < i /\ i <= r + M
      <4> SUFFICES ASSUME NEW i \in 1..Len(t), t[i].frame = k PROVE r < i /\ i <= r + M
        OBVIOUS
      <4>1. p < at(i) /\ at(i) <= p + M
        BY <3>4
      <4> QED BY <2>1, <3>2, <4>1
    <3>8. ASSUME r # 0 PROVE p # 0 /\ t[r] = s[p]
      <4>1. p # 0 /\ r \in 1..Len(t) /\ at(r) = p
        BY <1>1, <2>1, <3>2, <3>5, <3>8
      <4> QED BY <1>2, <4>1, SMTT(30)
    <3> HIDE DEF r
    <3>9. Placed(t, r, f, k)
      <4>1. p \in Nat /\ r \in Nat
        BY <3>5
      <4> QED BY <2>1, <3>1, <3>5, <3>6, <3>7, <3>8, <4>1, PlacedMoved
    <3> QED BY <2>2, <3>5, <3>9 DEF OnItsWay, f
  <2>3. CASE HasArrived(s, d, f, k)
    <3>1. \A i \in 1..N : s[i].frame # k
      BY <2>3 DEF HasArrived
    <3>2. \A i \in 1..Len(t) : t[i].frame # k
      <4> HIDE DEF at
      <4> QED BY <1>2, <3>1
    <3>3. HasArrived(t, d, f, k)
      BY <2>3, <3>2 DEF HasArrived
    <3> QED BY <3>3 DEF f
  <2> QED BY <2>1, <2>2, <2>3
<1> QED BY <1>4, <1>5, <1>6 DEF Good

\* t is s but for the byte of element q.
IsChanged(t, s, q) ==
    /\ t \in Seq(Bytes) /\ Len(t) = Len(s)
    /\ \A i \in 1..Len(s) : t[i].frame = s[i].frame /\ (i # q => t[i] = s[i])

LEMMA ChangeGood ==
    ASSUME ConstantsAssumption,
           NEW s \in Seq(Bytes), NEW t, NEW q \in 1..Len(s), IsChanged(t, s, q), NEW d,
           NEW frames, NEW n \in Nat, \A k \in 1..n : frames[k] \in Sendable,
           NEW hurt, NEW hurt2, hurt \subseteq hurt2, HurtBy(s[q]) \subseteq hurt2,
           Good(s, d, frames, n, hurt)
    PROVE  Good(t, d, frames, n, hurt2)
<1> DEFINE N == Len(s)
<1>1. N \in Nat /\ Len(t) = N
  BY LenProperties DEF IsChanged
<1>2. \A i \in 1..N : t[i].frame = s[i].frame /\ (i # q => t[i] = s[i])
  BY DEF IsChanged
<1>3. InTurn(t, d)
  BY <1>1, <1>2 DEF Good, InTurn
<1>4. n + 1 \notin hurt2 => Ends(t, n) /\ NotArrived(d, n + 1)
  <2> SUFFICES ASSUME n + 1 \notin hurt2 PROVE Ends(t, n) /\ NotArrived(d, n + 1)
    OBVIOUS
  <2>1. Ends(s, n) /\ NotArrived(d, n + 1)
    BY DEF Good
  <2>2. q < N
    BY <2>1, UnhurtEnd
  <2>3. N \in 1..N /\ N # q
    BY <1>1, <2>2
  <2>4. t[Len(t)] = s[N]
    BY <1>1, <1>2, <2>3
  <2> QED BY <1>1, <2>1, <2>4 DEF Ends
<1>5. ASSUME NEW k \in 1..n, k \notin hurt2
      PROVE  OnItsWay(t, d, frames[k], k) \/ HasArrived(t, d, frames[k], k)
  <2> DEFINE f == frames[k]
             M == Len(Wire(f))
  <2>1. M \in Nat /\ 0 < M /\ (OnItsWay(s, d, f, k) \/ HasArrived(s, d, f, k))
    BY <1>5, WireFacts DEF Good
  <2> HIDE DEF f
  <2>2. CASE OnItsWay(s, d, f, k)
    <3>1. PICK p \in 0..N : Placed(s, p, f, k)
      BY <2>2 DEF OnItsWay
    <3>2. q < p \/ q > p + M
      BY <1>5, <2>1, <3>1, Unhurt
    <3>3. p + M <= N /\ \A i \in 1..N : s[i].frame = k => p < i /\ i <= p + M
      BY <3>1 DEF Placed
    <3>4. ASSUME NEW j \in 1..M PROVE t[p + j] = s[p + j]
      <4>1. p + j \in 1..N /\ p + j # q
        BY <1>1, <2>1, <3>2, <3>3
      <4> QED BY <1>2, <4>1
    <3>5. ASSUME p # 0 PROVE t[p] = s[p]
      <4>1. p \in 1..N /\ p # q
        BY <1>1, <2>1, <3>2, <3>5
      <4> QED BY <1>2, <4>1
    <3>6. Placed(t, p, f, k)
      <4>1. p \in Nat /\ p + M <= Len(t)
        BY <1>1, <3>3
      <4>2. \A i \in 1..Len(t) : t[i].frame = k => p < i /\ i <= p + M
        BY <1>1, <1>2, <3>3
      <4> QED BY <2>1, <3>1, <3>4, <3>5, <4>1, <4>2, PlacedMoved
    <3> QED BY <1>1, <2>2, <3>6 DEF OnItsWay, f
  <2>3. CASE HasArrived(s, d, f, k)
    <3>1. HasArrived(t, d, f, k)
      BY <1>1, <1>2, <2>3 DEF HasArrived
    <3> QED BY <3>1 DEF f
  <2> QED BY <2>1, <2>2, <2>3
<1> QED BY <1>3, <1>4, <1>5 DEF Good

\* t is s with one more element at q, of the frame of its successor or, at the end, of the
\* frame m.
IsLonger(t, s, q, m) ==
    /\ t \in Seq(Bytes) /\ Len(t) = Len(s) + 1
    /\ \A i \in 1..Len(t) : (i < q => t[i] = s[i]) /\ (i > q => t[i] = s[i - 1])
    /\ t[q].frame = IF q = Len(s) + 1 THEN m ELSE s[q].frame

LEMMA AddGood ==
    ASSUME ConstantsAssumption,
           NEW s \in Seq(Bytes), NEW n \in Nat, NEW t, NEW q \in 1..(Len(s) + 1),
           IsLonger(t, s, q, n + 1), NEW d, NotLater(s, d, n + 1),
           NEW frames, \A k \in 1..n : frames[k] \in Sendable,
           NEW hurt, NEW hurt2, hurt \subseteq hurt2, t[q].frame \in hurt2,
           Good(s, d, frames, n, hurt)
    PROVE  Good(t, d, frames, n, hurt2)
<1> DEFINE N == Len(s)
           \* where an element of s has moved to
           to(i) == IF i < q THEN i ELSE i + 1
<1>1. N \in Nat /\ Len(t) = N + 1 /\ q \in 1..Len(t)
  BY LenProperties DEF IsLonger
<1>2. \A i \in 1..N : to(i) \in 1..Len(t) /\ to(i) # q /\ t[to(i)] = s[i]
  <2> SUFFICES ASSUME NEW i \in 1..N PROVE to(i) \in 1..Len(t) /\ to(i) # q /\ t[to(i)] = s[i]
    OBVIOUS
  <2>1. CASE i < q
    BY <1>1, <2>1 DEF IsLonger
  <2>2. CASE ~(i < q)
    <3>1. i + 1 \in 1..Len(t) /\ i + 1 > q /\ (i + 1) - 1 = i
      BY <1>1, <2>2
    <3>2. t[i + 1] = s[i]
      BY <3>1 DEF IsLonger
    <3> QED BY <2>2, <3>1, <3>2
  <2> QED BY <2>1, <2>2
<1>3. \A i \in 1..Len(t) : i = q \/ \E j \in 1..N : i = to(j)
  <2> SUFFICES ASSUME NEW i \in 1..Len(t), i # q PROVE \E j \in 1..N : i = to(j)
    OBVIOUS
  <2>1. CASE i < q
    <3>1. i \in 1..N /\ i = to(i)
      BY <1>1, <2>1
    <3> QED BY <3>1
  <2>2. CASE i > q
    <3>1. i - 1 \in 1..N /\ i = to(i - 1)
      BY <1>1, <2>2
    <3> QED BY <3>1
  <2> QED BY <2>1, <2>2
<1>4. /\ q = N + 1 => t[q].frame = n + 1
      /\ q \in 1..N => t[q].frame = s[q].frame
  <2>1. q \in 1..N => q # N + 1
    BY <1>1
  <2> QED BY <2>1 DEF IsLonger
<1>5. q = N + 1 \/ q \in 1..N
  BY <1>1
<1>6. /\ \A i, j \in 1..N : i < j => s[i].frame <= s[j].frame
      /\ \A i \in 1..Len(d), j \in 1..N : d[i].of <= s[j].frame
      /\ \A i, j \in 1..Len(d) : i < j => d[i].of <= d[j].of
  BY DEF Good, InTurn
<1>7. /\ \A i \in 1..N : s[i].frame \in Nat /\ s[i].frame <= n + 1
      /\ \A i \in 1..Len(d) : d[i].of \in Nat /\ d[i].of <= n + 1
  BY DEF NotLater
<1>8. InTurn(t, d)
  <2>1. ASSUME NEW i \in 1..N, to(i) < q PROVE s[i].frame <= t[q].frame
    <3>1. i < q
      BY <2>1
    <3> QED BY <1>4, <1>5, <1>6, <1>7, <3>1
  <2>2. ASSUME NEW i \in 1..N, q < to(i) PROVE t[q].frame <= s[i].frame
    <3>1. q \in 1..N /\ (q = i \/ q < i)
      BY <1>1, <2>2
    <3>2. s[q].frame <= s[i].frame
      BY <1>6, <1>7, <3>1
    <3> QED BY <1>4, <3>1, <3>2
  <2>3. \A i, j \in 1..N : to(i) < to(j) => i < j
    OBVIOUS
  <2>4. ASSUME NEW i \in 1..Len(t), NEW j \in 1..Len(t), i < j PROVE t[i].frame <= t[j].frame
    <3> HIDE DEF to
    <3>1. CASE i = q
      <4>1. PICK b \in 1..N : j = to(b)
        BY <1>3, <2>4, <3>1
      <4> QED BY <1>2, <2>2, <2>4, <3>1, <4>1
    <3>2. CASE j = q
      <4>1. PICK a \in 1..N : i = to(a)
        BY <1>3, <2>4, <3>2
      <4> QED BY <1>2, <2>1, <2>4, <3>2, <4>1
    <3>3. CASE i # q /\ j # q
      <4>1. PICK a \in 1..N : i = to(a)
        BY <1>3, <3>3
      <4>2. PICK b \in 1..N : j = to(b)
        BY <1>3, <3>3
      <4> QED BY <1>2, <1>6, <2>3, <2>4, <4>1, <4>2
    <3> QED BY <3>1, <3>2, <3>3
  <2>5. ASSUME NEW i \in 1..Len(d), NEW j \in 1..Len(t) PROVE d[i].of <= t[j].frame
    <3> HIDE DEF to
    <3>1. CASE j = q
      BY <1>4, <1>5, <1>6, <1>7, <3>1
    <3>2. CASE j # q
      <4>1. PICK b \in 1..N : j = to(b)
        BY <1>3, <3>2
      <4> QED BY <1>2, <1>6, <4>1
    <3> QED BY <3>1, <3>2
  <2> QED BY <1>6, <2>4, <2>5 DEF InTurn
<1>9. n + 1 \notin hurt2 => Ends(t, n) /\ NotArrived(d, n + 1)
  <2> SUFFICES ASSUME n + 1 \notin hurt2 PROVE Ends(t, n) /\ NotArrived(d, n + 1)
    OBVIOUS
  <2>1. Ends(s, n) /\ NotArrived(d, n + 1)
    BY DEF Good
  <2>2. q \in 1..N
    BY <1>4, <1>5
  <2>3. N \in 1..N /\ to(N) = Len(t) /\ N # 0
    BY <1>1, <2>2
  <2>4. t[Len(t)] = s[N]
    BY <1>2, <2>3
  <2> QED BY <2>1, <2>3, <2>4 DEF Ends
<1>10. ASSUME NEW k \in 1..n, k \notin hurt2
       PROVE  OnItsWay(t, d, frames[k], k) \/ HasArrived(t, d, frames[k], k)
  <2> DEFINE f == frames[k]
             M == Len(Wire(f))
  <2>1. M \in Nat /\ 0 < M /\ (OnItsWay(s, d, f, k) \/ HasArrived(s, d, f, k))
    BY <1>10, WireFacts DEF Good
  <2> HIDE DEF f
  <2>2. \A i \in 1..Len(t) : t[i].frame = k => \E j \in 1..N : i = to(j) /\ s[j].frame = k
    <3> HIDE DEF to
    <3> SUFFICES ASSUME NEW i \in 1..Len(t), t[i].frame = k
                 PROVE  \E j \in 1..N : i = to(j) /\ s[j].frame = k
      OBVIOUS
    <3>1. i # q
      BY <1>10
    <3>2. PICK j \in 1..N : i = to(j)
      BY <1>3, <3>1
    <3> QED BY <1>2, <3>2
  <2>3. CASE OnItsWay(s, d, f, k)
    <3>1. PICK p \in 0..N : Placed(s, p, f, k)
      BY <2>3 DEF OnItsWay
    <3>2. p + M <= N /\ \A i \in 1..N : s[i].frame = k => p < i /\ i <= p + M
      BY <3>1 DEF Placed
    <3>3. ~(p < q /\ q <= p + M)
      <4> SUFFICES ASSUME p < q, q <= p + M PROVE FALSE
        OBVIOUS
      <4>1. q - p \in 1..M /\ p + (q - p) = q /\ q \in 1..N
        BY <1>1, <3>2
      <4>2. s[q] = [byte |-> Wire(f)[q - p], frame |-> k]
        BY <3>1, <4>1 DEF Placed
      <4>3. s[q].frame = k
        BY <4>2
      <4> QED BY <1>4, <1>10, <4>1, <4>3
    <3> DEFINE r == IF q <= p THEN p + 1 ELSE p
    <3>4. r \in 0..Len(t) /\ r + M <= Len(t)
      BY <1>1, <2>1, <3>2
    <3>5. ASSUME NEW j \in 1..M PROVE t[r + j] = s[p + j]
      <4>1. p + j \in 1..N /\ to(p + j) = r + j
        BY <1>1, <2>1, <3>2, <3>3
      <4> QED BY <1>2, <4>1
    <3>6. \A i \in 1..Len(t) : t[i].frame = k => r < i /\ i <= r + M
      <4> SUFFICES ASSUME NEW i \in 1..Len(t), t[i].frame = k PROVE r < i /\ i <= r + M
        OBVIOUS
      <4>1. PICK j \in 1..N : i = to(j) /\ s[j].frame = k
        BY <2>2
      <4>2. p < j /\ j <= p + M
        BY <3>2, <4>1
      <4> QED BY <2>1, <3>3, <4>1, <4>2
    <3>7. ASSUME r # 0 PROVE p # 0 /\ t[r] = s[p]
      <4>1. p \in 1..N /\ to(p) = r
        BY <1>1, <2>1, <3>3, <3>7
      <4> QED BY <1>2, <4>1
    <3> HIDE DEF r
    <3>8. Placed(t, r, f, k)
      <4>1. p \in Nat /\ r \in Nat
        BY <3>4
      <4> QED BY <2>1, <3>1, <3>4, <3>5, <3>6, <3>7, <4>1, PlacedMoved
    <3> QED BY <2>3, <3>4, <3>8 DEF OnItsWay, f
  <2>4. CASE HasArrived(s, d, f, k)
    <3>1. \A i \in 1..N : s[i].frame # k
      BY <2>4 DEF HasArrived
    <3>2. \A i \in 1..Len(t) : t[i].frame # k
      BY <2>2, <3>1
    <3>3. HasArrived(t, d, f, k)
      BY <2>4, <3>2 DEF HasArrived
    <3> QED BY <3>3 DEF f
  <2> QED BY <2>1, <2>3, <2>4
<1> QED BY <1>8, <1>9, <1>10 DEF Good

-----------------------------------------------------------------------------
(* What the actions do to the line and to the buffer does the same to the   *)
(* bytes as a whole.                                                        *)

LEMMA CutIsCut ==
    ASSUME NEW s \in Seq(Bytes), NEW c \in 0..Len(s)
    PROVE  IsCut(SubSeq(s, c + 1, Len(s)), s, c)
<1> DEFINE m == c + 1
           n == Len(s)
           t == SubSeq(s, m, n)
<1>1. n \in Nat /\ m \in Nat /\ 1 <= m /\ n <= Len(s) /\ m <= n + 1
  BY LenProperties
<1>2. n - m + 1 = Len(s) - c /\ \A i \in Int : m + i - 1 = c + i
  BY <1>1
<1> HIDE DEF m, n
<1>3. /\ t \in Seq(Bytes) /\ Len(t) = n - m + 1
      /\ \A i \in 1..(n - m + 1) : t[i] = s[m + i - 1]
  BY <1>1, Piece
<1> HIDE DEF t
<1>4. IsCut(t, s, c)
  BY <1>2, <1>3 DEF IsCut
<1> QED BY <1>4 DEF t, m, n

\* The elements of the buffer and of the line in the whole.
LEMMA LineIndex ==
    ASSUME NEW b \in Seq(Bytes), NEW l \in Seq(Bytes)
    PROVE  /\ b \o l \in Seq(Bytes) /\ Len(b \o l) = Len(b) + Len(l)
           /\ Len(b) \in Nat /\ Len(l) \in Nat
           /\ \A i \in 1..Len(b) : (b \o l)[i] = b[i]
           /\ \A i \in 1..Len(l) : (b \o l)[Len(b) + i] = l[i]
           /\ \A i \in 1..(Len(b) + Len(l)) : i \in 1..Len(b) \/ i - Len(b) \in 1..Len(l)
<1> DEFINE s == b \o l
<1>1. Len(b) \in Nat /\ Len(l) \in Nat
  BY LenProperties
<1>2. s \in Seq(Bytes) /\ Len(s) = Len(b) + Len(l)
  BY ConcatProperties
<1>3. \A i \in 1..(Len(b) + Len(l)) : s[i] = IF i <= Len(b) THEN b[i] ELSE l[i - Len(b)]
  BY ConcatProperties
<1> HIDE DEF s
<1>4. \A i \in 1..Len(b) : s[i] = b[i]
  BY <1>1, <1>3
<1>5. ASSUME NEW i \in 1..Len(l) PROVE s[Len(b) + i] = l[i]
  <2>1. /\ Len(b) + i \in 1..(Len(b) + Len(l)) /\ ~(Len(b) + i <= Len(b))
        /\ (Len(b) + i) - Len(b) = i
    BY <1>1
  <2> QED BY <1>3, <2>1
<1>6. \A i \in 1..(Len(b) + Len(l)) : i \in 1..Len(b) \/ i - Len(b) \in 1..Len(l)
  BY <1>1
<1> QED BY <1>1, <1>2, <1>4, <1>5, <1>6 DEF s

\* The whole buffer and the beginning of the line are cut.
LEMMA CutWhole ==
    ASSUME NEW b \in Seq(Bytes), NEW l \in Seq(Bytes), NEW x, NEW c \in 0..Len(l), IsCut(x, l, c)
    PROVE  IsCut(<<>> \o x, b \o l, Len(b) + c)
<1> DEFINE s == b \o l
<1>1. Len(b) \in Nat /\ Len(l) \in Nat
  BY LenProperties
<1>2. Len(s) = Len(b) + Len(l) /\ \A i \in 1..Len(l) : s[Len(b) + i] = l[i]
  BY LineIndex
<1>3. x \in Seq(Bytes) /\ <<>> \o x = x /\ Len(x) = Len(l) - c
  BY ConcatEmptySeq DEF IsCut
<1>4. \A i \in 1..Len(x) : c + i \in 1..Len(l) /\ x[i] = l[c + i] /\ Len(b) + (c + i) = (Len(b) + c) + i
  BY <1>1, <1>3 DEF IsCut
<1> HIDE DEF s
<1>5. Len(x) = Len(s) - (Len(b) + c)
  <2>1. Len(l) - c = (Len(b) + Len(l)) - (Len(b) + c)
    BY <1>1
  <2> QED BY <1>2, <1>3, <2>1
<1>6. \A i \in 1..Len(x) : x[i] = s[(Len(b) + c) + i]
  <2> SUFFICES ASSUME NEW i \in 1..Len(x) PROVE x[i] = s[(Len(b) + c) + i]
    OBVIOUS
  <2>1. x[i] = s[Len(b) + (c + i)]
    BY <1>2, <1>4
  <2> QED BY <1>4, <2>1
<1>7. IsCut(x, s, Len(b) + c)
  BY <1>3, <1>5, <1>6 DEF IsCut
<1> QED BY <1>3, <1>7 DEF s

\* The beginning of the buffer is cut.
LEMMA CutBuffer ==
    ASSUME NEW b \in Seq(Bytes), NEW l \in Seq(Bytes), NEW x, NEW c \in 0..Len(b), IsCut(x, b, c)
    PROVE  IsCut(x \o l, b \o l, c)
<1> DEFINE s == b \o l
           t == x \o l
<1>1. Len(b) \in Nat /\ Len(l) \in Nat /\ x \in Seq(Bytes) /\ Len(x) = Len(b) - c /\ Len(x) \in Nat
      /\ \A i \in 1..Len(x) : x[i] = b[c + i]
  BY LenProperties DEF IsCut
<1>2. /\ Len(s) = Len(b) + Len(l)
      /\ \A i \in 1..(Len(b) + Len(l)) : s[i] = IF i <= Len(b) THEN b[i] ELSE l[i - Len(b)]
  BY ConcatProperties
<1>3. /\ t \in Seq(Bytes) /\ Len(t) = Len(x) + Len(l)
      /\ \A i \in 1..(Len(x) + Len(l)) : t[i] = IF i <= Len(x) THEN x[i] ELSE l[i - Len(x)]
  BY <1>1, ConcatProperties
<1> HIDE DEF s, t
<1>4. ASSUME NEW i \in 1..Len(t) PROVE t[i] = s[c + i]
  <2>1. i \in 1..(Len(x) + Len(l)) /\ c + i \in 1..(Len(b) + Len(l))
    BY <1>1, <1>3
  <2>2. CASE i <= Len(x)
    <3>1. c + i <= Len(b) /\ i \in 1..Len(x)
      BY <1>1, <2>1, <2>2
    <3> QED BY <1>1, <1>2, <1>3, <2>1, <2>2, <3>1
  <2>3. CASE ~(i <= Len(x))
    <3>1. ~(c + i <= Len(b)) /\ (c + i) - Len(b) = i - Len(x)
      BY <1>1, <2>1, <2>3
    <3> QED BY <1>2, <1>3, <2>1, <2>3, <3>1
  <2> QED BY <2>2, <2>3
<1>5. Len(t) = Len(s) - c
  BY <1>1, <1>2, <1>3
<1>6. IsCut(t, s, c)
  BY <1>3, <1>4, <1>5 DEF IsCut
<1> QED BY <1>6 DEF s, t

Without(l, i) == SubSeq(l, 1, i - 1) \o SubSeq(l, i + 1, Len(l))

LEMMA WithoutIsShorter ==
    ASSUME NEW S, NEW l \in Seq(S), NEW i \in 1..Len(l)
    PROVE  /\ Without(l, i) \in Seq(S) /\ Len(Without(l, i)) = Len(l) - 1
           /\ \A j \in 1..(Len(l) - 1) : Without(l, i)[j] = IF j < i THEN l[j] ELSE l[j + 1]
<1> DEFINE before == SubSeq(l, 1, i - 1)
           after == SubSeq(l, i + 1, Len(l))
           x == before \o after
<1>1. /\ Len(l) \in Nat /\ i - 1 \in Nat /\ i + 1 \in Nat /\ 1 \in Nat
      /\ 1 <= 1 /\ i - 1 <= Len(l) /\ 1 <= (i - 1) + 1
      /\ 1 <= i + 1 /\ Len(l) <= Len(l) /\ i + 1 <= Len(l) + 1
  BY LenProperties
<1>2. /\ before \in Seq(S) /\ Len(before) = i - 1 - 1 + 1
      /\ \A j \in 1..(i - 1 - 1 + 1) : before[j] = l[1 + j - 1]
  BY <1>1, Piece
<1>3. /\ after \in Seq(S) /\ Len(after) = Len(l) - (i + 1) + 1
      /\ \A j \in 1..(Len(l) - (i + 1) + 1) : after[j] = l[i + 1 + j - 1]
  BY <1>1, Piece
<1> HIDE DEF before, after
<1>4. /\ Len(before) = i - 1 /\ \A j \in 1..(i - 1) : before[j] = l[j]
      /\ Len(after) = Len(l) - i /\ \A j \in 1..(Len(l) - i) : after[j] = l[i + j]
  BY <1>1, <1>2, <1>3
<1>5. /\ x \in Seq(S) /\ Len(x) = Len(before) + Len(after)
      /\ \A j \in 1..(Len(before) + Len(after)) :
            x[j] = IF j <= Len(before) THEN before[j] ELSE after[j - Len(before)]
  BY <1>2, <1>3, ConcatProperties
<1> HIDE DEF x
<1>6. Len(x) = Len(l) - 1
  BY <1>1, <1>4, <1>5
<1>7. ASSUME NEW j \in 1..(Len(l) - 1) PROVE x[j] = IF j < i THEN l[j] ELSE l[j + 1]
  <2>1. x[j] = IF j <= i - 1 THEN before[j] ELSE after[j - (i - 1)]
    BY <1>1, <1>4, <1>5
  <2>2. CASE j < i
    <3>1. j \in 1..(i - 1) /\ j <= i - 1
      BY <1>1, <2>2
    <3> QED BY <1>4, <2>1, <2>2, <3>1
  <2>3. CASE ~(j < i)
    <3>1. ~(j <= i - 1) /\ j - (i - 1) \in 1..(Len(l) - i) /\ i + (j - (i - 1)) = j + 1
      BY <1>1, <2>3
    <3> QED BY <1>4, <2>1, <2>3, <3>1
  <2> QED BY <2>2, <2>3
<1> QED BY <1>5, <1>6, <1>7 DEF Without, x, before, after

With(l, i, e) == SubSeq(l, 1, i - 1) \o <<e>> \o SubSeq(l, i, Len(l))

LEMMA WithIsLonger ==
    ASSUME NEW S, NEW l \in Seq(S), NEW i \in 1..(Len(l) + 1), NEW e \in S
    PROVE  /\ With(l, i, e) \in Seq(S) /\ Len(With(l, i, e)) = Len(l) + 1
           /\ \A j \in 1..(Len(l) + 1) :
                 With(l, i, e)[j] = IF j < i THEN l[j] ELSE IF j = i THEN e ELSE l[j - 1]
<1> DEFINE before == SubSeq(l, 1, i - 1)
           after == SubSeq(l, i, Len(l))
           y == before \o <<e>>
           x == y \o after
<1>1. /\ Len(l) \in Nat /\ i - 1 \in Nat /\ i \in Nat /\ 1 \in Nat
      /\ 1 <= 1 /\ i - 1 <= Len(l) /\ 1 <= (i - 1) + 1
      /\ 1 <= i /\ Len(l) <= Len(l) /\ i <= Len(l) + 1
  BY LenProperties
<1>2. /\ before \in Seq(S) /\ Len(before) = i - 1 - 1 + 1
      /\ \A j \in 1..(i - 1 - 1 + 1) : before[j] = l[1 + j - 1]
  BY <1>1, Piece
<1>3. /\ after \in Seq(S) /\ Len(after) = Len(l) - i + 1
      /\ \A j \in 1..(Len(l) - i + 1) : after[j] = l[i + j - 1]
  BY <1>1, Piece
<1> HIDE DEF before, after
<1>4. Len(before) = i - 1 /\ \A j \in 1..(i - 1) : before[j] = l[j]
  BY <1>1, <1>2
<1>5. <<e>> \in Seq(S) /\ Len(<<e>>) = 1 /\ <<e>>[1] = e
  OBVIOUS
<1>6. y \in Seq(S) /\ Len(y) = i /\ y[i] = e /\ \A j \in 1..(i - 1) : y[j] = l[j]
  <2>1. y \in Seq(S) /\ Len(y) = Len(before) + Len(<<e>>)
    BY <1>2, <1>5, ConcatProperties
  <2>2. \A j \in 1..(Len(before) + Len(<<e>>)) :
            y[j] = IF j <= Len(before) THEN before[j] ELSE <<e>>[j - Len(before)]
    BY <1>2, <1>5, ConcatProperties
  <2> HIDE DEF y
  <2>3. \A j \in 1..i : y[j] = IF j <= i - 1 THEN before[j] ELSE <<e>>[j - (i - 1)]
    BY <1>1, <1>4, <1>5, <2>2
  <2>4. y[i] = e
    <3>1. i \in 1..i /\ ~(i <= i - 1) /\ i - (i - 1) = 1
      BY <1>1
    <3> QED BY <1>5, <2>3, <3>1
  <2>5. \A j \in 1..(i - 1) : y[j] = l[j]
    BY <1>1, <1>4, <2>3
  <2> QED BY <1>1, <1>4, <1>5, <2>1, <2>4, <2>5
<1> HIDE DEF y
<1>7. /\ x \in Seq(S) /\ Len(x) = Len(y) + Len(after)
      /\ \A j \in 1..(Len(y) + Len(after)) :
            x[j] = IF j <= Len(y) THEN y[j] ELSE after[j - Len(y)]
  BY <1>3, <1>6, ConcatProperties
<1> HIDE DEF x
<1>8. Len(x) = Len(l) + 1
  BY <1>1, <1>3, <1>6, <1>7
<1>9. ASSUME NEW j \in 1..(Len(l) + 1)
      PROVE  x[j] = IF j < i THEN l[j] ELSE IF j = i THEN e ELSE l[j - 1]
  <2>1. x[j] = IF j <= i THEN y[j] ELSE after[j - i]
    BY <1>1, <1>3, <1>6, <1>7
  <2>2. CASE j < i
    <3>1. j \in 1..(i - 1) /\ j <= i
      BY <1>1, <2>2
    <3> QED BY <1>6, <2>1, <2>2, <3>1
  <2>3. CASE j = i
    BY <1>1, <1>6, <2>1, <2>3
  <2>4. CASE j > i
    <3>1. ~(j <= i) /\ ~(j < i) /\ j # i /\ j - i \in 1..(Len(l) - i + 1) /\ i + (j - i) - 1 = j - 1
      BY <1>1, <2>4
    <3> QED BY <1>3, <2>1, <3>1
  <2> QED BY <1>1, <2>2, <2>3, <2>4
<1> QED BY <1>7, <1>8, <1>9 DEF With, x, y, before, after

LEMMA LoseWhole ==
    ASSUME NEW b \in Seq(Bytes), NEW l \in Seq(Bytes), NEW i \in 1..Len(l)
    PROVE  IsShorter(b \o Without(l, i), b \o l, Len(b) + i)
<1> DEFINE x == Without(l, i)
           s == b \o l
           t == b \o x
           q == Len(b) + i
<1>1. /\ x \in Seq(Bytes) /\ Len(x) = Len(l) - 1
      /\ \A j \in 1..(Len(l) - 1) : x[j] = IF j < i THEN l[j] ELSE l[j + 1]
  BY WithoutIsShorter
<1> HIDE DEF x
<1>2. /\ Len(s) = Len(b) + Len(l) /\ Len(b) \in Nat /\ Len(l) \in Nat
      /\ \A j \in 1..Len(b) : s[j] = b[j]
      /\ \A j \in 1..Len(l) : s[Len(b) + j] = l[j]
  BY LineIndex
<1>3. /\ t \in Seq(Bytes) /\ Len(t) = Len(b) + Len(x)
      /\ \A j \in 1..Len(b) : t[j] = b[j]
      /\ \A j \in 1..Len(x) : t[Len(b) + j] = x[j]
      /\ \A j \in 1..(Len(b) + Len(x)) : j \in 1..Len(b) \/ j - Len(b) \in 1..Len(x)
  BY <1>1, LineIndex
<1> HIDE DEF s, t
<1>4. Len(t) = Len(s) - 1
  BY <1>1, <1>2, <1>3
<1>5. ASSUME NEW j \in 1..Len(t) PROVE t[j] = IF j < q THEN s[j] ELSE s[j + 1]
  <2>1. CASE j \in 1..Len(b)
    <3>1. j < q
      BY <1>2, <2>1
    <3> QED BY <1>2, <1>3, <2>1, <3>1
  <2>2. CASE j - Len(b) \in 1..Len(x)
    <3> DEFINE a == j - Len(b)
    <3>1. /\ a \in 1..(Len(l) - 1) /\ Len(b) + a = j /\ Len(b) + (a + 1) = j + 1
          /\ a \in 1..Len(l) /\ a + 1 \in 1..Len(l) /\ (a < i <=> j < q)
      BY <1>1, <1>2, <2>2
    <3> HIDE DEF a, q
    <3>2. t[j] = x[a] /\ x[a] = IF a < i THEN l[a] ELSE l[a + 1]
      BY <1>1, <1>3, <3>1
    <3>3. s[j] = l[a] /\ s[j + 1] = l[a + 1]
      BY <1>2, <3>1
    <3> QED BY <3>1, <3>2, <3>3
  <2> QED BY <1>3, <2>1, <2>2
<1>6. IsShorter(t, s, q)
  BY <1>3, <1>4, <1>5 DEF IsShorter
<1> QED BY <1>6 DEF t, s, x

LEMMA AddWhole ==
    ASSUME NEW b \in Seq(Bytes), NEW l \in Seq(Bytes), NEW i \in 1..(Len(l) + 1), NEW e \in Bytes,
           NEW m, e.frame = IF i = Len(l) + 1 THEN m ELSE l[i].frame
    PROVE  IsLonger(b \o With(l, i, e), b \o l, Len(b) + i, m)
<1> DEFINE x == With(l, i, e)
           s == b \o l
           t == b \o x
           q == Len(b) + i
<1>1. /\ x \in Seq(Bytes) /\ Len(x) = Len(l) + 1
      /\ \A j \in 1..(Len(l) + 1) : x[j] = IF j < i THEN l[j] ELSE IF j = i THEN e ELSE l[j - 1]
  BY WithIsLonger
<1> HIDE DEF x
<1>2. /\ Len(s) = Len(b) + Len(l) /\ Len(b) \in Nat /\ Len(l) \in Nat
      /\ \A j \in 1..Len(b) : s[j] = b[j]
      /\ \A j \in 1..Len(l) : s[Len(b) + j] = l[j]
  BY LineIndex
<1>3. /\ t \in Seq(Bytes) /\ Len(t) = Len(b) + Len(x)
      /\ \A j \in 1..Len(b) : t[j] = b[j]
      /\ \A j \in 1..Len(x) : t[Len(b) + j] = x[j]
      /\ \A j \in 1..(Len(b) + Len(x)) : j \in 1..Len(b) \/ j - Len(b) \in 1..Len(x)
  BY <1>1, LineIndex
<1> HIDE DEF s, t
<1>4. Len(t) = Len(s) + 1
  BY <1>1, <1>2, <1>3
<1>5. ASSUME NEW j \in 1..Len(t) PROVE (j < q => t[j] = s[j]) /\ (j > q => t[j] = s[j - 1])
  <2>1. CASE j \in 1..Len(b)
    <3>1. j < q /\ ~(j > q)
      BY <1>2, <2>1
    <3> QED BY <1>2, <1>3, <2>1, <3>1
  <2>2. CASE j - Len(b) \in 1..Len(x)
    <3> DEFINE a == j - Len(b)
    <3>1. a \in 1..Len(x) /\ a \in 1..(Len(l) + 1) /\ Len(b) + a = j
      BY <1>1, <1>2, <2>2
    <3>2. t[j] = x[a]
      <4> HIDE DEF a
      <4> QED BY <1>3, <3>1
    <3>3. ASSUME j < q PROVE t[j] = s[j]
      <4>1. a < i /\ a \in 1..Len(l)
        BY <1>1, <1>2, <3>1, <3>3
      <4> HIDE DEF a
      <4> QED BY <1>1, <1>2, <3>1, <3>2, <4>1
    <3>4. ASSUME j > q PROVE t[j] = s[j - 1]
      <4>1. ~(a < i) /\ a # i /\ a - 1 \in 1..Len(l) /\ Len(b) + (a - 1) = j - 1
        BY <1>1, <1>2, <3>1, <3>4
      <4> HIDE DEF a
      <4>2. x[a] = l[a - 1]
        BY <1>1, <3>1, <4>1
      <4>3. s[j - 1] = l[a - 1]
        BY <1>2, <4>1
      <4> QED BY <3>2, <4>2, <4>3
    <3> QED BY <3>3, <3>4
  <2> QED BY <1>3, <2>1, <2>2
<1>6. t[q] = e
  <2>1. i \in 1..Len(x) /\ ~(i < i)
    BY <1>1
  <2>2. x[i] = e
    BY <1>1, <2>1
  <2> QED BY <1>3, <2>1, <2>2
<1>7. t[q].frame = IF q = Len(s) + 1 THEN m ELSE s[q].frame
  <2>1. CASE i = Len(l) + 1
    <3>1. q = Len(s) + 1
      BY <1>2, <2>1
    <3> QED BY <1>6, <2>1, <3>1
  <2>2. CASE i # Len(l) + 1
    <3>1. q # Len(s) + 1 /\ i \in 1..Len(l)
      BY <1>2, <2>2
    <3>2. s[q] = l[i]
      BY <1>2, <3>1
    <3> QED BY <1>6, <2>2, <3>1, <3>2
  <2> QED BY <2>1, <2>2
<1>8. IsLonger(t, s, q, m)
  <2> HIDE DEF q
  <2> QED BY <1>3, <1>4, <1>5, <1>7 DEF IsLonger
<1> QED BY <1>8 DEF t, s, x

LEMMA ChangeWhole ==
    ASSUME NEW b \in Seq(Bytes), NEW l \in Seq(Bytes), NEW i \in 1..Len(l), NEW x \in Seq(Bytes),
           Len(x) = Len(l), \A j \in 1..Len(l) : x[j].frame = l[j].frame /\ (j # i => x[j] = l[j])
    PROVE  IsChanged(b \o x, b \o l, Len(b) + i)
<1> DEFINE s == b \o l
           t == b \o x
           q == Len(b) + i
<1>1. /\ Len(s) = Len(b) + Len(l) /\ Len(b) \in Nat /\ Len(l) \in Nat
      /\ \A j \in 1..Len(b) : s[j] = b[j]
      /\ \A j \in 1..Len(l) : s[Len(b) + j] = l[j]
      /\ \A j \in 1..(Len(b) + Len(l)) : j \in 1..Len(b) \/ j - Len(b) \in 1..Len(l)
  BY LineIndex
<1>2. /\ t \in Seq(Bytes) /\ Len(t) = Len(b) + Len(x)
      /\ \A j \in 1..Len(b) : t[j] = b[j]
      /\ \A j \in 1..Len(x) : t[Len(b) + j] = x[j]
  BY LineIndex
<1> HIDE DEF s, t
<1>3. ASSUME NEW j \in 1..Len(s) PROVE t[j].frame = s[j].frame /\ (j # q => t[j] = s[j])
  <2>1. CASE j \in 1..Len(b)
    BY <1>1, <1>2, <2>1
  <2>2. CASE j - Len(b) \in 1..Len(l)
    <3> DEFINE a == j - Len(b)
    <3>1. a \in 1..Len(l) /\ Len(b) + a = j /\ (j # q => a # i)
      BY <1>1, <2>2
    <3> HIDE DEF a, q
    <3>2. t[j] = x[a] /\ s[j] = l[a]
      BY <1>1, <1>2, <3>1
    <3> QED BY <3>1, <3>2
  <2> QED BY <1>1, <2>1, <2>2
<1>4. IsChanged(t, s, q)
  BY <1>1, <1>2, <1>3 DEF IsChanged
<1> QED BY <1>4 DEF t, s

-----------------------------------------------------------------------------
(* Every action keeps the invariant.                                        *)

BytesUpTo(n) == [byte: Byte, frame: 1..(n + 1)]
DispatchUpTo(n) == [frame: FrameOf, of: 1..(n + 1)]

LEMMA UpToType ==
    ASSUME NEW n \in Nat
    PROVE  /\ \A s : s \in Seq(BytesUpTo(n)) => s \in Seq(Bytes) /\ s \in Seq(BytesUpTo(n + 1))
           /\ \A d : d \in Seq(DispatchUpTo(n)) => d \in Seq(Dispatch) /\ d \in Seq(DispatchUpTo(n + 1))
<1>1. BytesUpTo(n) \subseteq Bytes /\ BytesUpTo(n) \subseteq BytesUpTo(n + 1)
  BY DEF BytesUpTo, Bytes
<1>2. DispatchUpTo(n) \subseteq Dispatch /\ DispatchUpTo(n) \subseteq DispatchUpTo(n + 1)
  BY DEF DispatchUpTo, Dispatch
<1> QED BY <1>1, <1>2, SeqMonotonic

\* TypeOK with its parts named.
Typed(sn, l, b, d, h, m) ==
    /\ sn \in Seq(Frames)
    /\ l \in Seq(BytesUpTo(Len(sn))) /\ b \in Seq(BytesUpTo(Len(sn)))
    /\ d \in Seq(DispatchUpTo(Len(sn)))
    /\ h \subseteq 1..(Len(sn) + 2)
    /\ m \in 0..MaxNoise

LEMMA TypedIsTypeOK ==
    /\ Len(sent) \in Nat => (TypeOK <=> Typed(sent, line, buffer, delivered, damaged, noise))
    /\ Len(sent)' \in Nat => (TypeOK' <=> Typed(sent, line, buffer, delivered, damaged, noise)')
<1>1. ASSUME Len(sent) \in Nat PROVE NextFrame + 1 = Len(sent) + 2
  BY <1>1 DEF NextFrame
<1>2. ASSUME Len(sent)' \in Nat PROVE (NextFrame + 1)' = Len(sent)' + 2
  BY <1>2 DEF NextFrame
<1> QED BY <1>1, <1>2 DEF TypeOK, Typed, BytesOn, BytesUpTo, DispatchUpTo, NextFrame

\* What the invariant gives every action.
LEMMA Given ==
    ASSUME ConstantsAssumption, IInv
    PROVE  LET n == Len(sent)
               s == buffer \o line
           IN  /\ n \in Nat /\ NextFrame = n + 1
               /\ Typed(sent, line, buffer, delivered, damaged, noise)
               /\ buffer \in Seq(Bytes) /\ line \in Seq(Bytes) /\ s \in Seq(Bytes)
               /\ delivered \in Seq(Dispatch)
               /\ NotLater(s, delivered, n + 1)
               /\ \A k \in 1..n : sent[k] \in Frames /\ sent[k] \in Sendable
               /\ Good(s, delivered, sent, n, damaged)
<1> DEFINE n == Len(sent)
           s == buffer \o line
<1>1. n \in Nat
  BY LenProperties DEF IInv, TypeOK
<1>2. Typed(sent, line, buffer, delivered, damaged, noise)
  BY <1>1, TypedIsTypeOK DEF IInv
<1>3. line \in Seq(BytesUpTo(n)) /\ buffer \in Seq(BytesUpTo(n)) /\ delivered \in Seq(DispatchUpTo(n))
  BY <1>2 DEF Typed
<1>4. s \in Seq(BytesUpTo(n))
  BY <1>3, ConcatProperties
<1>5. \A k \in 1..n : sent[k] \in Frames /\ sent[k] \in Sendable
  <2>1. \A k \in 1..n : sent[k] \in Frames
    BY <1>2, ElementOfSeq DEF Typed
  <2> QED BY <2>1 DEF ConstantsAssumption, Sendable
<1> HIDE DEF n, s
<1>6. buffer \in Seq(Bytes) /\ line \in Seq(Bytes) /\ s \in Seq(Bytes) /\ delivered \in Seq(Dispatch)
  BY <1>1, <1>3, <1>4, UpToType
<1>7. NotLater(s, delivered, n + 1)
  <2>1. \A i \in 1..Len(s) : s[i] \in BytesUpTo(n)
    BY <1>4, ElementOfSeq
  <2>2. \A i \in 1..Len(delivered) : delivered[i] \in DispatchUpTo(n)
    BY <1>3, ElementOfSeq
  <2>3. \A x \in BytesUpTo(n) : x.frame \in Nat /\ x.frame <= n + 1
    BY <1>1 DEF BytesUpTo
  <2>4. \A x \in DispatchUpTo(n) : x.of \in Nat /\ x.of <= n + 1
    BY <1>1 DEF DispatchUpTo
  <2> QED BY <2>1, <2>2, <2>3, <2>4 DEF NotLater
<1>8. Good(s, delivered, sent, n, damaged)
  BY DEF IInv, n, s
<1> QED BY <1>1, <1>2, <1>5, <1>6, <1>7, <1>8 DEF n, s, NextFrame

LEMMA InitGood == ASSUME ConstantsAssumption, Init PROVE IInv
<1>1. Len(sent) = 0 /\ Len(delivered) = 0 /\ buffer \o line = <<>> /\ Len(<<>>) = 0
  BY ConcatEmptySeq DEF Init
<1>2. TypeOK
  BY <1>1, EmptySeq DEF Init, TypeOK, BytesOn, ConstantsAssumption
<1>3. Good(<<>>, delivered, sent, 0, damaged)
  BY <1>1 DEF Good, InTurn, Ends, NotArrived
<1> QED BY <1>1, <1>2, <1>3 DEF IInv

LEMMA SendKeeps == ASSUME ConstantsAssumption, IInv, NEW f \in Frames, Send(f) PROVE IInv'
<1> DEFINE n == Len(sent)
           s == buffer \o line
           x == OnLine(f, n + 1)
<1>1. /\ n \in Nat /\ NextFrame = n + 1
      /\ Typed(sent, line, buffer, delivered, damaged, noise)
      /\ buffer \in Seq(Bytes) /\ line \in Seq(Bytes) /\ s \in Seq(Bytes)
      /\ delivered \in Seq(Dispatch)
      /\ NotLater(s, delivered, n + 1)
      /\ \A k \in 1..n : sent[k] \in Frames /\ sent[k] \in Sendable
      /\ Good(s, delivered, sent, n, damaged)
  BY Given
<1>2. /\ sent' = Append(sent, f) /\ line' = line \o x
      /\ buffer' = buffer /\ delivered' = delivered /\ damaged' = damaged /\ noise' = noise
  BY <1>1 DEF Send
<1>3. f \in Sendable
  BY DEF ConstantsAssumption, Sendable
<1>4. /\ Wire(f) \in Seq(Byte) /\ Len(Wire(f)) \in Nat
  BY <1>3, WireFacts
<1>5. /\ x \in Seq(BytesUpTo(n + 1)) /\ Len(x) = Len(Wire(f))
      /\ \A j \in 1..Len(Wire(f)) : x[j] = [byte |-> Wire(f)[j], frame |-> n + 1]
  <2> DEFINE M == Len(Wire(f))
             e(j) == [byte |-> Wire(f)[j], frame |-> n + 1]
  <2>1. x = [j \in 1..M |-> e(j)]
    BY <1>4, LenProperties DEF OnLine, Wire
  <2>2. \A j \in 1..M : e(j) \in BytesUpTo(n + 1)
    <3>1. \A j \in 1..M : Wire(f)[j] \in Byte
      BY <1>4, ElementOfSeq
    <3>2. n + 1 \in 1..((n + 1) + 1)
      BY <1>1
    <3> HIDE DEF n, M
    <3> QED BY <3>1, <3>2 DEF BytesUpTo
  <2> HIDE DEF x, e, M
  <2>3. M \in Nat
    BY <1>4 DEF M
  <2>4. x \in Seq(BytesUpTo(n + 1)) /\ Len(x) = M /\ \A j \in 1..M : x[j] = e(j)
    BY <2>1, <2>2, <2>3
  <2> QED BY <2>4 DEF M, e
<1> HIDE DEF x
<1>6. /\ sent' \in Seq(Frames) /\ Len(sent') = n + 1 /\ sent'[n + 1] = f
      /\ \A k \in 1..n : sent'[k] = sent[k]
  BY <1>1, <1>2, AppendProperties DEF Typed
<1> HIDE DEF n
<1>7. Typed(sent, line, buffer, delivered, damaged, noise)'
  <2>1. line' \in Seq(BytesUpTo(n + 1)) /\ buffer' \in Seq(BytesUpTo(n + 1))
        /\ delivered' \in Seq(DispatchUpTo(n + 1))
    <3>1. /\ line \in Seq(BytesUpTo(n + 1)) /\ buffer \in Seq(BytesUpTo(n + 1))
          /\ delivered \in Seq(DispatchUpTo(n + 1))
      BY <1>1, UpToType DEF Typed, n
    <3> QED BY <1>2, <1>5, <3>1, ConcatProperties
  <2>2. damaged' \subseteq 1..((n + 1) + 2) /\ noise' \in 0..MaxNoise
    BY <1>1, <1>2 DEF Typed, n
  <2> QED BY <1>6, <2>1, <2>2 DEF Typed
<1>8. TypeOK'
  BY <1>1, <1>6, <1>7, TypedIsTypeOK
<1>9. x \in Seq(Bytes)
  <2>1. n + 1 \in Nat
    BY <1>1
  <2> QED BY <1>5, <2>1, UpToType
<1>10. (buffer \o line)' = s \o x
  <2>1. buffer \in Seq(Bytes) /\ line \in Seq(Bytes)
    BY <1>1
  <2>2. (buffer \o line) \o x = buffer \o (line \o x)
    BY ONLY <1>9, <2>1, ConcatAssociative
  <2> QED BY <1>2, <2>2
<1>11. IsSent(s \o x, s, f, n + 1)
  <2> HIDE DEF s
  <2>1. /\ s \o x \in Seq(Bytes) /\ Len(s \o x) = Len(s) + Len(x)
        /\ \A i \in 1..Len(s) : (s \o x)[i] = s[i]
        /\ \A i \in 1..Len(x) : (s \o x)[Len(s) + i] = x[i]
    BY <1>1, <1>9, LineIndex
  <2> QED BY <1>5, <2>1 DEF IsSent
<1>12. Good(s \o x, delivered, sent', n + 1, damaged)
  <2> HIDE DEF s
  <2> QED BY <1>1, <1>3, <1>6, <1>11, SendGood
<1> QED BY <1>2, <1>6, <1>8, <1>10, <1>12 DEF IInv


\* What the line does to its bytes leaves the rest.
LEMMA DisturbTyped ==
    ASSUME ConstantsAssumption, IInv, Disturb,
           line' \in Seq(BytesUpTo(Len(sent))), buffer' \in Seq(BytesUpTo(Len(sent))),
           damaged' \subseteq 1..(Len(sent) + 2)
    PROVE  TypeOK' /\ sent' = sent /\ delivered' = delivered
<1>1. Len(sent) \in Nat /\ Typed(sent, line, buffer, delivered, damaged, noise)
  BY Given
<1>2. sent' = sent /\ delivered' = delivered
  BY DEF Disturb
<1>3. noise' \in 0..MaxNoise
  BY <1>1 DEF Disturb, Typed, ConstantsAssumption
<1>4. Typed(sent, line, buffer, delivered, damaged, noise)'
  BY <1>1, <1>2, <1>3 DEF Typed
<1> QED BY <1>1, <1>2, <1>4, TypedIsTypeOK

\* The frames that byte e of at most frame number n + 1 hurts.
LEMMA HurtType ==
    ASSUME NEW n \in Nat, NEW e \in BytesUpTo(n) PROVE HurtBy(e) \subseteq 1..(n + 2)
<1>1. e.frame \in 1..(n + 1)
  BY DEF BytesUpTo
<1> QED BY <1>1 DEF HurtBy

LEMMA LoseKeeps == ASSUME ConstantsAssumption, IInv, NEW i \in DOMAIN line, Lose(i) PROVE IInv'
<1> DEFINE n == Len(sent)
           s == buffer \o line
           t == buffer \o Without(line, i)
           q == Len(buffer) + i
<1>1. /\ n \in Nat
      /\ Typed(sent, line, buffer, delivered, damaged, noise)
      /\ buffer \in Seq(Bytes) /\ line \in Seq(Bytes) /\ s \in Seq(Bytes)
      /\ \A k \in 1..n : sent[k] \in Sendable
      /\ Good(s, delivered, sent, n, damaged)
  BY Given
<1>2. /\ Disturb /\ buffer' = buffer /\ line' = Without(line, i)
      /\ damaged' = damaged \cup HurtBy(line[i])
  BY DEF Lose, Without, Hit, HurtBy
<1>3. i \in 1..Len(line)
  BY <1>1, LenProperties
<1>4. line \in Seq(BytesUpTo(n)) /\ buffer \in Seq(BytesUpTo(n)) /\ damaged \subseteq 1..(n + 2)
  BY <1>1 DEF Typed
<1> HIDE DEF n
<1>5. TypeOK' /\ sent' = sent /\ delivered' = delivered
  <2>1. line' \in Seq(BytesUpTo(n))
    BY <1>2, <1>3, <1>4, WithoutIsShorter
  <2>2. HurtBy(line[i]) \subseteq 1..(n + 2)
    BY <1>1, <1>3, <1>4, ElementOfSeq, HurtType
  <2> QED BY <1>2, <1>4, <2>1, <2>2, DisturbTyped DEF n
<1>6. /\ q \in 1..Len(s) /\ s[q] = line[i] /\ IsShorter(t, s, q)
  <2>1. /\ Len(s) = Len(buffer) + Len(line) /\ Len(buffer) \in Nat /\ Len(line) \in Nat
        /\ s[Len(buffer) + i] = line[i]
    BY <1>1, <1>3, LineIndex
  <2>2. IsShorter(t, s, q)
    BY <1>1, <1>3, LoseWhole
  <2> HIDE DEF s, t
  <2> QED BY <1>3, <2>1, <2>2
<1>7. (buffer \o line)' = t
  BY <1>2
<1> HIDE DEF s, t, q
<1>8. Good(t, delivered, sent, n, damaged')
  BY <1>1, <1>2, <1>6, LoseGood
<1> QED BY <1>5, <1>7, <1>8 DEF IInv, n

LEMMA ChangeKeeps ==
    ASSUME ConstantsAssumption, IInv, NEW i \in DOMAIN line, NEW b \in Noise, Change(i, b)
    PROVE  IInv'
<1> DEFINE n == Len(sent)
           s == buffer \o line
           t == buffer \o line'
           q == Len(buffer) + i
           e == [line[i] EXCEPT !.byte = b]
<1>1. /\ n \in Nat
      /\ Typed(sent, line, buffer, delivered, damaged, noise)
      /\ buffer \in Seq(Bytes) /\ line \in Seq(Bytes) /\ s \in Seq(Bytes)
      /\ \A k \in 1..n : sent[k] \in Sendable
      /\ Good(s, delivered, sent, n, damaged)
  BY Given
<1>2. /\ Disturb /\ buffer' = buffer /\ line' = [line EXCEPT ![i] = e]
      /\ damaged' = damaged \cup HurtBy(line[i])
  BY DEF Change, Hit, HurtBy
<1>3. i \in 1..Len(line)
  BY <1>1, LenProperties
<1>4. line \in Seq(BytesUpTo(n)) /\ buffer \in Seq(BytesUpTo(n)) /\ damaged \subseteq 1..(n + 2)
  BY <1>1 DEF Typed
<1>b. b \in Byte
  BY DEF ConstantsAssumption
<1> HIDE DEF n
<1>e. line[i] \in BytesUpTo(n) /\ e \in BytesUpTo(n) /\ e.frame = line[i].frame
  <2>1. line[i] \in BytesUpTo(n)
    BY <1>3, <1>4, ElementOfSeq
  <2> QED BY <1>b, <2>1 DEF BytesUpTo
<1> HIDE DEF e
<1>5. /\ line' \in Seq(BytesUpTo(n)) /\ Len(line') = Len(line)
      /\ \A j \in 1..Len(line) : line'[j] = IF j = i THEN e ELSE line[j]
  BY <1>2, <1>3, <1>4, <1>e, ExceptSeq
<1>6. TypeOK' /\ sent' = sent /\ delivered' = delivered
  <2>1. HurtBy(line[i]) \subseteq 1..(n + 2)
    BY <1>1, <1>e, HurtType
  <2> QED BY <1>2, <1>4, <1>5, <2>1, DisturbTyped DEF n
<1>7. /\ q \in 1..Len(s) /\ s[q] = line[i] /\ IsChanged(t, s, q)
  <2>1. /\ Len(s) = Len(buffer) + Len(line) /\ Len(buffer) \in Nat /\ Len(line) \in Nat
        /\ s[Len(buffer) + i] = line[i]
    BY <1>1, <1>3, LineIndex
  <2>2. line' \in Seq(Bytes)
    BY <1>1, <1>5, UpToType
  <2>3. \A j \in 1..Len(line) : line'[j].frame = line[j].frame /\ (j # i => line'[j] = line[j])
    BY <1>5, <1>e
  <2>4. IsChanged(t, s, q)
    BY <1>1, <1>3, <1>5, <2>2, <2>3, ChangeWhole
  <2> HIDE DEF s, t
  <2> QED BY <1>3, <2>1, <2>4
<1>8. (buffer \o line)' = t
  BY <1>2
<1> HIDE DEF s, t, q
<1>9. Good(t, delivered, sent, n, damaged')
  <2>1. damaged \subseteq damaged' /\ HurtBy(s[q]) \subseteq damaged'
    BY <1>2, <1>7
  <2> QED BY <1>1, <1>7, <2>1, ChangeGood
<1> QED BY <1>6, <1>8, <1>9 DEF IInv, n

LEMMA AddKeeps ==
    ASSUME ConstantsAssumption, IInv, NEW i \in 1..(Len(line) + 1), NEW b \in Noise, Add(i, b)
    PROVE  IInv'
<1> DEFINE n == Len(sent)
           s == buffer \o line
           frame == IF i = Len(line) + 1 THEN n + 1 ELSE line[i].frame
           e == [byte |-> b, frame |-> frame]
           t == buffer \o With(line, i, e)
           q == Len(buffer) + i
<1>1. /\ n \in Nat /\ NextFrame = n + 1
      /\ Typed(sent, line, buffer, delivered, damaged, noise)
      /\ buffer \in Seq(Bytes) /\ line \in Seq(Bytes) /\ s \in Seq(Bytes)
      /\ NotLater(s, delivered, n + 1)
      /\ \A k \in 1..n : sent[k] \in Sendable
      /\ Good(s, delivered, sent, n, damaged)
  BY Given
<1>2. /\ Disturb /\ buffer' = buffer /\ line' = With(line, i, e)
      /\ damaged' = damaged \cup {frame}
  BY <1>1 DEF Add, With
<1>3. line \in Seq(BytesUpTo(n)) /\ buffer \in Seq(BytesUpTo(n)) /\ damaged \subseteq 1..(n + 2)
  BY <1>1 DEF Typed
<1>4. b \in Byte
  BY DEF ConstantsAssumption
<1> HIDE DEF n
<1>5. frame \in 1..(n + 1)
  <2>1. CASE i = Len(line) + 1
    BY <1>1, <2>1
  <2>2. CASE i # Len(line) + 1
    <3>1. i \in 1..Len(line)
      BY <1>1, <2>2, LenProperties
    <3>2. line[i] \in BytesUpTo(n)
      BY <1>3, <3>1, ElementOfSeq
    <3> QED BY <2>2, <3>2 DEF BytesUpTo
  <2> QED BY <2>1, <2>2
<1>6. e.frame = IF i = Len(line) + 1 THEN n + 1 ELSE line[i].frame
  OBVIOUS
<1>7. e.frame = frame /\ e \in BytesUpTo(n) /\ e \in Bytes
  <2> HIDE DEF frame
  <2>1. e.frame = frame
    OBVIOUS
  <2>2. e \in BytesUpTo(n)
    BY <1>4, <1>5 DEF BytesUpTo
  <2>3. BytesUpTo(n) \subseteq Bytes
    BY <1>1 DEF BytesUpTo, Bytes
  <2> QED BY <2>1, <2>2, <2>3
<1> HIDE DEF frame, e
<1>8. TypeOK' /\ sent' = sent /\ delivered' = delivered
  <2>1. line' \in Seq(BytesUpTo(n))
    BY <1>2, <1>3, <1>7, WithIsLonger
  <2>2. frame \in 1..(n + 2)
    BY <1>1, <1>5
  <2> QED BY <1>2, <1>3, <2>1, <2>2, DisturbTyped DEF n
<1>9. /\ q \in 1..(Len(s) + 1) /\ IsLonger(t, s, q, n + 1) /\ t[q] = e
  <2>1. Len(s) = Len(buffer) + Len(line) /\ Len(buffer) \in Nat /\ Len(line) \in Nat
    BY <1>1, LineIndex
  <2>2. IsLonger(t, s, q, n + 1)
    BY <1>1, <1>6, <1>7, AddWhole
  <2>3. t[q] = e
    <3> DEFINE x == With(line, i, e)
    <3>1. x \in Seq(Bytes) /\ Len(x) = Len(line) + 1 /\ x[i] = e
      BY <1>1, <1>7, <2>1, WithIsLonger
    <3>2. i \in 1..Len(x)
      BY <3>1
    <3> HIDE DEF x
    <3>3. (buffer \o x)[Len(buffer) + i] = x[i]
      BY <1>1, <3>1, <3>2, LineIndex
    <3> QED BY <3>1, <3>3 DEF x
  <2> HIDE DEF s, t
  <2> QED BY <2>1, <2>2, <2>3
<1>10. (buffer \o line)' = t
  BY <1>2
<1>11. t[q].frame \in damaged' /\ damaged \subseteq damaged'
  BY <1>2, <1>7, <1>9
<1> HIDE DEF s, t, q
<1>12. Good(t, delivered, sent, n, damaged')
  BY <1>1, <1>9, <1>11, AddGood
<1> QED BY <1>8, <1>10, <1>12 DEF IInv, n

LEMMA ReopenKeeps ==
    ASSUME ConstantsAssumption, IInv, NEW c \in 0..Len(line), Reopen(c) PROVE IInv'
<1> DEFINE n == Len(sent)
           s == buffer \o line
           x == SubSeq(line, c + 1, Len(line))
           t == <<>> \o x
           cut == Len(buffer) + c
<1>1. /\ n \in Nat
      /\ Typed(sent, line, buffer, delivered, damaged, noise)
      /\ buffer \in Seq(Bytes) /\ line \in Seq(Bytes) /\ s \in Seq(Bytes)
      /\ \A k \in 1..n : sent[k] \in Sendable
      /\ Good(s, delivered, sent, n, damaged)
  BY Given
<1>2. /\ Disturb /\ buffer' = <<>> /\ line' = x
      /\ damaged' = damaged \cup {buffer[i].frame : i \in DOMAIN buffer}
                            \cup {line[i].frame : i \in 1..c}
  BY DEF Reopen
<1>3. line \in Seq(BytesUpTo(n)) /\ buffer \in Seq(BytesUpTo(n)) /\ damaged \subseteq 1..(n + 2)
  BY <1>1 DEF Typed
<1>4. /\ Len(buffer) \in Nat /\ Len(line) \in Nat /\ DOMAIN buffer = 1..Len(buffer)
  BY <1>1, LenProperties
<1> HIDE DEF n
<1>5. /\ \A i \in 1..Len(buffer) : buffer[i].frame \in 1..(n + 2)
      /\ \A i \in 1..c : line[i].frame \in 1..(n + 2)
  <2>1. \A e \in BytesUpTo(n) : e.frame \in 1..(n + 2)
    BY <1>1 DEF BytesUpTo
  <2>2. \A i \in 1..Len(buffer) : buffer[i] \in BytesUpTo(n)
    BY <1>3, ElementOfSeq
  <2>3. \A i \in 1..c : line[i] \in BytesUpTo(n)
    BY <1>3, <1>4, ElementOfSeq
  <2> QED BY <2>1, <2>2, <2>3
<1>6. TypeOK' /\ sent' = sent /\ delivered' = delivered
  <2>1. line' \in Seq(BytesUpTo(n))
    <3>1. c + 1 \in Nat /\ 1 <= c + 1 /\ Len(line) <= Len(line) /\ c + 1 <= Len(line) + 1
      BY <1>4
    <3> QED BY <1>2, <1>3, <1>4, <3>1, Piece
  <2>2. buffer' \in Seq(BytesUpTo(n))
    BY <1>2, EmptySeq
  <2>3. damaged' \subseteq 1..(n + 2)
    <3>1. {buffer[i].frame : i \in DOMAIN buffer} \subseteq 1..(n + 2)
      BY <1>4, <1>5
    <3>2. {line[i].frame : i \in 1..c} \subseteq 1..(n + 2)
      BY <1>5
    <3> QED BY <1>2, <1>3, <3>1, <3>2
  <2> QED BY <1>2, <2>1, <2>2, <2>3, DisturbTyped DEF n
<1>7. IsCut(t, s, cut)
  BY <1>1, CutIsCut, CutWhole
<1>8. /\ cut \in 0..Len(s) /\ \A i \in 1..cut : s[i].frame \in damaged'
  <2>1. /\ Len(s) = Len(buffer) + Len(line)
        /\ \A i \in 1..Len(buffer) : s[i] = buffer[i]
        /\ \A i \in 1..Len(line) : s[Len(buffer) + i] = line[i]
    BY <1>1, LineIndex
  <2> HIDE DEF s
  <2>2. ASSUME NEW i \in 1..cut PROVE s[i].frame \in damaged'
    <3>1. CASE i <= Len(buffer)
      <4>1. i \in 1..Len(buffer)
        BY <1>4, <3>1
      <4>2. s[i] = buffer[i]
        BY <2>1, <4>1
      <4>3. buffer[i].frame \in damaged'
        BY <1>2, <1>4, <4>1
      <4> QED BY <4>2, <4>3
    <3>2. CASE ~(i <= Len(buffer))
      <4>1. i - Len(buffer) \in 1..c /\ i - Len(buffer) \in 1..Len(line)
            /\ Len(buffer) + (i - Len(buffer)) = i
        BY <1>4, <3>2
      <4>2. s[i] = line[i - Len(buffer)]
        BY <2>1, <4>1
      <4> QED BY <1>2, <4>1, <4>2
    <3> QED BY <3>1, <3>2
  <2> QED BY <1>4, <2>1, <2>2
<1>9. (buffer \o line)' = t
  BY <1>2
<1> HIDE DEF s, t, cut
<1>10. Good(t, delivered, sent, n, damaged')
  <2>1. damaged \subseteq damaged'
    BY <1>2
  <2> QED BY <1>1, <1>7, <1>8, <2>1, CutGood
<1> QED BY <1>6, <1>9, <1>10 DEF IInv, n

LEMMA ReadKeeps == ASSUME ConstantsAssumption, IInv, NEW c \in Chunks, Read(c) PROVE IInv'
<1> DEFINE n == Len(sent)
           k == IF c < Len(line) THEN c ELSE Len(line)
           x == SubSeq(line, 1, k)
           y == SubSeq(line, k + 1, Len(line))
<1>1. /\ n \in Nat
      /\ Typed(sent, line, buffer, delivered, damaged, noise)
      /\ buffer \in Seq(Bytes) /\ line \in Seq(Bytes)
  BY Given
<1>2. /\ buffer' = buffer \o x /\ line' = y
      /\ sent' = sent /\ delivered' = delivered /\ damaged' = damaged /\ noise' = noise
  BY DEF Read
<1>3. Len(line) \in Nat /\ k \in 0..Len(line)
  <2>1. Len(line) \in Nat /\ c \in Nat
    BY <1>1, LenProperties DEF ConstantsAssumption
  <2> QED BY <2>1
<1> HIDE DEF k
<1>4. ASSUME NEW S, line \in Seq(S) PROVE x \in Seq(S) /\ y \in Seq(S)
  <2>1. /\ 1 \in Nat /\ k \in Nat /\ k + 1 \in Nat /\ 1 <= 1 /\ k <= Len(line) /\ 1 <= k + 1
        /\ Len(line) <= Len(line) /\ k + 1 <= Len(line) + 1
    BY <1>3, SMTT(30)
  <2> QED BY <1>3, <1>4, <2>1, Piece
<1>5. x \o y = line
  <2>1. 1 \in 1..(Len(line) + 1) /\ k \in (1 - 1)..Len(line) /\ Len(line) \in k..Len(line)
    BY <1>3
  <2>2. SubSeq(line, 1, Len(line)) = line
    BY <1>1, SubSeqFull
  <2> QED BY <1>1, <2>1, <2>2, ConcatAdjacentSubSeq
<1>6. x \in Seq(Bytes) /\ y \in Seq(Bytes) /\ x \in Seq(BytesUpTo(n)) /\ y \in Seq(BytesUpTo(n))
  <2>1. line \in Seq(BytesUpTo(n)) /\ line \in Seq(Bytes)
    BY <1>1 DEF Typed
  <2> QED BY <1>4, <2>1
<1> HIDE DEF x, y
<1>7. (buffer \o line)' = buffer \o line
  <2>1. (buffer \o x) \o y = buffer \o (x \o y)
    <3>1. buffer \in Seq(Bytes)
      BY <1>1
    <3> QED BY ONLY <1>6, <3>1, ConcatAssociative
  <2> QED BY <1>2, <1>5, <2>1
<1>8. TypeOK'
  <2>1. buffer' \in Seq(BytesUpTo(n)) /\ line' \in Seq(BytesUpTo(n))
    BY <1>1, <1>2, <1>6, ConcatProperties DEF Typed
  <2>2. Typed(sent, line, buffer, delivered, damaged, noise)'
    BY <1>1, <1>2, <2>1 DEF Typed
  <2> QED BY <1>1, <1>2, <2>2, TypedIsTypeOK
<1> QED BY <1>2, <1>7, <1>8 DEF IInv

\* The bytes up to the first delimiter.
LEMMA Taken ==
    ASSUME NEW b \in Seq(Bytes), NEW c \in 1..Len(b)
    PROVE  LET taken == BytesOf(SubSeq(b, 1, c))
           IN  taken \in Seq(Byte) /\ Len(taken) = c /\ \A i \in 1..c : taken[i] = b[i].byte
<1> DEFINE p == SubSeq(b, 1, c)
           taken == BytesOf(p)
           e(i) == p[i].byte
<1>1. 1 \in Nat /\ c \in Nat /\ 1 <= 1 /\ c <= Len(b) /\ 1 <= c + 1 /\ c - 1 + 1 = c
  BY LenProperties
<1>2. p \in Seq(Bytes) /\ Len(p) = c - 1 + 1 /\ \A i \in 1..(c - 1 + 1) : p[i] = b[1 + i - 1]
  BY <1>1, Piece
<1> HIDE DEF p
<1>3. p \in Seq(Bytes) /\ Len(p) = c /\ DOMAIN p = 1..c /\ \A i \in 1..c : p[i] = b[i]
  BY <1>1, <1>2, LenProperties
<1>4. taken = [i \in 1..c |-> e(i)]
  BY <1>3 DEF BytesOf
<1>5. \A i \in 1..c : e(i) \in Byte
  <2>1. \A i \in 1..c : p[i] \in Bytes
    BY <1>3, ElementOfSeq
  <2> QED BY <2>1 DEF Bytes
<1> HIDE DEF taken, e
<1>6. taken \in Seq(Byte) /\ Len(taken) = c /\ \A i \in 1..c : taken[i] = e(i)
  BY <1>1, <1>4, <1>5
<1> QED BY <1>3, <1>6 DEF taken, e, p

LEMMA TakeKeeps ==
    ASSUME ConstantsAssumption, IInv, NEW c \in DOMAIN buffer, Take(c) PROVE IInv'
<1> DEFINE n == Len(sent)
           s == buffer \o line
           x == SubSeq(buffer, c + 1, Len(buffer))
           t == x \o line
           taken == BytesOf(SubSeq(buffer, 1, c))
           frames == Received(taken)
           of == buffer[c].frame
           added == [i \in DOMAIN frames |-> [frame |-> frames[i], of |-> of]]
<1>1. /\ n \in Nat
      /\ Typed(sent, line, buffer, delivered, damaged, noise)
      /\ buffer \in Seq(Bytes) /\ line \in Seq(Bytes) /\ s \in Seq(Bytes)
      /\ delivered \in Seq(Dispatch)
      /\ \A k \in 1..n : sent[k] \in Sendable
      /\ Good(s, delivered, sent, n, damaged)
  BY Given
<1>2. /\ buffer[c].byte = 0 /\ \A i \in 1..(c - 1) : buffer[i].byte # 0
      /\ buffer' = x /\ delivered' = delivered \o added
      /\ sent' = sent /\ line' = line /\ damaged' = damaged /\ noise' = noise
  BY DEF Take
<1>3. c \in 1..Len(buffer) /\ Len(buffer) \in Nat
  BY <1>1, LenProperties
<1>4. taken \in Seq(Byte) /\ Len(taken) = c /\ \A i \in 1..c : taken[i] = buffer[i].byte
  BY <1>1, <1>3, Taken
<1>5. /\ line \in Seq(BytesUpTo(n)) /\ buffer \in Seq(BytesUpTo(n))
      /\ delivered \in Seq(DispatchUpTo(n))
  BY <1>1 DEF Typed
<1> HIDE DEF n, taken
<1>6. of \in 1..(n + 1)
  <2>1. buffer[c] \in BytesUpTo(n)
    BY <1>3, <1>5, ElementOfSeq
  <2> QED BY <2>1 DEF BytesUpTo
<1> HIDE DEF of
<1>7. \/ frames = <<>> /\ delivered' = delivered
      \/ \E g \in FrameOf : /\ frames = <<g>>
                            /\ Appended(delivered, delivered', Entry(g, of))
                            /\ delivered' \in Seq(DispatchUpTo(n))
  <2>1. CASE frames = <<>>
    <3>1. added = <<>>
      BY <2>1
    <3>2. delivered \o <<>> = delivered
      BY <1>1, ConcatEmptySeq
    <3> QED BY <1>2, <2>1, <3>1, <3>2
  <2>2. CASE \E g \in FrameOf : frames = <<g>>
    <3>1. PICK g \in FrameOf : frames = <<g>>
      BY <2>2
    <3>2. added = <<Entry(g, of)>>
      <4>1. DOMAIN <<g>> = 1..1 /\ <<g>>[1] = g
        OBVIOUS
      <4>2. added = [i \in 1..1 |-> [frame |-> <<g>>[i], of |-> of]]
        BY <3>1, <4>1
      <4>3. \A i \in 1..1 : i = 1
        OBVIOUS
      <4>4. added = [i \in 1..1 |-> Entry(g, of)]
        BY <4>1, <4>2, <4>3 DEF Entry
      <4> HIDE DEF added
      <4> QED BY <4>4
    <3> HIDE DEF added, frames
    <3> DEFINE e == Entry(g, of)
    <3>3. e \in DispatchUpTo(n)
      BY <1>6 DEF Entry, DispatchUpTo
    <3> HIDE DEF e
    <3>4. delivered \o <<e>> = Append(delivered, e)
      BY <1>5, <3>3, AppendIsConcat
    <3>5. delivered' = Append(delivered, e)
      BY <1>2, <3>2, <3>4 DEF e
    <3>6. delivered' \in Seq(DispatchUpTo(n)) /\ Appended(delivered, delivered', e)
      BY <1>5, <3>3, <3>5, AppendProperties DEF Appended
    <3> QED BY <3>1, <3>6 DEF e
  <2> QED BY <1>4, <2>1, <2>2, ReceivedType
<1> HIDE DEF added
<1>8. TypeOK'
  <2>1. delivered' \in Seq(DispatchUpTo(n))
    BY <1>5, <1>7
  <2>2. buffer' \in Seq(BytesUpTo(n))
    <3>1. /\ c + 1 \in Nat /\ 1 <= c + 1 /\ Len(buffer) <= Len(buffer)
          /\ c + 1 <= Len(buffer) + 1
      BY <1>3
    <3> QED BY <1>2, <1>3, <1>5, <3>1, Piece
  <2>3. Typed(sent, line, buffer, delivered, damaged, noise)'
    BY <1>1, <1>2, <2>1, <2>2 DEF Typed, n
  <2> QED BY <1>1, <1>2, <2>3, TypedIsTypeOK DEF n
<1>9. IsCut(t, s, c)
  <2>1. c \in 0..Len(buffer)
    BY <1>3
  <2> QED BY <1>1, <2>1, CutIsCut, CutBuffer
<1>10. (buffer \o line)' = t
  BY <1>2
<1>11. /\ c \in 1..Len(s) /\ \A i \in 1..c : s[i] = buffer[i]
  <2>1. /\ Len(s) = Len(buffer) + Len(line) /\ Len(line) \in Nat
        /\ \A i \in 1..Len(buffer) : s[i] = buffer[i]
    BY <1>1, LineIndex
  <2> HIDE DEF s
  <2> QED BY <1>3, <2>1
<1> HIDE DEF s, t
<1>12. s[c] = buffer[c] /\ \A i \in 1..(c - 1) : i \in 1..c /\ s[i] = buffer[i]
  BY <1>3, <1>11
<1>13. s[c].frame = of
  BY <1>12 DEF of
<1>14. IsTaken(taken, s, c)
  <2>1. s[c].byte = 0
    BY <1>2, <1>12
  <2>2. \A i \in 1..(c - 1) : s[i].byte # 0
    BY <1>2, <1>12
  <2>3. \A i \in 1..c : taken[i] = s[i].byte
    BY <1>4, <1>11
  <2> QED BY <1>4, <2>1, <2>2, <2>3 DEF IsTaken
<1> HIDE DEF frames
<1>15. ASSUME NEW g, Outcome(Received(taken), delivered, delivered', g, s[c].frame)
       PROVE  Good(t, delivered', sent, n, damaged)
  BY <1>1, <1>9, <1>11, <1>14, <1>15, TakeGood
<1>16. Good(t, delivered', sent, n, damaged)
  <2>1. CASE frames = <<>> /\ delivered' = delivered
    BY <1>15, <2>1 DEF frames, Outcome
  <2>2. CASE \E g \in FrameOf : /\ frames = <<g>>
                                /\ Appended(delivered, delivered', Entry(g, of))
                                /\ delivered' \in Seq(DispatchUpTo(n))
    <3>1. PICK g : frames = <<g>> /\ Appended(delivered, delivered', Entry(g, of))
      BY <2>2
    <3>2. Outcome(Received(taken), delivered, delivered', g, s[c].frame)
      BY <1>13, <3>1 DEF frames, Outcome
    <3> QED BY <1>15, <3>2
  <2> QED BY <1>7, <2>1, <2>2
<1> QED BY <1>2, <1>8, <1>10, <1>16 DEF IInv, n

\* The invariant holds of whatever the line does.
LEMMA IInvHolds == Spec => []IInv
<1> USE ConstantsAssumption
<1>1. Init => IInv
  BY InitGood
<1>2. IInv /\ [Next]_vars => IInv'
  <2> SUFFICES ASSUME IInv, [Next]_vars PROVE IInv'
    OBVIOUS
  <2>1. ASSUME NEW f \in Frames, Send(f) PROVE IInv'
    BY <2>1, SendKeeps
  <2>2. ASSUME NEW i \in DOMAIN line, Lose(i) PROVE IInv'
    BY <2>2, LoseKeeps
  <2>3. ASSUME NEW i \in DOMAIN line, NEW b \in Noise, Change(i, b) PROVE IInv'
    BY <2>3, ChangeKeeps
  <2>4. ASSUME NEW i \in 1..(Len(line) + 1), NEW b \in Noise, Add(i, b) PROVE IInv'
    BY <2>4, AddKeeps
  <2>5. ASSUME NEW c \in 0..Len(line), Reopen(c) PROVE IInv'
    BY <2>5, ReopenKeeps
  <2>6. ASSUME NEW c \in Chunks, Read(c) PROVE IInv'
    BY <2>6, ReadKeeps
  <2>7. ASSUME NEW d \in DOMAIN buffer, Take(d) PROVE IInv'
    BY <2>7, TakeKeeps
  <2>8. CASE UNCHANGED vars
    BY <2>8 DEF vars, IInv, TypeOK, BytesOn, NextFrame
  <2> QED BY <2>1, <2>2, <2>3, <2>4, <2>5, <2>6, <2>7, <2>8 DEF Next
<1> QED BY <1>1, <1>2, PTL DEF Spec

-----------------------------------------------------------------------------
\* What unstuff_frame makes of the bytes that stuff_frame wrote is what they were made of,
\* for every frame that Frame.raw accepts and every length of a full block: COBS, the
\* checksum and the header are inverses at both ends.
THEOREM WhatIsSentCanBeReceived ==
    \A f \in FrameOf : Len(f.payload) <= MaxPayload => Received(StuffFrame(Raw(f))) = <<f>>
BY ConstantsAssumption, FrameRoundTrip

\* The delimiter is the only zero of a frame on the wire, and its last byte: the read loop
\* can find the end of a frame without knowing anything of what is in it.
THEOREM OnlyTheDelimiterIsZero ==
    \A raw \in Seq(Byte) :
        LET wire == StuffFrame(raw)
        IN  \A i \in DOMAIN wire : wire[i] = 0 <=> i = Len(wire)
<1> SUFFICES ASSUME NEW raw \in Seq(Byte)
             PROVE  \A i \in DOMAIN StuffFrame(raw) : StuffFrame(raw)[i] = 0 <=> i = Len(StuffFrame(raw))
  OBVIOUS
<1> DEFINE wire == StuffFrame(raw)
<1>1. wire \in Seq(Byte) /\ Len(wire) \in Nat /\ wire[Len(wire)] = 0
      /\ \A i \in 1..(Len(wire) - 1) : wire[i] # 0
  BY ConstantsAssumption, StuffRoundTrip
<1> HIDE DEF wire
<1>2. DOMAIN wire = 1..Len(wire)
  BY <1>1, LenProperties
<1>3. \A i \in DOMAIN wire : wire[i] = 0 <=> i = Len(wire)
  BY <1>1, <1>2
<1> QED BY <1>3 DEF wire

\* Every variable has its type: what is dispatched is a frame, whatever the bytes were.
THEOREM TypeCorrect == Spec => []TypeOK
<1>1. IInv => TypeOK
  BY DEF IInv
<1> QED BY <1>1, IInvHolds, PTL

\* The read loop finds its way back at the next delimiter: a frame that came through with
\* the delimiter before it is dispatched as it was sent, once and in its turn.
THEOREM IntactFramesAlwaysArrive == Spec => []IntactFramesArrive
<1>1. ASSUME ConstantsAssumption, IInv PROVE IntactFramesArrive
  <2> DEFINE n == Len(sent)
             s == buffer \o line
  <2>1. /\ n \in Nat /\ buffer \in Seq(Bytes) /\ line \in Seq(Bytes) /\ s \in Seq(Bytes)
        /\ delivered \in Seq(Dispatch) /\ sent \in Seq(Frames)
        /\ \A k \in 1..n : sent[k] \in Sendable
        /\ Good(s, delivered, sent, n, damaged)
    BY <1>1, Given DEF Typed
  <2>2. DOMAIN delivered = 1..Len(delivered) /\ DOMAIN sent = 1..n
    BY <2>1, LenProperties
  <2> HIDE DEF n
  <2>3. \A i, j \in DOMAIN delivered : i < j => delivered[i].of <= delivered[j].of
    BY <2>1, <2>2 DEF Good, InTurn
  <2>4. ASSUME NEW k \in DOMAIN sent, k \notin damaged
        PROVE  /\ \A i, j \in Entries(k) : i = j
               /\ \A i \in Entries(k) : delivered[i].frame = sent[k]
               /\ line = <<>> /\ ~Delimited => Entries(k) # {}
    <3> DEFINE f == sent[k]
    <3>1. f \in Sendable /\ (OnItsWay(s, delivered, f, k) \/ HasArrived(s, delivered, f, k))
      BY <2>1, <2>2, <2>4 DEF Good
    <3>2. Entries(k) = {i \in 1..Len(delivered) : delivered[i].of = k}
      BY <2>2 DEF Entries
    <3> HIDE DEF f
    <3>3. CASE HasArrived(s, delivered, f, k)
      <4>1. PICK i \in 1..Len(delivered) :
                /\ delivered[i] = Entry(f, k)
                /\ \A j \in 1..Len(delivered) : delivered[j].of = k => j = i
        BY <3>3 DEF HasArrived
      <4>2. delivered[i].of = k /\ delivered[i].frame = f
        BY <4>1 DEF Entry
      <4> QED BY <3>2, <4>1, <4>2 DEF f
    <3>4. CASE OnItsWay(s, delivered, f, k)
      <4>1. Entries(k) = {}
        BY <3>2, <3>4 DEF OnItsWay, NotArrived
      <4>2. ASSUME line = <<>> PROVE Delimited
        <5>1. PICK p \in 0..Len(s) : Placed(s, p, f, k)
          BY <3>4 DEF OnItsWay
        <5> DEFINE M == Len(Wire(f))
        <5>2. M \in Nat /\ 0 < M /\ Wire(f)[M] = 0
          BY <1>1, <3>1, WireFacts
        <5>3. s = buffer /\ Len(buffer) \in Nat /\ DOMAIN buffer = 1..Len(buffer)
          BY <2>1, <4>2, ConcatEmptySeq, LenProperties
        <5>4. M \in 1..M /\ p + M <= Len(s)
          BY <5>1, <5>2 DEF Placed
        <5>5. s[p + M] = [byte |-> Wire(f)[M], frame |-> k]
          BY <5>1, <5>4 DEF Placed
        <5>6. s[p + M].byte = 0
          BY <5>2, <5>5
        <5> HIDE DEF s, M
        <5>7. p + M \in DOMAIN buffer
          BY <5>2, <5>3, <5>4
        <5> QED BY <5>3, <5>6, <5>7 DEF Delimited
      <4> QED BY <4>1, <4>2
    <3> QED BY <3>1, <3>3, <3>4
  <2> QED BY <2>3, <2>4 DEF IntactFramesArrive
<1> QED BY <1>1, IInvHolds, ConstantsAssumption, PTL

\* Something was dispatched at the delimiter of frame k that is not that frame, or it was
\* dispatched again.
Mistaken(k) ==
    \E i \in Entries(k) : \/ k \notin DOMAIN sent
                         \/ delivered[i].frame # sent[k]
                         \/ \E j \in Entries(k) : j # i

\* Whatever the line does, what is dispatched is not a selection of what was sent only if
\* something was dispatched in place of a frame that was itself disturbed: where the
\* disturbances cancelled out in the checksum, or spelt a whole frame.  A disturbance
\* of which nothing comes is no excuse, and the frames that were not disturbed are
\* dispatched as they were sent even then (IntactFramesArrive).
THEOREM OnlyDamagedFramesMistaken == Spec => [](OnlySentFrames \/ \E k \in damaged : Mistaken(k))
<1>1. ASSUME ConstantsAssumption, IInv, ~\E k \in damaged : Mistaken(k) PROVE OnlySentFrames
  <2> DEFINE n == Len(sent)
             s == buffer \o line
             d == [i \in DOMAIN delivered |-> delivered[i].frame]
             kept == [i \in DOMAIN delivered |-> delivered[i].of]
  <2>1. /\ n \in Nat /\ delivered \in Seq(DispatchUpTo(n)) /\ sent \in Seq(Frames)
        /\ delivered \in Seq(Dispatch)
        /\ Good(s, delivered, sent, n, damaged)
    BY <1>1, Given DEF Typed
  <2>2. DOMAIN delivered = 1..Len(delivered) /\ DOMAIN sent = 1..n /\ Len(delivered) \in Nat
    BY <2>1, LenProperties
  <2> HIDE DEF n, s
  <2>3. ASSUME NEW i \in DOMAIN delivered
        PROVE  /\ delivered[i].of \in DOMAIN sent
               /\ delivered[i].frame = sent[delivered[i].of]
               /\ \A j \in DOMAIN delivered : delivered[j].of = delivered[i].of => j = i
    <3> DEFINE k == delivered[i].of
    <3>1. k \in 1..(n + 1)
      <4>1. delivered[i] \in DispatchUpTo(n)
        BY <2>1, <2>2, ElementOfSeq
      <4> QED BY <4>1 DEF DispatchUpTo
    <3> HIDE DEF k
    <3>2. i \in Entries(k)
      BY DEF Entries, k
    <3>3. CASE k \in damaged
      BY <1>1, <3>2, <3>3 DEF Mistaken, Entries, k
    <3>4. CASE k \notin damaged
      <4>1. k # n + 1
        <5>1. n + 1 \notin damaged => NotArrived(delivered, n + 1)
          BY <2>1 DEF Good
        <5> QED BY <2>2, <3>4, <5>1 DEF NotArrived, k
      <4>2. k \in 1..n
        BY <2>1, <3>1, <4>1
      <4>3. OnItsWay(s, delivered, sent[k], k) \/ HasArrived(s, delivered, sent[k], k)
        BY <2>1, <3>4, <4>2 DEF Good
      <4>4. ~NotArrived(delivered, k)
        BY <2>2 DEF NotArrived, k
      <4>5. HasArrived(s, delivered, sent[k], k)
        BY <4>3, <4>4 DEF OnItsWay
      <4>6. PICK j \in 1..Len(delivered) :
                /\ delivered[j] = Entry(sent[k], k)
                /\ \A m \in 1..Len(delivered) : delivered[m].of = k => m = j
        BY <4>5 DEF HasArrived
      <4>7. i = j
        BY <2>2, <4>6 DEF k
      <4>8. delivered[i].frame = sent[k]
        BY <4>6, <4>7 DEF Entry
      <4> QED BY <2>2, <4>2, <4>6, <4>7, <4>8 DEF k
    <3> QED BY <3>3, <3>4
  <2>4. kept \in [DOMAIN d -> DOMAIN sent]
    BY <2>3
  <2>5. ASSUME NEW i \in DOMAIN d, NEW j \in DOMAIN d, i < j PROVE kept[i] < kept[j]
    <3>1. i \in 1..Len(delivered) /\ j \in 1..Len(delivered)
      BY <2>2
    <3>2. delivered[i].of <= delivered[j].of
      BY <2>1, <2>5, <3>1 DEF Good, InTurn
    <3>3. delivered[i].of # delivered[j].of
      BY <2>2, <2>3, <2>5, <3>1
    <3>4. delivered[i].of \in Nat /\ delivered[j].of \in Nat
      BY <2>1, <2>2, <2>3, <3>1
    <3> QED BY <3>2, <3>3, <3>4
  <2>6. \A i \in DOMAIN d : d[i] = sent[kept[i]]
    BY <2>3
  <2> HIDE DEF kept, d
  <2>7. KeptFrom(d, sent)
    BY <2>4, <2>5, <2>6 DEF KeptFrom
  <2> QED BY <2>7 DEF OnlySentFrames, d
<1> QED BY <1>1, IInvHolds, ConstantsAssumption, PTL

\* The read loop of itself invents, changes, repeats and reorders nothing, however the
\* bytes are cut into chunks.
COROLLARY UndisturbedOnlySentFrames == Spec => [](damaged = {} => OnlySentFrames)
<1>1. (OnlySentFrames \/ \E k \in damaged : Mistaken(k)) => (damaged = {} => OnlySentFrames)
  OBVIOUS
<1> QED BY <1>1, OnlyDamagedFramesMistaken, PTL

=============================================================================
