--------------------------- MODULE Em4100_proofs ---------------------------
(***************************************************************************)
(* What the operators of the image and of its decoder return, for tokens   *)
(* of any number of rows.                                                  *)
(***************************************************************************)
EXTENDS Em4100, SequenceTheorems, FiniteSetTheorems, TLAPS

\* A function on an interval of bits is a sequence, and the other way round.
LEMMA BitsAreSequences ==
  ASSUME NEW n \in Nat, NEW s
  PROVE  s \in [1..n -> Bit] <=> s \in Seq(Bit) /\ Len(s) = n
<1>1. ASSUME s \in [1..n -> Bit] PROVE s \in Seq(Bit) /\ Len(s) = n
  <2>1. s \in Seq(Bit)
    BY <1>1, SeqDef
  <2>2. DOMAIN s = 1..Len(s) /\ Len(s) \in Nat
    BY <2>1, LenProperties
  <2> QED
    BY <1>1, <2>1, <2>2
<1>2. ASSUME s \in Seq(Bit), Len(s) = n PROVE s \in [1..n -> Bit]
  BY <1>2, LenProperties
<1> QED
  BY <1>1, <1>2

\* `u' holds the m bits of `s' and then the n bits of `t'.
Joined(s, m, t, n, u) ==
  /\ \A i \in 1..m : u[i] = s[i]
  /\ \A i \in 1..n : u[m + i] = t[i]

\* Bits stored behind one another keep their places.
LEMMA ConcatBits ==
  ASSUME NEW m \in Nat, NEW n \in Nat, NEW l, l = m + n,
         NEW s \in [1..m -> Bit], NEW t \in [1..n -> Bit]
  PROVE  s \o t \in [1..l -> Bit] /\ Joined(s, m, t, n, s \o t)
<1> DEFINE u == s \o t
<1>1. s \in Seq(Bit) /\ Len(s) = m /\ t \in Seq(Bit) /\ Len(t) = n
  BY BitsAreSequences
<1>2. /\ u \in Seq(Bit) /\ Len(u) = l
      /\ \A i \in 1..l : u[i] = IF i <= m THEN s[i] ELSE t[i - m]
  BY <1>1, ConcatProperties
<1> HIDE DEF u
<1>3. u \in [1..l -> Bit]
  <2>1. l \in Nat
    OBVIOUS
  <2> QED
    BY <1>2, <2>1, BitsAreSequences
<1>4. ASSUME NEW i \in 1..m PROVE u[i] = s[i]
  BY <1>2
<1>5. ASSUME NEW i \in 1..n PROVE u[m + i] = t[i]
  <2>1. m + i \in 1..l /\ ~(m + i <= m) /\ (m + i) - m = i
    OBVIOUS
  <2> QED
    BY <1>2, <2>1
<1> QED
  BY <1>3, <1>4, <1>5 DEF u, Joined

\* Reversing keeps the length and turns the places over.
LEMMA ReverseBits ==
  ASSUME NEW n \in Nat, NEW s \in [1..n -> Bit]
  PROVE  /\ Reverse(s) \in [1..n -> Bit]
         /\ \A i \in 1..n : Reverse(s)[i] = s[n - i + 1]
<1>1. Len(s) = n
  BY BitsAreSequences
<1>2. Reverse(s) = [i \in 1..n |-> s[n - i + 1]]
  BY <1>1 DEF Reverse
<1>3. \A i \in 1..n : n - i + 1 \in 1..n
  OBVIOUS
<1> QED
  BY <1>2, <1>3

\* One bit is a sequence of one.
LEMMA OneBit ==
  ASSUME NEW b \in Bit
  PROVE  <<b>> \in [1..1 -> Bit] /\ <<b>>[1] = b
OBVIOUS

\* The exclusive or of any nibbles is a nibble (Em4100Eprom.cpp:57-69).
LEMMA ColumnParityType ==
  ASSUME NEW n \in Nat, NEW nibbles \in [1..n -> Nibble]
  PROVE  ColumnParity(nibbles) \in Nibble
<1>1. ASSUME NEW i \in 1..4
      PROVE  Cardinality({r \in DOMAIN nibbles : nibbles[r][i] = 1}) % 2 \in Bit
  <2> DEFINE ones == {r \in DOMAIN nibbles : nibbles[r][i] = 1}
  <2>1. ones \subseteq 1..n
    OBVIOUS
  <2>2. IsFiniteSet(1..n)
    BY FS_Interval
  <2>3. Cardinality(ones) \in Nat
    BY <2>1, <2>2, FS_Subset, FS_CardinalityType
  <2> HIDE DEF ones
  <2>4. Cardinality(ones) % 2 \in Bit
    BY <2>3 DEF Bit
  <2> QED
    BY <2>4 DEF ones
<1> QED
  BY <1>1 DEF ColumnParity, Nibble

\* A nibble and its parity, reversed (Em4100Eprom.cpp:54-70).
LEMMA RowBitsType ==
  ASSUME NEW n \in Nibble
  PROVE  RowBits(n) \in [1..5 -> Bit] /\ ReverseNibble(n) \in Nibble
<1> DEFINE nibble == ReverseNibble(n)
           parity == ParityNibble(nibble)
<1>1. nibble \in [1..4 -> Bit]
  BY ReverseBits DEF ReverseNibble, Nibble
<1>2. parity \in Bit
  <2>1. nibble[1] \in Bit /\ nibble[2] \in Bit /\ nibble[3] \in Bit /\ nibble[4] \in Bit
    BY <1>1
  <2> HIDE DEF nibble
  <2> QED
    BY <2>1 DEF ParityNibble, Bit
<1> HIDE DEF nibble, parity
<1>3. <<parity>> \o nibble \in [1..5 -> Bit]
  <2>1. 1 \in Nat /\ 4 \in Nat /\ 5 = 1 + 4
    OBVIOUS
  <2> QED
    BY <1>1, <1>2, OneBit, ConcatBits, <2>1, Zenon
<1>4. Reverse(<<parity>> \o nibble) \in [1..5 -> Bit]
  BY <1>3, ReverseBits
<1> QED
  BY <1>1, <1>4 DEF RowBits, BufferAddBits, nibble, parity, Nibble

\* The column parities and the stop bit, reversed (Em4100Eprom.cpp:72).
LEMMA ParityBitsType ==
  ASSUME NEW token \in Token
  PROVE  ParityBits(token) \in [1..5 -> Bit]
<1> DEFINE nibbles == [r \in 1..Rows |-> ReverseNibble(token[r])]
           columns == ColumnParity(nibbles)
<1>1. nibbles \in [1..Rows -> Nibble]
  BY RowBitsType DEF Token
<1> HIDE DEF nibbles
<1>2. columns \in [1..4 -> Bit]
  BY <1>1, ColumnParityType, Em4100Assumption DEF Nibble
<1> HIDE DEF columns
<1>3. 0 \in Bit
  BY DEF Bit
<1>4. <<0>> \o columns \in [1..5 -> Bit]
  <2>1. 1 \in Nat /\ 4 \in Nat /\ 5 = 1 + 4
    OBVIOUS
  <2> QED
    BY <1>2, <1>3, OneBit, ConcatBits, <2>1, Zenon
<1>5. Reverse(<<0>> \o columns) \in [1..5 -> Bit]
  BY <1>4, ReverseBits
<1> QED
  BY <1>5 DEF ParityBits, BufferAddBits, columns, nibbles

\* The image of any token fills its two words with bits (Em4100Eprom.cpp:46-73).
THEOREM GenerateType ==
  ASSUME NEW token \in Token
  PROVE  Generate(token) \in [1..ImageLength -> Bit]
<1> DEFINE rows == [r \in 1..(Rows + 1) |->
                      IF r <= Rows THEN RowBits(token[r]) ELSE ParityBits(token)]
           place(i) == i - PreambleLength - 1
           bit(i) == IF i <= PreambleLength THEN 1
                     ELSE rows[(place(i) \div 5) + 1][(place(i) % 5) + 1]
<1>1. rows \in [1..(Rows + 1) -> [1..5 -> Bit]]
  <2>1. ASSUME NEW r \in 1..(Rows + 1), r <= Rows PROVE RowBits(token[r]) \in [1..5 -> Bit]
    BY <2>1, RowBitsType, Em4100Assumption DEF Token
  <2> QED
    BY <2>1, ParityBitsType
<1> HIDE DEF rows
<1>2. ASSUME NEW i \in 1..ImageLength PROVE bit(i) \in Bit
  <2>1. CASE i <= PreambleLength
    BY <2>1 DEF Bit
  <2>2. CASE ~(i <= PreambleLength)
    <3>1. place(i) \in 0..(5 * Rows + 4)
      BY <2>2, Em4100Assumption DEF ImageLength
    <3> HIDE DEF place
    <3>2. (place(i) \div 5) + 1 \in 1..(Rows + 1) /\ (place(i) % 5) + 1 \in 1..5
      BY <3>1, Em4100Assumption
    <3>3. rows[(place(i) \div 5) + 1][(place(i) % 5) + 1] \in Bit
      BY <1>1, <3>2
    <3> QED
      BY <2>2, <3>3
  <2> QED
    BY <2>1, <2>2
<1>3. Generate(token) = [i \in 1..ImageLength |-> bit(i)]
  BY DEF Generate, rows
<1> HIDE DEF bit
<1> QED
  BY <1>2, <1>3
-----------------------------------------------------------------------------
(* The decoder                                                             *)

\* A decoder that stores what its buffers have room for.
SoundDecoder(d) ==
  /\ d \in DecoderState /\ WithinBuffers(d)
  /\ d.state = "DATA" => Len(d.data) <= Rows

\* Four bits are a nibble.
LEMMA FourBits ==
  ASSUME NEW s \in Seq(Bit), Len(s) = 4
  PROVE  s \in Nibble
BY BitsAreSequences, 4 \in Nat, Zenon DEF Nibble

LEMMA RecordSound ==
  ASSUME NEW s \in {"PREAMBLE", "DATA"}, NEW c \in 0..(PreambleLength - 1),
         NEW n \in Seq(Bit), Len(n) <= 4, NEW a \in Seq(Nibble), Len(a) <= Rows + 1,
         s = "DATA" => Len(a) <= Rows
  PROVE  SoundDecoder([state |-> s, bitCount |-> c, nibble |-> n, data |-> a])
BY DEF SoundDecoder, DecoderState, WithinBuffers

\* Whatever bits arrive, the decoder stays within its buffers
\* (Em4100Decoder.cpp:61-131).
LEMMA DecodeBitSound ==
  ASSUME NEW d, SoundDecoder(d), NEW bit \in Bit
  PROVE  SoundDecoder(DecodeBit(d, bit))
<1> DEFINE e == DecodeBit(d, bit)
<1>1. /\ d.state \in {"PREAMBLE", "DATA"} /\ d.bitCount \in 0..(PreambleLength - 1)
      /\ d.nibble \in Seq(Bit) /\ d.data \in Seq(Nibble)
      /\ d = [state |-> d.state, bitCount |-> d.bitCount, nibble |-> d.nibble, data |-> d.data]
  BY DEF SoundDecoder, DecoderState
<1>2. /\ Len(d.nibble) <= 4 /\ Len(d.data) <= Rows + 1 /\ (d.state = "DATA" => Len(d.data) <= Rows)
      /\ Len(d.nibble) \in Nat /\ Len(d.data) \in Nat
      /\ Rows \in Nat /\ PreambleLength \in Nat /\ PreambleLength > 0
  BY <1>1, Em4100Assumption DEF SoundDecoder, WithinBuffers
<1>3. /\ 0 \in 0..(PreambleLength - 1) /\ <<>> \in Seq(Bit) /\ <<>> \in Seq(Nibble)
      /\ Len(<<>>) <= 4 /\ Len(<<>>) <= Rows + 1 /\ Len(<<>>) <= Rows
  BY <1>2
<1>4. CASE d.state = "PREAMBLE"
  <2>1. e = Preamble(d, bit)
    BY <1>4, Zenon DEF DecodeBit
  <2>2. CASE bit = 0
    <3>1. e = [state |-> d.state, bitCount |-> 0, nibble |-> d.nibble, data |-> d.data]
      BY <1>1, <2>1, <2>2 DEF Preamble
    <3> QED
      BY <1>1, <1>2, <1>3, <3>1, RecordSound, Zenon
  <2>3. CASE bit # 0 /\ d.bitCount + 1 = PreambleLength
    <3>1. e = [state |-> "DATA", bitCount |-> 0, nibble |-> <<>>, data |-> <<>>]
      BY <1>1, <2>1, <2>3 DEF Preamble
    <3> QED
      BY <1>1, <1>2, <1>3, <3>1, RecordSound, Zenon
  <2>4. CASE bit # 0 /\ d.bitCount + 1 # PreambleLength
    <3>1. e = [state |-> d.state, bitCount |-> d.bitCount + 1, nibble |-> d.nibble, data |-> d.data]
      BY <1>1, <2>1, <2>4 DEF Preamble
    <3>2. d.bitCount + 1 \in 0..(PreambleLength - 1)
      BY <1>1, <1>2, <2>4
    <3> QED
      BY <1>1, <1>2, <3>1, <3>2, RecordSound, Zenon
  <2> QED
    BY <2>2, <2>3, <2>4
<1>5. CASE d.state = "DATA" /\ Len(d.nibble) = 4
  <2>1. e = CloseRow(d, bit)
    BY <1>5, Zenon DEF DecodeBit
  <2>2. CASE ~ParityOk(d, bit)
    <3>1. e = [state |-> "PREAMBLE", bitCount |-> d.bitCount, nibble |-> d.nibble, data |-> d.data]
      BY <1>1, <2>1, <2>2 DEF CloseRow
    <3>2. "PREAMBLE" \in {"PREAMBLE", "DATA"} /\ "PREAMBLE" # "DATA"
      OBVIOUS
    <3> QED
      BY <1>1, <1>2, <3>1, <3>2, RecordSound, Zenon
  <2>3. CASE ParityOk(d, bit)
    <3> DEFINE s == IF Len(d.data) = Rows THEN "PREAMBLE" ELSE "DATA"
    <3>1. e = [state |-> s, bitCount |-> d.bitCount, nibble |-> <<>>,
               data |-> Append(d.data, d.nibble)]
      BY <2>1, <2>3, Zenon DEF CloseRow
    <3>2. s \in {"PREAMBLE", "DATA"} /\ (s = "DATA" => Len(d.data) # Rows)
      OBVIOUS
    <3>3. /\ Append(d.data, d.nibble) \in Seq(Nibble)
          /\ Len(Append(d.data, d.nibble)) = Len(d.data) + 1
      BY <1>1, <1>5, FourBits
    <3> HIDE DEF s
    <3>4. /\ Len(Append(d.data, d.nibble)) <= Rows + 1
          /\ s = "DATA" => Len(Append(d.data, d.nibble)) <= Rows
      BY <1>2, <1>5, <3>2, <3>3
    <3> QED
      BY <1>1, <1>2, <1>3, <3>1, <3>2, <3>3, <3>4, RecordSound, Zenon
  <2> QED
    BY <2>2, <2>3
<1>6. CASE d.state = "DATA" /\ Len(d.nibble) # 4
  <2>1. e = [state |-> d.state, bitCount |-> d.bitCount, nibble |-> Append(d.nibble, bit),
             data |-> d.data]
    <3>1. e = [d EXCEPT !.nibble = Append(d.nibble, bit)]
      BY <1>6, Zenon DEF DecodeBit
    <3> QED
      BY <1>1, <3>1 DEF SoundDecoder, DecoderState
  <2>2. Append(d.nibble, bit) \in Seq(Bit) /\ Len(Append(d.nibble, bit)) = Len(d.nibble) + 1
    BY <1>1
  <2>3. Len(Append(d.nibble, bit)) <= 4
    <3> DEFINE n == Len(d.nibble)
    <3>1. n \in Nat /\ n <= 4 /\ n # 4
      BY <1>2, <1>6
    <3> HIDE DEF n
    <3>2. n + 1 <= 4
      BY <3>1
    <3> QED
      BY <2>2, <3>2 DEF n
  <2> QED
    BY <1>1, <1>2, <2>1, <2>2, <2>3, RecordSound, Zenon
<1> QED
  BY <1>1, <1>4, <1>5, <1>6

\* Only whole tokens are reported.
LEMMA NewTokensType ==
  ASSUME NEW d, SoundDecoder(d), NEW bit \in Bit
  PROVE  NewTokens(d, bit) \subseteq Token
<1>1. CASE Len(d.data) = Rows
  <2>1. d.data \in [1..Rows -> Nibble]
    BY <1>1, LenProperties DEF SoundDecoder, DecoderState
  <2> QED
    BY <2>1 DEF NewTokens, Token
<1>2. CASE Len(d.data) # Rows
  BY <1>2 DEF NewTokens
<1> QED
  BY <1>1, <1>2

-----------------------------------------------------------------------------
(* The decoder in front of the image                                       *)

\* The rows behind the preamble, the first being row 0
ImageRow(token, r) == IF r < Rows THEN RowBits(token[r + 1]) ELSE ParityBits(token)

\* Every row has its place behind the preamble (Em4100Eprom.cpp:46-73).
LEMMA GenerateRow ==
  ASSUME NEW token \in Token, NEW r \in 0..Rows, NEW i \in 1..5
  PROVE  /\ PreambleLength + 5 * r + i \in (PreambleLength + 1)..ImageLength
         /\ Generate(token)[PreambleLength + 5 * r + i] = ImageRow(token, r)[i]
<1> DEFINE rows == [k \in 1..(Rows + 1) |->
                      IF k <= Rows THEN RowBits(token[k]) ELSE ParityBits(token)]
           place(k) == k - PreambleLength - 1
           bit(k) == IF k <= PreambleLength THEN 1
                     ELSE rows[(place(k) \div 5) + 1][(place(k) % 5) + 1]
           j == PreambleLength + 5 * r + i
<1>1. Rows \in Nat /\ PreambleLength \in Nat /\ r \in Nat /\ r <= Rows
  BY Em4100Assumption
<1>2. j \in 1..ImageLength /\ j \in (PreambleLength + 1)..ImageLength /\ ~(j <= PreambleLength)
      /\ place(j) = 5 * r + (i - 1)
  BY <1>1 DEF ImageLength
<1>3. Generate(token)[j] = bit(j)
  <2>1. Generate(token) = [k \in 1..ImageLength |-> bit(k)]
    BY DEF Generate
  <2> HIDE DEF bit, j
  <2> QED
    BY <1>2, <2>1
<1>4. place(j) \div 5 = r /\ (place(j) % 5) + 1 = i
  <2>1. (5 * r + (i - 1)) \div 5 = r /\ (5 * r + (i - 1)) % 5 = i - 1
    BY <1>1
  <2> HIDE DEF j, place
  <2> QED
    BY <1>2, <2>1
<1>5. rows[r + 1] = ImageRow(token, r)
  BY <1>1 DEF ImageRow
<1> QED
  BY <1>2, <1>3, <1>4, <1>5, Zenon

\* A row is its nibble, and the parity that makes the number of ones even.
LEMMA RowBitsValue ==
  ASSUME NEW n \in Nibble
  PROVE  /\ \A i \in 1..4 : RowBits(n)[i] = n[i]
         /\ RowBits(n)[5] = (n[4] + n[3] + n[2] + n[1]) % 2
<1> DEFINE nibble == ReverseNibble(n)
           parity == ParityNibble(nibble)
           row == <<parity>> \o nibble
<1>1. nibble \in [1..4 -> Bit] /\ \A i \in 1..4 : nibble[i] = n[4 - i + 1]
  BY ReverseBits DEF ReverseNibble, Nibble
<1>2. nibble[1] = n[4] /\ nibble[2] = n[3] /\ nibble[3] = n[2] /\ nibble[4] = n[1]
  BY <1>1
<1>3. parity = (n[4] + n[3] + n[2] + n[1]) % 2
  BY <1>2, Zenon DEF ParityNibble
<1>4. parity \in Bit
  <2>1. n[1] \in Bit /\ n[2] \in Bit /\ n[3] \in Bit /\ n[4] \in Bit
    BY DEF Nibble
  <2> QED
    BY <1>3, <2>1 DEF Bit
<1> HIDE DEF nibble, parity
<1>5. row \in [1..5 -> Bit] /\ Joined(<<parity>>, 1, nibble, 4, row)
  <2>1. 1 \in Nat /\ 4 \in Nat /\ 5 = 1 + 4
    OBVIOUS
  <2> QED
    BY <1>1, <1>4, OneBit, ConcatBits, <2>1, Zenon
<1>6. row[1] = parity /\ row[2] = nibble[1] /\ row[3] = nibble[2] /\ row[4] = nibble[3]
      /\ row[5] = nibble[4]
  <2>1. <<parity>>[1] = parity /\ 1 \in 1..1
    BY <1>4
  <2>2. (\A i \in 1..1 : row[i] = <<parity>>[i]) /\ (\A i \in 1..4 : row[1 + i] = nibble[i])
    BY <1>5 DEF Joined
  <2> HIDE DEF row
  <2> QED
    BY <2>1, <2>2
<1>7. RowBits(n) = Reverse(row)
  BY DEF RowBits, BufferAddBits, nibble, parity
<1> HIDE DEF row
<1>8. \A i \in 1..5 : RowBits(n)[i] = row[5 - i + 1]
  BY <1>5, <1>7, ReverseBits
<1>9. \A i \in 1..4 : i = 1 \/ i = 2 \/ i = 3 \/ i = 4
  OBVIOUS
<1>10. /\ RowBits(n)[1] = n[1] /\ RowBits(n)[2] = n[2] /\ RowBits(n)[3] = n[3]
       /\ RowBits(n)[4] = n[4] /\ RowBits(n)[5] = parity
  BY <1>2, <1>6, <1>8
<1> QED
  BY <1>3, <1>9, <1>10, Zenon

\* The row of column parities ends in the stop bit.
LEMMA StopBit ==
  ASSUME NEW token \in Token
  PROVE  ParityBits(token)[5] = 0
<1> DEFINE nibbles == [r \in 1..Rows |-> ReverseNibble(token[r])]
           columns == ColumnParity(nibbles)
           row == <<0>> \o columns
<1>1. nibbles \in [1..Rows -> Nibble]
  BY RowBitsType DEF Token
<1> HIDE DEF nibbles
<1>2. columns \in [1..4 -> Bit]
  BY <1>1, ColumnParityType, Em4100Assumption DEF Nibble
<1> HIDE DEF columns
<1>3. <<0>> \in [1..1 -> Bit] /\ <<0>>[1] = 0
  BY DEF Bit
<1>4. row \in [1..5 -> Bit] /\ Joined(<<0>>, 1, columns, 4, row)
  <2>1. 1 \in Nat /\ 4 \in Nat /\ 5 = 1 + 4
    OBVIOUS
  <2> QED
    BY <1>2, <1>3, ConcatBits, <2>1, Zenon
<1>5. row[1] = 0
  BY <1>3, <1>4 DEF Joined
<1>6. ParityBits(token) = Reverse(row)
  BY DEF ParityBits, BufferAddBits, columns, nibbles
<1> HIDE DEF row
<1>7. \A i \in 1..5 : ParityBits(token)[i] = row[5 - i + 1]
  BY <1>4, <1>6, ReverseBits
<1> QED
  BY <1>5, <1>7

\* No row is all ones: four ones have the parity zero, and the stop bit is zero.
LEMMA NoRowOfOnes ==
  ASSUME NEW token \in Token, NEW r \in 0..Rows
  PROVE  \E i \in 1..5 : ImageRow(token, r)[i] # 1
<1>1. CASE r < Rows
  <2> DEFINE n == token[r + 1]
  <2>1. n \in Nibble
    BY <1>1, Em4100Assumption DEF Token
  <2> HIDE DEF n
  <2>2. /\ \A i \in 1..4 : RowBits(n)[i] = n[i]
        /\ RowBits(n)[5] = (n[4] + n[3] + n[2] + n[1]) % 2
    BY <2>1, RowBitsValue
  <2> DEFINE row == RowBits(n)
  <2>3. ASSUME \A i \in 1..5 : row[i] = 1 PROVE FALSE
    <3>1. n[1] = 1 /\ n[2] = 1 /\ n[3] = 1 /\ n[4] = 1 /\ row[5] = 1
      BY <2>2, <2>3
    <3> QED
      BY <2>2, <3>1
  <2>4. ImageRow(token, r) = row
    BY <1>1 DEF ImageRow, n
  <2> QED
    BY <2>3, <2>4
<1>2. CASE ~(r < Rows)
  BY <1>2, StopBit DEF ImageRow
<1> QED
  BY <1>1, <1>2

\* The bits of the image, which repeats for ever, by their places from 0 on
Bits(token, q) ==
  IF q < ImageLength THEN Generate(token)[q + 1] ELSE Generate(token)[q - ImageLength + 1]

\* What is asked of the sizes: nine ones contain a whole row, wherever they begin.
LongPreamble == PreambleLength >= 9

LEMMA BitsValue ==
  ASSUME NEW token \in Token, NEW q \in 0..(2 * ImageLength - 1)
  PROVE  /\ Bits(token, q) \in Bit
         /\ q < PreambleLength => Bits(token, q) = 1
         /\ ImageLength <= q /\ q < ImageLength + PreambleLength => Bits(token, q) = 1
<1>1. ImageLength \in Nat /\ PreambleLength \in Nat /\ PreambleLength <= ImageLength
  BY Em4100Assumption DEF ImageLength
<1> DEFINE j == IF q < ImageLength THEN q + 1 ELSE q - ImageLength + 1
<1>2. j \in 1..ImageLength /\ Bits(token, q) = Generate(token)[j]
  BY <1>1 DEF Bits
<1>3. \A k \in 1..PreambleLength : Generate(token)[k] = 1
  <2>1. \A k \in 1..PreambleLength : k \in 1..ImageLength /\ k <= PreambleLength
    BY <1>1
  <2> QED
    BY <2>1, Zenon DEF Generate
<1>4. Generate(token)[j] \in Bit
  BY <1>2, GenerateType
<1>5. q < PreambleLength => j \in 1..PreambleLength
  BY <1>1
<1>6. ImageLength <= q /\ q < ImageLength + PreambleLength => j \in 1..PreambleLength
  BY <1>1
<1> QED
  BY <1>2, <1>3, <1>4, <1>5, <1>6

\* The bits of a row, and the stop bit
LEMMA RowPlaces ==
  ASSUME NEW token \in Token, NEW r \in 0..Rows, NEW i \in 1..5
  PROVE  /\ Bits(token, PreambleLength + 5 * r + i - 1) = ImageRow(token, r)[i]
         /\ PreambleLength + 5 * r + i - 1 \in 0..(ImageLength - 1)
<1> DEFINE j == PreambleLength + 5 * r + i
<1>1. j \in (PreambleLength + 1)..ImageLength /\ Generate(token)[j] = ImageRow(token, r)[i]
  BY GenerateRow
<1>2. ImageLength \in Nat /\ PreambleLength \in Nat
  BY Em4100Assumption DEF ImageLength
<1> HIDE DEF j
<1>3. j - 1 < ImageLength /\ (j - 1) + 1 = j /\ j - 1 \in 0..(ImageLength - 1)
  BY <1>1, <1>2
<1>4. Bits(token, j - 1) = Generate(token)[j]
  BY <1>3 DEF Bits
<1>5. PreambleLength + 5 * r + i - 1 = j - 1
  BY <1>2, Em4100Assumption DEF j
<1> QED
  BY <1>1, <1>3, <1>4, <1>5, Zenon

LEMMA LastBit ==
  ASSUME NEW token \in Token
  PROVE  Bits(token, ImageLength - 1) = 0
<1>1. Rows \in 0..Rows /\ Rows \in Nat /\ PreambleLength \in Nat /\ 5 \in 1..5
  BY Em4100Assumption
<1>2. Bits(token, PreambleLength + 5 * Rows + 5 - 1) = ImageRow(token, Rows)[5]
  BY <1>1, RowPlaces
<1>3. PreambleLength + 5 * Rows + 5 - 1 = ImageLength - 1
  BY <1>1 DEF ImageLength
<1>4. ImageRow(token, Rows)[5] = 0
  BY <1>1, StopBit DEF ImageRow
<1> QED
  BY <1>2, <1>3, <1>4

\* The last n bits before p are ones.
OnesBefore(token, p, n) == \A j \in 1..n : Bits(token, p + ImageLength - j) = 1

\* As many ones as a preamble has end in it or shortly after: no other place of the
\* image, of whatever token, looks like the beginning of the data.
LEMMA PreambleUnique ==
  ASSUME NEW token \in Token, LongPreamble, NEW p \in 0..(ImageLength - 1),
         OnesBefore(token, p, PreambleLength)
  PROVE  p \in PreambleLength..(2 * PreambleLength - 1)
<1> DEFINE P == PreambleLength  L == ImageLength
<1>1. P \in Nat /\ P >= 9 /\ Rows \in Nat /\ L = P + 5 * (Rows + 1) /\ L \in Nat /\ p \in Nat /\ p < L
  BY Em4100Assumption DEF ImageLength, LongPreamble
<1>2. ASSUME p < P PROVE FALSE
  <2>1. p + 1 \in 1..P /\ p + L - (p + 1) = L - 1
    BY <1>1, <1>2
  <2>2. Bits(token, L - 1) = 1
    BY <2>1, Zenon DEF OnesBefore
  <2> QED
    BY <2>2, LastBit
<1>3. ASSUME p >= 2 * P PROVE FALSE
  <2> DEFINE r == (p - 2 * P + 4) \div 5
  <2>1. 5 * r <= p - 2 * P + 4 /\ p - 2 * P <= 5 * r /\ r \in Nat
    BY <1>1, <1>3
  <2> HIDE DEF r
  <2>2. r \in 0..Rows
    BY <1>1, <1>3, <2>1
  <2>3. PICK i \in 1..5 : ImageRow(token, r)[i] # 1
    BY <2>2, NoRowOfOnes
  <2> DEFINE q == P + 5 * r + i - 1
             j == p - q
  <2>4. Bits(token, q) # 1 /\ q \in 0..(L - 1)
    BY <2>2, <2>3, RowPlaces
  <2>5. j \in 1..P /\ p + L - j = q + L /\ j \in Nat
    BY <1>1, <1>3, <2>1
  <2>6. Bits(token, q + L) = 1
    BY <2>5, Zenon DEF OnesBefore
  <2> HIDE DEF q
  <2>7. Bits(token, q + L) = Bits(token, q)
    BY <1>1, <2>4 DEF Bits
  <2> QED
    BY <2>4, <2>6, <2>7
<1> QED
  BY <1>1, <1>2, <1>3

\* The next place in the image
Following(p) == IF p + 1 = ImageLength THEN 0 ELSE p + 1

LEMMA OneMore ==
  ASSUME NEW token \in Token, NEW p \in 0..(ImageLength - 1), NEW n \in Nat, n < ImageLength,
         OnesBefore(token, p, n), Bits(token, p) = 1
  PROVE  OnesBefore(token, Following(p), n + 1)
<1> DEFINE L == ImageLength  f == Following(p)
<1>1. L \in Nat /\ p \in Nat /\ p < L /\ L > 0
  BY Em4100Assumption DEF ImageLength
<1> SUFFICES ASSUME NEW j \in 1..(n + 1) PROVE Bits(token, f + L - j) = 1
  BY DEF OnesBefore
<1>2. CASE j = 1
  <2>1. Bits(token, f + L - 1) = Bits(token, p)
    BY <1>1 DEF Following, Bits
  <2> QED
    BY <1>2, <2>1
<1>3. CASE j # 1
  <2>1. j - 1 \in 1..n
    BY <1>3
  <2>2. Bits(token, p + L - (j - 1)) = 1
    BY <2>1, Zenon DEF OnesBefore
  <2>3. Bits(token, f + L - j) = Bits(token, p + L - (j - 1))
    BY <1>1, <1>3 DEF Following, Bits
  <2> QED
    BY <2>2, <2>3
<1> QED
  BY <1>2, <1>3

\* The bits the decoder has stored are those of the image from s on, up to p.
FrameEnd(d, s) == s + 5 * Len(d.data) + Len(d.nibble)

InFrame(d, token, p, s) ==
  /\ s \in PreambleLength..(2 * PreambleLength - 1)
  /\ p = IF FrameEnd(d, s) < ImageLength THEN FrameEnd(d, s) ELSE FrameEnd(d, s) - ImageLength
  /\ \A r \in 1..Len(d.data), i \in 1..4 : d.data[r][i] = Bits(token, s + 5 * r - 6 + i)
  /\ \A i \in 1..Len(d.nibble) : d.nibble[i] = Bits(token, s + 5 * Len(d.data) - 1 + i)

\* The decoder has been fed with the image of a token, up to the bit before p: what it
\* has counted, or stored, are the last bits.
Follows(d, token, p) ==
  /\ SoundDecoder(d)
  /\ d.state = "PREAMBLE" => OnesBefore(token, p, d.bitCount)
  /\ d.state = "DATA" => d.bitCount = 0 /\ \E s \in Nat : InFrame(d, token, p, s)

LEMMA FrameEndBound ==
  ASSUME NEW d, SoundDecoder(d), d.state = "DATA", NEW s, NEW token \in Token, NEW p,
         InFrame(d, token, p, s)
  PROVE  /\ s \in Nat /\ FrameEnd(d, s) \in 0..(2 * ImageLength - 1) /\ Len(d.data) \in Nat
         /\ Bits(token, p) = Bits(token, FrameEnd(d, s))
         /\ Following(p) = IF FrameEnd(d, s) + 1 < ImageLength THEN FrameEnd(d, s) + 1
                           ELSE FrameEnd(d, s) + 1 - ImageLength
<1>1. /\ Len(d.data) \in Nat /\ Len(d.data) <= Rows /\ Len(d.nibble) \in Nat /\ Len(d.nibble) <= 4
      /\ Rows \in Nat /\ PreambleLength \in Nat /\ PreambleLength > 0
      /\ ImageLength = PreambleLength + 5 * (Rows + 1) /\ ImageLength \in Nat
  BY Em4100Assumption DEF SoundDecoder, DecoderState, WithinBuffers, ImageLength
<1> DEFINE end == FrameEnd(d, s)
<1>2. /\ s \in PreambleLength..(2 * PreambleLength - 1)
      /\ p = IF end < ImageLength THEN end ELSE end - ImageLength
  BY DEF InFrame
<1>3. end \in 0..(2 * ImageLength - 2)
  <2>1. s \in Nat /\ s <= 2 * PreambleLength - 1
    BY <1>1, <1>2
  <2>2. end = s + 5 * Len(d.data) + Len(d.nibble)
    BY DEF FrameEnd
  <2> HIDE DEF end
  <2> DEFINE n == Len(d.data)  k == Len(d.nibble)
  <2> HIDE DEF n, k
  <2>3. /\ n \in Nat /\ n <= Rows /\ k \in Nat /\ k <= 4 /\ end = s + 5 * n + k
    BY <1>1, <2>2 DEF n, k
  <2> QED
    BY <1>1, <2>1, <2>3
<1> HIDE DEF end
<1>4. Bits(token, p) = Bits(token, end)
  BY <1>1, <1>2, <1>3 DEF Bits
<1>5. Following(p) = IF end + 1 < ImageLength THEN end + 1 ELSE end + 1 - ImageLength
  BY <1>1, <1>2, <1>3 DEF Following
<1>6. s \in Nat /\ end \in 0..(2 * ImageLength - 1)
  BY <1>1, <1>2, <1>3
<1> QED
  BY <1>1, <1>4, <1>5, <1>6 DEF end

\* A bit of the image keeps the decoder in step with it (Em4100Decoder.cpp:61-131).
LEMMA FollowsStep ==
  ASSUME LongPreamble, NEW token \in Token, NEW p \in 0..(ImageLength - 1), NEW d,
         Follows(d, token, p)
  PROVE  Follows(DecodeBit(d, Bits(token, p)), token, Following(p))
<1> DEFINE bit == Bits(token, p)  e == DecodeBit(d, bit)  f == Following(p)
<1>1. /\ Rows \in Nat /\ PreambleLength \in Nat /\ PreambleLength > 0 /\ ImageLength \in Nat
      /\ PreambleLength < ImageLength
  BY Em4100Assumption DEF ImageLength
<1>2. bit \in Bit /\ f \in 0..(ImageLength - 1)
  <2>1. p \in 0..(2 * ImageLength - 1)
    BY <1>1
  <2> QED
    BY <1>1, <2>1, BitsValue DEF Following
<1>3. SoundDecoder(d) /\ SoundDecoder(e)
  BY <1>2, DecodeBitSound DEF Follows
<1>4. /\ d.state \in {"PREAMBLE", "DATA"} /\ d.bitCount \in 0..(PreambleLength - 1)
      /\ d.nibble \in Seq(Bit) /\ d.data \in Seq(Nibble)
      /\ Len(d.nibble) \in Nat /\ Len(d.nibble) <= 4 /\ Len(d.data) \in Nat
      /\ d = [state |-> d.state, bitCount |-> d.bitCount, nibble |-> d.nibble, data |-> d.data]
  BY <1>3 DEF SoundDecoder, DecoderState, WithinBuffers
<1>5. ASSUME e.state = "PREAMBLE", e.bitCount = 0 PROVE Follows(e, token, f)
  <2>1. OnesBefore(token, f, e.bitCount)
    BY <1>5 DEF OnesBefore
  <2>2. e.state # "DATA"
    BY <1>5
  <2> QED
    BY <1>3, <2>1, <2>2, Zenon DEF Follows
<1>6. ASSUME e.state = "DATA", e.bitCount = 0, NEW s \in Nat, InFrame(e, token, f, s)
      PROVE  Follows(e, token, f)
  <2>1. e.state # "PREAMBLE"
    BY <1>6
  <2> QED
    BY <1>3, <1>6, <2>1, Zenon DEF Follows
<1>9. e = DecodeBit(d, bit) /\ f = Following(p) /\ bit = Bits(token, p)
  OBVIOUS
<1> HIDE DEF bit, e, f
<1> SUFFICES Follows(e, token, f)
  BY <1>9
<1>7. CASE d.state = "PREAMBLE"
  <2>1. e = Preamble(d, bit)
    BY <1>7, <1>9, Zenon DEF DecodeBit
  <2>2. CASE bit = 0
    <3>1. e = [state |-> d.state, bitCount |-> 0, nibble |-> d.nibble, data |-> d.data]
      BY <1>4, <2>1, <2>2 DEF Preamble
    <3>2. e.state = "PREAMBLE" /\ e.bitCount = 0
      BY <1>7, <3>1
    <3> QED
      BY <1>5, <3>2
  <2>3. CASE bit # 0
    <3>1. OnesBefore(token, p, d.bitCount) /\ Bits(token, p) = 1
      BY <1>2, <1>7, <1>9, <2>3 DEF Follows, Bit
    <3>2. OnesBefore(token, f, d.bitCount + 1)
      <4>1. d.bitCount \in Nat /\ d.bitCount < ImageLength
        BY <1>1, <1>4
      <4> QED
        BY <1>9, <3>1, <4>1, OneMore
    <3>3. CASE d.bitCount + 1 = PreambleLength
      <4>1. e = [state |-> "DATA", bitCount |-> 0, nibble |-> <<>>, data |-> <<>>]
        BY <2>1, <2>3, <3>3 DEF Preamble
      <4>2. f \in PreambleLength..(2 * PreambleLength - 1)
        BY <1>2, <3>2, <3>3, PreambleUnique
      <4>3. FrameEnd(e, f) = f /\ Len(e.data) = 0 /\ Len(e.nibble) = 0 /\ f \in Nat /\ f < ImageLength
        BY <1>1, <1>2, <4>1 DEF FrameEnd
      <4>4. InFrame(e, token, f, f)
        BY <4>2, <4>3 DEF InFrame
      <4>5. e.state = "DATA" /\ e.bitCount = 0
        BY <4>1
      <4> QED
        BY <1>6, <4>3, <4>4, <4>5
    <3>4. CASE d.bitCount + 1 # PreambleLength
      <4>1. e = [state |-> d.state, bitCount |-> d.bitCount + 1, nibble |-> d.nibble, data |-> d.data]
        BY <1>4, <2>1, <2>3, <3>4 DEF Preamble
      <4>2. e.state # "DATA" /\ e.bitCount = d.bitCount + 1
        BY <1>7, <4>1
      <4> QED
        BY <1>3, <3>2, <4>2, Zenon DEF Follows
    <3> QED
      BY <3>3, <3>4
  <2> QED
    BY <2>2, <2>3
<1>8. CASE d.state = "DATA"
  <2>1. d.bitCount = 0
    BY <1>8, Zenon DEF Follows
  <2>2. PICK s \in Nat : InFrame(d, token, p, s)
    BY <1>8, Zenon DEF Follows
  <2> DEFINE n == Len(d.data)  end == FrameEnd(d, s)
  <2>3. /\ end \in 0..(2 * ImageLength - 1) /\ bit = Bits(token, end)
        /\ f = IF end + 1 < ImageLength THEN end + 1 ELSE end + 1 - ImageLength
    BY <1>3, <1>8, <1>9, <2>2, FrameEndBound
  <2>4. /\ s \in PreambleLength..(2 * PreambleLength - 1)
        /\ \A r \in 1..n, i \in 1..4 : d.data[r][i] = Bits(token, s + 5 * r - 6 + i)
        /\ \A i \in 1..Len(d.nibble) : d.nibble[i] = Bits(token, s + 5 * n - 1 + i)
    BY <2>2 DEF InFrame
  <2>5. CASE Len(d.nibble) = 4
    <3>1. e = CloseRow(d, bit)
      BY <1>8, <1>9, <2>5, Zenon DEF DecodeBit
    <3>2. CASE ~ParityOk(d, bit) \/ n = Rows
      <4>1. e.state = "PREAMBLE" /\ e.bitCount = 0
        <5>1. CASE ~ParityOk(d, bit)
          <6>1. e = [state |-> "PREAMBLE", bitCount |-> d.bitCount, nibble |-> d.nibble, data |-> d.data]
            BY <1>4, <3>1, <5>1 DEF CloseRow
          <6> QED
            BY <2>1, <6>1
        <5>2. CASE ParityOk(d, bit) /\ n = Rows
          <6>1. e = [state |-> "PREAMBLE", bitCount |-> d.bitCount, nibble |-> <<>>,
                     data |-> Append(d.data, d.nibble)]
            BY <3>1, <5>2, Zenon DEF CloseRow
          <6> QED
            BY <2>1, <6>1
        <5> QED
          BY <3>2, <5>1, <5>2
      <4> QED
        BY <1>5, <4>1
    <3>3. CASE ParityOk(d, bit) /\ n # Rows
      <4>1. e = [state |-> "DATA", bitCount |-> d.bitCount, nibble |-> <<>>,
                 data |-> Append(d.data, d.nibble)]
        BY <3>1, <3>3, Zenon DEF CloseRow
      <4>2. d.nibble \in Nibble
        BY <1>4, <2>5, FourBits
      <4>3. /\ e.state = "DATA" /\ e.bitCount = 0 /\ e.nibble = <<>>
            /\ Len(e.data) = n + 1 /\ e.data[n + 1] = d.nibble
            /\ \A r \in 1..n : e.data[r] = d.data[r]
        BY <1>4, <2>1, <4>1, <4>2, AppendProperties
      <4>4. FrameEnd(e, s) = end + 1 /\ Len(e.nibble) = 0
        BY <1>4, <2>5, <4>3 DEF FrameEnd
      <4>5. ASSUME NEW r \in 1..(n + 1), NEW i \in 1..4
            PROVE  e.data[r][i] = Bits(token, s + 5 * r - 6 + i)
        <5>1. CASE r = n + 1
          <6>1. d.nibble[i] = Bits(token, s + 5 * n - 1 + i)
            BY <2>4, <2>5
          <6>2. s + 5 * n - 1 + i = s + 5 * r - 6 + i
            BY <1>4, <5>1
          <6> QED
            BY <4>3, <5>1, <6>1, <6>2
        <5>2. CASE r # n + 1
          <6>1. r \in 1..n
            BY <1>4, <5>2
          <6> QED
            BY <2>4, <4>3, <6>1
        <5> QED
          BY <5>1, <5>2
      <4> HIDE DEF end, n
      <4>6. InFrame(e, token, f, s)
        <5>1. f = IF FrameEnd(e, s) < ImageLength THEN FrameEnd(e, s)
                  ELSE FrameEnd(e, s) - ImageLength
          BY <1>1, <2>3, <4>4
        <5>2. \A r \in 1..Len(e.data), i \in 1..4 : e.data[r][i] = Bits(token, s + 5 * r - 6 + i)
          BY <4>3, <4>5, Zenon
        <5>3. \A i \in 1..Len(e.nibble) : e.nibble[i] = Bits(token, s + 5 * Len(e.data) - 1 + i)
          BY <4>4
        <5> QED
          BY <2>4, <5>1, <5>2, <5>3, Zenon DEF InFrame
      <4> QED
        BY <1>6, <4>3, <4>6
    <3> QED
      BY <3>2, <3>3
  <2>6. CASE Len(d.nibble) # 4
    <3>1. e = [state |-> d.state, bitCount |-> d.bitCount, nibble |-> Append(d.nibble, bit),
               data |-> d.data]
      <4>1. e = [d EXCEPT !.nibble = Append(d.nibble, bit)]
        BY <1>8, <1>9, <2>6, Zenon DEF DecodeBit
      <4> QED
        BY <1>4, <4>1
    <3> DEFINE k == Len(d.nibble)
    <3>2. /\ e.state = "DATA" /\ e.bitCount = 0 /\ e.data = d.data
          /\ Len(e.nibble) = k + 1 /\ e.nibble[k + 1] = bit
          /\ \A i \in 1..k : e.nibble[i] = d.nibble[i]
      BY <1>2, <1>4, <1>8, <2>1, <3>1, AppendProperties
    <3>3. FrameEnd(e, s) = end + 1 /\ end = s + 5 * n + k
      BY <1>4, <3>2 DEF FrameEnd
    <3>4. ASSUME NEW i \in 1..(k + 1)
          PROVE  e.nibble[i] = Bits(token, s + 5 * n - 1 + i)
      <4>1. CASE i = k + 1
        <5>1. s + 5 * n - 1 + i = end
          BY <1>4, <3>3, <4>1
        <5> QED
          BY <2>3, <3>2, <4>1, <5>1
      <4>2. CASE i # k + 1
        <5>1. i \in 1..k
          BY <1>4, <4>2
        <5> QED
          BY <2>4, <3>2, <5>1
      <4> QED
        BY <4>1, <4>2
    <3> HIDE DEF end, k, n
    <3>5. InFrame(e, token, f, s)
      <4>1. f = IF FrameEnd(e, s) < ImageLength THEN FrameEnd(e, s)
                ELSE FrameEnd(e, s) - ImageLength
        BY <1>1, <2>3, <3>3
      <4>2. /\ \A r \in 1..Len(e.data), i \in 1..4 : e.data[r][i] = Bits(token, s + 5 * r - 6 + i)
            /\ Len(e.data) = n
        <5>1. e.data = d.data
          BY <3>2
        <5> HIDE DEF e
        <5> QED
          BY <2>4, <5>1 DEF n
      <4>3. \A i \in 1..Len(e.nibble) : e.nibble[i] = Bits(token, s + 5 * Len(e.data) - 1 + i)
        BY <3>2, <3>4, <4>2, Zenon
      <4> QED
        BY <2>4, <4>1, <4>2, <4>3, Zenon DEF InFrame
    <3> QED
      BY <1>6, <3>2, <3>5
  <2> QED
    BY <2>5, <2>6
<1> QED
  BY <1>4, <1>7, <1>8, <1>9

\* Of the image of a token the decoder reports that token, and no other: a frame that
\* began too late ends with a one of the next preamble, where the stop bit is tested
\* (Em4100Decoder.cpp:77-131).
LEMMA FollowsReports ==
  ASSUME NEW token \in Token, NEW p \in 0..(ImageLength - 1), NEW d, Follows(d, token, p)
  PROVE  NewTokens(d, Bits(token, p)) \subseteq {token}
<1> DEFINE bit == Bits(token, p)
<1>1. /\ Rows \in Nat /\ PreambleLength \in Nat /\ PreambleLength > 0
      /\ ImageLength = PreambleLength + 5 * (Rows + 1) /\ ImageLength \in Nat
  BY Em4100Assumption DEF ImageLength
<1> SUFFICES ASSUME d.state = "DATA", Len(d.nibble) = 4, Len(d.data) = Rows, ParityOk(d, bit)
             PROVE  d.data = token
  BY Zenon DEF NewTokens
<1>2. SoundDecoder(d)
  BY DEF Follows
<1>3. PICK s \in Nat : InFrame(d, token, p, s)
  BY Zenon DEF Follows
<1>4. /\ bit = 0 /\ bit = Bits(token, FrameEnd(d, s))
      /\ FrameEnd(d, s) \in 0..(2 * ImageLength - 1)
      /\ FrameEnd(d, s) = s + 5 * Rows + 4
  BY <1>1, <1>2, <1>3, FrameEndBound DEF ParityOk, FrameEnd
<1>5. /\ s \in PreambleLength..(2 * PreambleLength - 1)
      /\ \A r \in 1..Rows, i \in 1..4 : d.data[r][i] = Bits(token, s + 5 * r - 6 + i)
  BY <1>3 DEF InFrame
<1> HIDE DEF bit
<1>6. s = PreambleLength
  <2> SUFFICES ASSUME s # PreambleLength PROVE FALSE
    OBVIOUS
  <2> DEFINE end == FrameEnd(d, s)
  <2>1. ImageLength <= end /\ end < ImageLength + PreambleLength
    BY <1>1, <1>4, <1>5
  <2> HIDE DEF end
  <2>2. Bits(token, end) = 1
    BY <1>4, <2>1, BitsValue DEF end
  <2> QED
    BY <1>4, <2>2 DEF end
<1>7. d.data \in [1..Rows -> Nibble]
  BY <1>2, LenProperties DEF SoundDecoder, DecoderState
<1>8. ASSUME NEW r \in 1..Rows PROVE d.data[r] = token[r]
  <2>1. d.data[r] \in [1..4 -> Bit] /\ token[r] \in [1..4 -> Bit] /\ token[r] \in Nibble
    BY <1>7 DEF Token, Nibble
  <2>2. ASSUME NEW i \in 1..4 PROVE d.data[r][i] = token[r][i]
    <3>1. r - 1 \in 0..Rows /\ i \in 1..5 /\ r - 1 < Rows /\ (r - 1) + 1 = r
      BY <1>1
    <3>2. Bits(token, PreambleLength + 5 * (r - 1) + i - 1) = ImageRow(token, r - 1)[i]
      BY <3>1, RowPlaces
    <3>3. PreambleLength + 5 * (r - 1) + i - 1 = s + 5 * r - 6 + i
      BY <1>1, <1>6
    <3>4. ImageRow(token, r - 1) = RowBits(token[r])
      BY <3>1 DEF ImageRow
    <3>5. RowBits(token[r])[i] = token[r][i]
      BY <2>1, RowBitsValue
    <3> QED
      BY <1>5, <3>2, <3>3, <3>4, <3>5
  <2> QED
    BY <2>1, <2>2
<1> QED
  BY <1>7, <1>8 DEF Token

\* A decoder that has counted nothing follows any image, wherever it is.
LEMMA ResetFollows ==
  ASSUME NEW token, NEW p
  PROVE  Follows(ResetDecoder, token, p)
<1>1. SoundDecoder(ResetDecoder)
  <2>1. /\ 0 \in 0..(PreambleLength - 1) /\ <<>> \in Seq(Bit) /\ <<>> \in Seq(Nibble)
        /\ Len(<<>>) <= 4 /\ Len(<<>>) <= Rows + 1 /\ "PREAMBLE" # "DATA"
    BY Em4100Assumption
  <2> QED
    BY <2>1, RecordSound, Zenon DEF ResetDecoder
<1>2. ResetDecoder.state = "PREAMBLE" /\ ResetDecoder.bitCount = 0 /\ ResetDecoder.state # "DATA"
  BY DEF ResetDecoder
<1>3. OnesBefore(token, p, 0)
  BY DEF OnesBefore
<1> QED
  BY <1>1, <1>2, <1>3, Zenon DEF Follows

\* Zeros leave it as it is.
LEMMA ResetOnZero == DecodeBit(ResetDecoder, 0) = ResetDecoder /\ NewTokens(ResetDecoder, 0) = {}
BY DEF DecodeBit, Preamble, ResetDecoder, NewTokens
============================================================================
