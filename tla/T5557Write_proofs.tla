------------------------- MODULE T5557Write_proofs -------------------------
(***************************************************************************)
(* Programming, for every token, modulation and rate: what putSamples      *)
(* packs is what the tag hears, pulse by pulse, and the blocks it carries  *)
(* out are those the program wants, in their order.                        *)
(***************************************************************************)
EXTENDS T5557Write, Em4100_proofs

LEMMA Sizes == WordBits = 32 /\ FrameBits = 38 /\ ImageLength = 64 /\ DataBlocks = 2
BY WriteAssumption DEF FrameBits, DataBlocks

LEMMA PulseLengths ==
  DataOne = 55 /\ DataZero = 23 /\ WriteGap = 19 /\ StartGap = 30
BY DEF DataOne, DataZero, WriteGap, StartGap

Word == [1 .. 32 -> Bit]

-----------------------------------------------------------------------------
(* Words                                                                   *)

LEMMA ZerosType ==
  ASSUME NEW n \in Nat
  PROVE  Zeros(n) \in [1 .. n -> Bit] /\ \A i \in 1 .. n : Zeros(n)[i] = 0
BY DEF Zeros, Bit

LEMMA WeightValues ==
  /\ Weight[1] = 1 /\ Weight[2] = 2 /\ Weight[3] = 4 /\ Weight[4] = 8 /\ Weight[5] = 16
BY DEF Weight

LEMMA MsbType ==
  ASSUME NEW n \in 1 .. 5, NEW v \in Nat
  PROVE  Msb(v, n) \in [1 .. n -> Bit]
<1>1. ASSUME NEW w \in {1, 2, 4, 8, 16} PROVE (v \div w) % 2 \in Bit
  <2>1. v \div w \in Nat
    <3>1. CASE w = 1
      BY <3>1
    <3>2. CASE w = 2
      BY <3>2
    <3>3. CASE w = 4
      BY <3>3
    <3>4. CASE w = 8
      BY <3>4
    <3>5. CASE w = 16
      BY <3>5
    <3> QED
      BY <3>1, <3>2, <3>3, <3>4, <3>5
  <2> DEFINE d == v \div w
  <2> HIDE DEF d
  <2>2. d % 2 \in Bit
    BY <2>1 DEF d, Bit
  <2> QED
    BY <2>2 DEF d
<1>2. ASSUME NEW i \in 1 .. n PROVE Weight[n - i + 1] \in {1, 2, 4, 8, 16}
  <2>1. n - i + 1 \in 1 .. 5
    OBVIOUS
  <2> DEFINE k == n - i + 1
  <2> HIDE DEF k
  <2>2. Weight[k] \in {1, 2, 4, 8, 16}
    BY <2>1, WeightValues DEF k
  <2> QED
    BY <2>2 DEF k
<1> QED
  BY <1>1, <1>2 DEF Msb

\* Three bits are the number they were made of.
LEMMA MsbThree ==
  ASSUME NEW v \in 0 .. 7
  PROVE  4 * Msb(v, 3)[1] + 2 * Msb(v, 3)[2] + Msb(v, 3)[3] = v
<1>1. /\ Msb(v, 3)[1] = (v \div 4) % 2
      /\ Msb(v, 3)[2] = (v \div 2) % 2
      /\ Msb(v, 3)[3] = (v \div 1) % 2
  <2>1. \A i \in 1 .. 3 : Msb(v, 3)[i] = (v \div Weight[3 - i + 1]) % 2
    BY Zenon DEF Msb
  <2>2. 3 - 1 + 1 = 3 /\ 3 - 2 + 1 = 2 /\ 3 - 3 + 1 = 1
    OBVIOUS
  <2> QED
    BY <2>1, <2>2, WeightValues
<1>2. 4 * ((v \div 4) % 2) + 2 * ((v \div 2) % 2) + ((v \div 1) % 2) = v
  OBVIOUS
<1> QED
  BY <1>1, <1>2

\* So are five.
LEMMA MsbFive ==
  ASSUME NEW v \in 0 .. 31
  PROVE  16 * Msb(v, 5)[1] + 8 * Msb(v, 5)[2] + 4 * Msb(v, 5)[3] + 2 * Msb(v, 5)[4]
           + Msb(v, 5)[5] = v
<1>1. /\ Msb(v, 5)[1] = (v \div 16) % 2
      /\ Msb(v, 5)[2] = (v \div 8) % 2
      /\ Msb(v, 5)[3] = (v \div 4) % 2
      /\ Msb(v, 5)[4] = (v \div 2) % 2
      /\ Msb(v, 5)[5] = (v \div 1) % 2
  <2>1. \A i \in 1 .. 5 : Msb(v, 5)[i] = (v \div Weight[5 - i + 1]) % 2
    BY Zenon DEF Msb
  <2>2. /\ 5 - 1 + 1 = 5 /\ 5 - 2 + 1 = 4 /\ 5 - 3 + 1 = 3
        /\ 5 - 4 + 1 = 2 /\ 5 - 5 + 1 = 1
    OBVIOUS
  <2> QED
    BY <2>1, <2>2, WeightValues
<1>2. 16 * ((v \div 16) % 2) + 8 * ((v \div 8) % 2) + 4 * ((v \div 4) % 2)
        + 2 * ((v \div 2) % 2) + ((v \div 1) % 2) = v
  OBVIOUS
<1> QED
  BY <1>1, <1>2

\* The code of a rate is one less than its place in the table (T5557Encoder.cpp:121-130).
LEMMA DataRateCode ==
  ASSUME NEW rate \in {DataRate[i] : i \in 1 .. 8}
  PROVE  DataRateValue(rate) \in 0 .. 7 /\ DataRate[DataRateValue(rate) + 1] = rate
<1> DEFINE i == CHOOSE j \in 1 .. 8 : DataRate[j] = rate
<1>1. i \in 1 .. 8 /\ DataRate[i] = rate
  OBVIOUS
<1>2. DataRateValue(rate) = i - 1
  BY DEF DataRateValue
<1> HIDE DEF i
<1>3. (i - 1) + 1 = i /\ i - 1 \in 0 .. 7
  BY <1>1
<1> QED
  BY <1>1, <1>2, <1>3

\* The codes of the modulations fit five bits, and no two share one.
LEMMA ModulationCode ==
  /\ \A m \in DOMAIN ModulationValue : ModulationValue[m] \in 0 .. 31
  /\ \A m, n \in DOMAIN ModulationValue : ModulationValue[m] = ModulationValue[n] => m = n
BY DEF ModulationValue

\* The configuration word of a program: thirty-two bits, with its fields where the tag looks
\* for them (T5557Encoder.cpp:110-174).
LEMMA ConfigurationWord ==
  ASSUME NEW p \in Program
  PROVE  LET c == Configuration(DefaultParameters, p.rate, p.modulation, DataBlocks) IN
         /\ c \in Word
         /\ 4 * c[12] + 2 * c[13] + c[14] = DataRateValue(p.rate)
         /\ 16 * c[16] + 8 * c[17] + 4 * c[18] + 2 * c[19] + c[20]
              = ModulationValue[p.modulation]
         /\ 4 * c[25] + 2 * c[26] + c[27] = 2
         /\ c[28] = 0
<1> DEFINE r  == Msb(DataRateValue(p.rate), 3)
           m  == Msb(ModulationValue[p.modulation], 5)
           b  == Msb(2, 3)
           c1 == Msb(0, 4) \o Zeros(7)
           c2 == c1 \o r
           c3 == c2 \o Zeros(1)
           c4 == c3 \o m
           c5 == c4 \o Msb(0, 2)
           c6 == c5 \o <<1, 0>>
           c7 == c6 \o b
           c8 == c7 \o <<0, 0>>
           c9 == c8 \o Zeros(2)
           c  == c9 \o <<0>>
<1>1. Configuration(DefaultParameters, p.rate, p.modulation, DataBlocks) = c
  BY DEF Configuration, DefaultParameters, DataBlocks
<1>2. /\ DataRateValue(p.rate) \in 0 .. 7
      /\ ModulationValue[p.modulation] \in 0 .. 31
  BY DataRateCode, ModulationCode DEF Program
<1>3. /\ r \in [1 .. 3 -> Bit] /\ m \in [1 .. 5 -> Bit] /\ b \in [1 .. 3 -> Bit]
      /\ 4 * r[1] + 2 * r[2] + r[3] = DataRateValue(p.rate)
      /\ 16 * m[1] + 8 * m[2] + 4 * m[3] + 2 * m[4] + m[5] = ModulationValue[p.modulation]
      /\ 4 * b[1] + 2 * b[2] + b[3] = 2
  <2>1. /\ DataRateValue(p.rate) \in Nat /\ ModulationValue[p.modulation] \in Nat
        /\ 2 \in 0 .. 7 /\ 2 \in Nat /\ 3 \in 1 .. 5 /\ 5 \in 1 .. 5
    BY <1>2
  <2>2. r \in [1 .. 3 -> Bit] /\ m \in [1 .. 5 -> Bit] /\ b \in [1 .. 3 -> Bit]
    BY <2>1, MsbType, Zenon
  <2> QED
    BY <1>2, <2>1, <2>2, MsbThree, MsbFive, Zenon
<1>4. /\ Msb(0, 4) \in [1 .. 4 -> Bit] /\ Msb(0, 2) \in [1 .. 2 -> Bit]
      /\ Zeros(7) \in [1 .. 7 -> Bit] /\ Zeros(1) \in [1 .. 1 -> Bit]
      /\ Zeros(2) \in [1 .. 2 -> Bit]
      /\ <<1, 0>> \in [1 .. 2 -> Bit] /\ <<0, 0>> \in [1 .. 2 -> Bit]
      /\ <<0>> \in [1 .. 1 -> Bit]
      /\ <<0, 0>>[1] = 0
  <2>1. /\ <<1, 0>> \in [1 .. 2 -> Bit] /\ <<0, 0>> \in [1 .. 2 -> Bit]
        /\ <<0>> \in [1 .. 1 -> Bit] /\ <<0, 0>>[1] = 0
    BY DEF Bit
  <2>2. /\ 0 \in Nat /\ 4 \in 1 .. 5 /\ 2 \in 1 .. 5
        /\ 7 \in Nat /\ 1 \in Nat /\ 2 \in Nat
    OBVIOUS
  <2> QED
    BY <2>1, <2>2, MsbType, ZerosType, Zenon
<1> HIDE DEF r, m, b
<1>5. c1 \in [1 .. 11 -> Bit] /\ Joined(Msb(0, 4), 4, Zeros(7), 7, c1)
  <2>1. 4 \in Nat /\ 7 \in Nat /\ 11 = 4 + 7
    OBVIOUS
  <2> QED
    BY <1>4, <2>1, ConcatBits, Zenon
<1> HIDE DEF c1
<1>6. c2 \in [1 .. 14 -> Bit] /\ Joined(c1, 11, r, 3, c2)
  <2>1. 11 \in Nat /\ 3 \in Nat /\ 14 = 11 + 3
    OBVIOUS
  <2> QED
    BY <1>3, <1>5, <2>1, ConcatBits, Zenon
<1> HIDE DEF c2
<1>7. c3 \in [1 .. 15 -> Bit] /\ Joined(c2, 14, Zeros(1), 1, c3)
  <2>1. 14 \in Nat /\ 1 \in Nat /\ 15 = 14 + 1
    OBVIOUS
  <2> QED
    BY <1>4, <1>6, <2>1, ConcatBits, Zenon
<1> HIDE DEF c3
<1>8. c4 \in [1 .. 20 -> Bit] /\ Joined(c3, 15, m, 5, c4)
  <2>1. 15 \in Nat /\ 5 \in Nat /\ 20 = 15 + 5
    OBVIOUS
  <2> QED
    BY <1>3, <1>7, <2>1, ConcatBits, Zenon
<1> HIDE DEF c4
<1>9. c5 \in [1 .. 22 -> Bit] /\ Joined(c4, 20, Msb(0, 2), 2, c5)
  <2>1. 20 \in Nat /\ 2 \in Nat /\ 22 = 20 + 2
    OBVIOUS
  <2> QED
    BY <1>4, <1>8, <2>1, ConcatBits, Zenon
<1> HIDE DEF c5
<1>10. c6 \in [1 .. 24 -> Bit] /\ Joined(c5, 22, <<1, 0>>, 2, c6)
  <2>1. 22 \in Nat /\ 2 \in Nat /\ 24 = 22 + 2
    OBVIOUS
  <2> QED
    BY <1>4, <1>9, <2>1, ConcatBits, Zenon
<1> HIDE DEF c6
<1>11. c7 \in [1 .. 27 -> Bit] /\ Joined(c6, 24, b, 3, c7)
  <2>1. 24 \in Nat /\ 3 \in Nat /\ 27 = 24 + 3
    OBVIOUS
  <2> QED
    BY <1>3, <1>10, <2>1, ConcatBits, Zenon
<1> HIDE DEF c7
<1>12. c8 \in [1 .. 29 -> Bit] /\ Joined(c7, 27, <<0, 0>>, 2, c8)
  <2>1. 27 \in Nat /\ 2 \in Nat /\ 29 = 27 + 2
    OBVIOUS
  <2> QED
    BY <1>4, <1>11, <2>1, ConcatBits, Zenon
<1> HIDE DEF c8
<1>13. c9 \in [1 .. 31 -> Bit] /\ Joined(c8, 29, Zeros(2), 2, c9)
  <2>1. 29 \in Nat /\ 2 \in Nat /\ 31 = 29 + 2
    OBVIOUS
  <2> QED
    BY <1>4, <1>12, <2>1, ConcatBits, Zenon
<1> HIDE DEF c9
<1>14. c \in [1 .. 32 -> Bit] /\ Joined(c9, 31, <<0>>, 1, c)
  <2>1. 31 \in Nat /\ 1 \in Nat /\ 32 = 31 + 1
    OBVIOUS
  <2> QED
    BY <1>4, <1>13, <2>1, ConcatBits, Zenon
<1> HIDE DEF c
<1>15. \A i \in 1 .. 27 : c[i] = c7[i]
  BY <1>12, <1>13, <1>14 DEF Joined
<1>16. \A i \in 1 .. 20 : c[i] = c4[i]
  BY <1>9, <1>10, <1>11, <1>15 DEF Joined
<1>17. \A i \in 1 .. 14 : c[i] = c2[i]
  BY <1>7, <1>8, <1>16 DEF Joined
<1>18. c[28] = 0
  <2>1. c[28] = c9[28] /\ c9[28] = c8[28]
    BY <1>13, <1>14 DEF Joined
  <2>2. c8[27 + 1] = <<0, 0>>[1]
    BY <1>12 DEF Joined
  <2> QED
    BY <1>4, <2>1, <2>2
<1>19. c[12] = r[1] /\ c[13] = r[2] /\ c[14] = r[3]
  <2>1. c2[11 + 1] = r[1] /\ c2[11 + 2] = r[2] /\ c2[11 + 3] = r[3]
    BY <1>6 DEF Joined
  <2> QED
    BY <1>17, <2>1
<1>20. c[16] = m[1] /\ c[17] = m[2] /\ c[18] = m[3] /\ c[19] = m[4] /\ c[20] = m[5]
  <2>1. /\ c4[15 + 1] = m[1] /\ c4[15 + 2] = m[2] /\ c4[15 + 3] = m[3]
        /\ c4[15 + 4] = m[4] /\ c4[15 + 5] = m[5]
    BY <1>8 DEF Joined
  <2> QED
    BY <1>16, <2>1
<1>21. c[25] = b[1] /\ c[26] = b[2] /\ c[27] = b[3]
  <2>1. c7[24 + 1] = b[1] /\ c7[24 + 2] = b[2] /\ c7[24 + 3] = b[3]
    BY <1>11 DEF Joined
  <2> QED
    BY <1>15, <2>1
<1> QED
  BY <1>1, <1>3, <1>14, <1>18, <1>19, <1>20, <1>21 DEF Word

\* Every block of a program is a word, and the configuration asks for no password.
LEMMA BlockWordType ==
  ASSUME NEW p \in Program, NEW b \in 0 .. DataBlocks
  PROVE  BlockWord(p, b) \in Word /\ (b = 0 => BlockWord(p, b)[28] = 0)
<1>1. CASE b = 0
  BY <1>1, ConfigurationWord DEF BlockWord
<1>2. CASE b # 0
  <2> DEFINE image == Generate(p.token)
  <2>1. image \in [1 .. 64 -> Bit]
    BY GenerateType, Sizes DEF Program
  <2> HIDE DEF image
  <2>2. BlockWord(p, b) = [i \in 1 .. 32 |-> image[(b - 1) * 32 + i]]
    BY <1>2, Sizes DEF BlockWord, image
  <2>3. \A i \in 1 .. 32 : (b - 1) * 32 + i \in 1 .. 64
    BY <1>2, Sizes
  <2> QED
    BY <1>2, <2>1, <2>2, <2>3 DEF Word
<1> QED
  BY <1>1, <1>2
-----------------------------------------------------------------------------
(* Frames and pulses                                                       *)

FrameOf(p, b) == Frame(0, b, 0, <<>>, BlockWord(p, b))

IsFrame(f, word, b) ==
  /\ f \in [1 .. 38 -> Bit]
  /\ f[1] = 1 /\ f[2] = 0 /\ f[3] = 0
  /\ \A i \in 1 .. 32 : f[i + 3] = word[i]
  /\ 4 * f[36] + 2 * f[37] + f[38] = b

\* A write command: its opcode, no lock, the word and the address (T5557Encoder.cpp:92-106).
LEMMA FrameOfBlock ==
  ASSUME NEW p \in Program, NEW b \in 0 .. DataBlocks
  PROVE  IsFrame(FrameOf(p, b), BlockWord(p, b), b)
<1> DEFINE opcode == Lsb(1 + 2 * (0 % 2), 2)
           w  == BlockWord(p, b)
           a  == Msb(b, 3)
           f1 == opcode \o <<>>
           f2 == f1 \o <<0>>
           f3 == f2 \o w
           f  == f3 \o a
<1>1. FrameOf(p, b) = f
  BY DEF FrameOf, Frame
<1>2. /\ opcode \in [1 .. 2 -> Bit] /\ opcode[1] = 1 /\ opcode[2] = 0
  <2>1. 1 + 2 * (0 % 2) = 1 /\ 1 \in Nat /\ 2 \in 1 .. 5 /\ 2 \in Nat
    OBVIOUS
  <2>2. Msb(1, 2) \in [1 .. 2 -> Bit]
    BY <2>1, MsbType, Zenon
  <2>3. opcode = Reverse(Msb(1, 2))
    BY <2>1 DEF Lsb
  <2>4. Msb(1, 2)[1] = (1 \div 2) % 2 /\ Msb(1, 2)[2] = (1 \div 1) % 2
    BY WeightValues DEF Msb
  <2>5. (1 \div 2) % 2 = 0 /\ (1 \div 1) % 2 = 1
    OBVIOUS
  <2> HIDE DEF opcode
  <2>6. /\ opcode \in [1 .. 2 -> Bit]
        /\ \A i \in 1 .. 2 : opcode[i] = Msb(1, 2)[2 - i + 1]
    BY <2>1, <2>2, <2>3, ReverseBits, Zenon
  <2>7. opcode[1] = Msb(1, 2)[2 - 1 + 1] /\ opcode[2] = Msb(1, 2)[2 - 2 + 1]
    BY <2>6
  <2> QED
    BY <2>4, <2>5, <2>6, <2>7
<1>3. w \in [1 .. 32 -> Bit]
  BY BlockWordType DEF Word
<1>4. a \in [1 .. 3 -> Bit] /\ 4 * a[1] + 2 * a[2] + a[3] = b
  <2>1. b \in 0 .. 7 /\ b \in Nat /\ 3 \in 1 .. 5
    BY Sizes
  <2> QED
    BY <2>1, MsbType, MsbThree, Zenon
<1>5. <<0>> \in [1 .. 1 -> Bit] /\ <<>> \in [1 .. 0 -> Bit] /\ <<0>>[1] = 0
  BY DEF Bit
<1> HIDE DEF opcode, w, a
<1>6. f1 \in [1 .. 2 -> Bit] /\ Joined(opcode, 2, <<>>, 0, f1)
  <2>1. 2 \in Nat /\ 0 \in Nat /\ 2 = 2 + 0
    OBVIOUS
  <2> QED
    BY <1>2, <1>5, <2>1, ConcatBits, Zenon
<1> HIDE DEF f1
<1>7. f2 \in [1 .. 3 -> Bit] /\ Joined(f1, 2, <<0>>, 1, f2)
  <2>1. 2 \in Nat /\ 1 \in Nat /\ 3 = 2 + 1
    OBVIOUS
  <2> QED
    BY <1>5, <1>6, <2>1, ConcatBits, Zenon
<1> HIDE DEF f2
<1>8. f3 \in [1 .. 35 -> Bit] /\ Joined(f2, 3, w, 32, f3)
  <2>1. 3 \in Nat /\ 32 \in Nat /\ 35 = 3 + 32
    OBVIOUS
  <2> QED
    BY <1>3, <1>7, <2>1, ConcatBits, Zenon
<1> HIDE DEF f3
<1>9. f \in [1 .. 38 -> Bit] /\ Joined(f3, 35, a, 3, f)
  <2>1. 35 \in Nat /\ 3 \in Nat /\ 38 = 35 + 3
    OBVIOUS
  <2> QED
    BY <1>4, <1>8, <2>1, ConcatBits, Zenon
<1> HIDE DEF f
<1>10. f[1] = 1 /\ f[2] = 0 /\ f[3] = 0
  <2>1. \A i \in 1 .. 3 : f[i] = f2[i]
    BY <1>8, <1>9 DEF Joined
  <2>2. \A i \in 1 .. 2 : f2[i] = opcode[i]
    BY <1>6, <1>7 DEF Joined
  <2>3. f2[2 + 1] = <<0>>[1]
    BY <1>7 DEF Joined
  <2> QED
    BY <1>2, <1>5, <2>1, <2>2, <2>3
<1>11. ASSUME NEW i \in 1 .. 32 PROVE f[i + 3] = w[i]
  <2>1. f3[3 + i] = w[i]
    BY <1>8 DEF Joined
  <2>2. 3 + i \in 1 .. 35 /\ 3 + i = i + 3
    OBVIOUS
  <2>3. f[3 + i] = f3[3 + i]
    BY <1>9, <2>2 DEF Joined
  <2> QED
    BY <2>1, <2>2, <2>3
<1>12. 4 * f[36] + 2 * f[37] + f[38] = b
  <2>1. f[35 + 1] = a[1] /\ f[35 + 2] = a[2] /\ f[35 + 3] = a[3]
    BY <1>9 DEF Joined
  <2> QED
    BY <1>4, <2>1
<1> QED
  BY <1>1, <1>9, <1>10, <1>11, <1>12, Zenon DEF w, IsFrame

\* How long the field is on for a bit.
OnTime(bit) == IF bit = 1 THEN DataOne ELSE DataZero

\* What the pulses of a frame are
ArePulses(pulses, f) ==
  /\ Len(pulses) = 77 /\ DOMAIN pulses = 1 .. 77
  /\ pulses[1] = PulseOf(FALSE, 30)
  /\ \A j \in 1 .. 38 :
       /\ pulses[2 * j] = PulseOf(TRUE, OnTime(f[j]))
       /\ pulses[2 * j + 1] = PulseOf(FALSE, 19)

\* A frame opens with a gap, and every bit is the field and a gap
\* (T5557Encoder.cpp:37-64).
LEMMA PulsesOfBlock ==
  ASSUME NEW p \in Program, NEW b \in 0 .. DataBlocks
  PROVE  ArePulses(BlockPulses(p, b), FrameOf(p, b))
<1> DEFINE f == FrameOf(p, b)
           pulse(i) == IF i = 1 THEN PulseOf(FALSE, StartGap)
                       ELSE AddBit(f[i \div 2])[1 + (i % 2)]
           pulses == BlockPulses(p, b)
<1>1. (IF b = 0 THEN DefaultParameters.lock ELSE 0) = 0
  BY DEF DefaultParameters
<1>2. f \in [1 .. 38 -> Bit]
  BY FrameOfBlock, Zenon DEF IsFrame
<1>3. Len(f) = 38
  <2>1. 38 \in Nat
    OBVIOUS
  <2> QED
    BY <1>2, <2>1, BitsAreSequences, Zenon
<1>4. pulses = [i \in 1 .. 2 * Len(f) + 1 |-> pulse(i)]
  BY <1>1 DEF BlockPulses, EncodeBlock, FrameOf
<1>5. pulses = [i \in 1 .. 77 |-> pulse(i)]
  <2>1. 2 * Len(f) + 1 = 77
    BY <1>3
  <2> QED
    BY <1>4, <2>1
<1> HIDE DEF f, pulses
<1>6. Len(pulses) = 77 /\ DOMAIN pulses = 1 .. 77
  BY <1>5
<1>7. pulses[1] = PulseOf(FALSE, 30)
  BY <1>5, PulseLengths
<1>8. ASSUME NEW j \in 1 .. 38
      PROVE  /\ pulses[2 * j] = PulseOf(TRUE, OnTime(f[j]))
             /\ pulses[2 * j + 1] = PulseOf(FALSE, 19)
  <2>1. /\ 2 * j \in 1 .. 77 /\ 2 * j # 1
        /\ (2 * j) \div 2 = j /\ 1 + ((2 * j) % 2) = 1
    OBVIOUS
  <2>2. /\ 2 * j + 1 \in 1 .. 77 /\ 2 * j + 1 # 1
        /\ (2 * j + 1) \div 2 = j /\ 1 + ((2 * j + 1) % 2) = 2
    OBVIOUS
  <2>3. /\ AddBit(f[j])[1] = PulseOf(TRUE, OnTime(f[j]))
        /\ AddBit(f[j])[2] = PulseOf(FALSE, 19)
    BY PulseLengths DEF AddBit, OnTime
  <2>4. pulses[2 * j] = pulse(2 * j) /\ pulses[2 * j + 1] = pulse(2 * j + 1)
    BY <1>5, <2>1, <2>2
  <2> QED
    BY <2>1, <2>2, <2>3, <2>4
<1>9. ArePulses(pulses, f)
  BY <1>6, <1>7, <1>8, Zenon DEF ArePulses
<1> QED
  BY <1>9, Zenon DEF f, pulses

-----------------------------------------------------------------------------
(* putSamples                                                              *)

HasLengths(pulses) ==
  /\ IsFiniteSet(Lengths(pulses))
  /\ Lengths(pulses) \subseteq 19 .. 55
  /\ 19 \in Lengths(pulses)
  /\ \A i \in 1 .. 77 : pulses[i].length \in Lengths(pulses) /\ pulses[i].isHigh \in BOOLEAN

\* The lengths of a frame: the gap between two bits is the shortest, and all fit a byte.
LEMMA LengthsOfBlock ==
  ASSUME NEW p \in Program, NEW b \in 0 .. DataBlocks
  PROVE  HasLengths(BlockPulses(p, b))
<1> DEFINE pulses == BlockPulses(p, b)
           f == FrameOf(p, b)
<1>1. /\ DOMAIN pulses = 1 .. 77
      /\ pulses[1] = PulseOf(FALSE, 30)
      /\ \A j \in 1 .. 38 :
           /\ pulses[2 * j] = PulseOf(TRUE, OnTime(f[j]))
           /\ pulses[2 * j + 1] = PulseOf(FALSE, 19)
  <2>1. ArePulses(pulses, f)
    BY PulsesOfBlock, Zenon
  <2> HIDE DEF pulses, f
  <2> QED
    BY <2>1, Zenon DEF ArePulses
<1> HIDE DEF pulses, f
<1>2. ASSUME NEW i \in 1 .. 77
      PROVE  /\ pulses[i].length \in {19, 23, 30, 55}
             /\ pulses[i].isHigh \in BOOLEAN
  <2>1. CASE i = 1
    <3>1. pulses[i] = PulseOf(FALSE, 30)
      BY <1>1, <2>1
    <3> QED
      BY <3>1 DEF PulseOf
  <2>2. CASE i # 1 /\ i % 2 = 0
    <3>1. PICK j \in 1 .. 38 : i = 2 * j
      <4>1. i \div 2 \in 1 .. 38 /\ i = 2 * (i \div 2)
        BY <2>2
      <4> QED
        BY <4>1
    <3>2. pulses[i] = PulseOf(TRUE, OnTime(f[j]))
      BY <1>1, <3>1
    <3> QED
      BY <3>2, PulseLengths DEF PulseOf, OnTime
  <2>3. CASE i # 1 /\ i % 2 = 1
    <3>1. PICK j \in 1 .. 38 : i = 2 * j + 1
      <4>1. i \div 2 \in 1 .. 38 /\ i = 2 * (i \div 2) + 1
        BY <2>3
      <4> QED
        BY <4>1
    <3>2. pulses[i] = PulseOf(FALSE, 19)
      BY <1>1, <3>1
    <3> QED
      BY <3>2 DEF PulseOf
  <2> QED
    BY <2>1, <2>2, <2>3
<1>3. Lengths(pulses) \subseteq {19, 23, 30, 55}
  <2>1. Lengths(pulses) = {pulses[i].length : i \in 1 .. 77}
    BY <1>1, Zenon DEF Lengths
  <2>2. \A i \in 1 .. 77 : pulses[i].length \in {19, 23, 30, 55}
    BY <1>2
  <2> SUFFICES ASSUME NEW l \in Lengths(pulses) PROVE l \in {19, 23, 30, 55}
    OBVIOUS
  <2>3. PICK i \in 1 .. 77 : l = pulses[i].length
    BY <2>1
  <2> QED
    BY <2>2, <2>3
<1>4. \A i \in 1 .. 77 : pulses[i].length \in Lengths(pulses)
  BY <1>1 DEF Lengths
<1>5. 19 \in Lengths(pulses)
  <2>1. pulses[2 * 1 + 1] = PulseOf(FALSE, 19)
    <3>1. 1 \in 1 .. 38
      OBVIOUS
    <3> QED
      BY <1>1, <3>1, Zenon
  <2>2. pulses[3].length = 19
    BY <2>1 DEF PulseOf
  <2> QED
    BY <1>4, <2>2
<1>6. Lengths(pulses) \subseteq 19 .. 55
  <2>1. {19, 23, 30, 55} \subseteq 19 .. 55
    OBVIOUS
  <2> QED
    BY <1>3, <2>1, Zenon
<1>7. IsFiniteSet(Lengths(pulses))
  <2>1. IsFiniteSet(19 .. 55)
    <3> DEFINE low == 19  high == 55
    <3>1. low \in Int /\ high \in Int
      OBVIOUS
    <3> HIDE DEF low, high
    <3>2. IsFiniteSet(low .. high)
      BY <3>1, FS_Interval, Zenon
    <3> QED
      BY <3>2 DEF low, high
  <2> QED
    BY <1>6, <2>1, FS_Subset
<1>8. HasLengths(pulses)
  BY <1>2, <1>4, <1>5, <1>6, <1>7, Zenon DEF HasLengths
<1> QED
  BY <1>8 DEF pulses

\* A place is less than the number of lengths, and the shorter of two comes first.
LEMMA PositionOrder ==
  ASSUME NEW pulses, IsFiniteSet(Lengths(pulses)), Lengths(pulses) \subseteq Nat
  PROVE  /\ \A l \in Lengths(pulses) :
              Position(pulses, l) \in 0 .. (Cardinality(Lengths(pulses)) - 1)
         /\ \A l, m \in Lengths(pulses) :
              l < m => Position(pulses, l) < Position(pulses, m)
<1> DEFINE lengths == Lengths(pulses)
           below(l) == {x \in lengths : x < l}
<1>1. Cardinality(lengths) \in Nat
  BY FS_CardinalityType
<1>2. ASSUME NEW l \in lengths, NEW s \in SUBSET lengths, l \in s, IsFiniteSet(s),
             below(l) \subseteq s
      PROVE  Cardinality(below(l)) \in Nat /\ Cardinality(below(l)) < Cardinality(s)
  <2>1. /\ Cardinality(below(l)) \in Nat /\ Cardinality(s) \in Nat
        /\ Cardinality(below(l)) <= Cardinality(s)
        /\ Cardinality(below(l)) = Cardinality(s) => below(l) = s
    BY <1>2, FS_Subset, FS_CardinalityType
  <2>2. l \notin below(l)
    OBVIOUS
  <2>3. Cardinality(below(l)) # Cardinality(s)
    BY <1>2, <2>1, <2>2
  <2> QED
    BY <2>1, <2>3
<1>3. ASSUME NEW l \in lengths
      PROVE  Position(pulses, l) \in 0 .. (Cardinality(lengths) - 1)
  <2>1. Cardinality(below(l)) \in Nat /\ Cardinality(below(l)) < Cardinality(lengths)
    BY <1>2
  <2>2. Position(pulses, l) = Cardinality(below(l))
    BY DEF Position
  <2> QED
    BY <1>1, <2>1, <2>2
<1>4. ASSUME NEW l \in lengths, NEW m \in lengths, l < m
      PROVE  Position(pulses, l) < Position(pulses, m)
  <2>1. l \in below(m) /\ below(l) \subseteq below(m) /\ below(m) \subseteq lengths
    BY <1>4
  <2>2. IsFiniteSet(below(m))
    BY <2>1, FS_Subset
  <2>3. Cardinality(below(l)) < Cardinality(below(m))
    BY <1>2, <2>1, <2>2
  <2> QED
    BY <2>3 DEF Position
<1> QED
  BY <1>3, <1>4

HoldsLengths(vector, pulses) ==
  /\ vector \in [1 .. PulseSlots -> 0 .. 255]
  /\ \A l \in Lengths(pulses) :
       /\ Position(pulses, l) \in 0 .. 6
       /\ Position(pulses, l) + 1 \in 1 .. PulseSlots
       /\ vector[Position(pulses, l) + 1] = l
  /\ vector[1] = 19

\* The pulse vector is a vector of bytes that has every length of the frame at its place
\* (InterfaceUsbImpl.cpp:388-400).
LEMMA VectorHoldsLengths ==
  ASSUME NEW p \in Program, NEW b \in 0 .. DataBlocks, ~TooManyPulses(BlockPulses(p, b))
  PROVE  HoldsLengths(PulseVector(BlockPulses(p, b)), BlockPulses(p, b))
<1> DEFINE pulses == BlockPulses(p, b)
           lengths == Lengths(pulses)
           at(i) == {l \in lengths : Position(pulses, l) = i - 1}
<1>1. IsFiniteSet(lengths) /\ lengths \subseteq 19 .. 55 /\ 19 \in lengths
  BY LengthsOfBlock, Zenon DEF HasLengths
<1>2. lengths \subseteq Nat
  BY <1>1
<1>3. Cardinality(lengths) \in Nat /\ Cardinality(lengths) <= PulseSlots
  BY <1>1, FS_CardinalityType, WriteAssumption DEF TooManyPulses
<1>4. /\ \A l \in lengths : Position(pulses, l) \in 0 .. (Cardinality(lengths) - 1)
      /\ \A l, m \in lengths : l < m => Position(pulses, l) < Position(pulses, m)
  BY <1>1, <1>2, PositionOrder
<1> HIDE DEF pulses
<1>5. \A l \in lengths :
        Position(pulses, l) \in 0 .. 6 /\ Position(pulses, l) + 1 \in 1 .. PulseSlots
  BY <1>3, <1>4, WriteAssumption
<1>6. \A l, m \in lengths : Position(pulses, l) = Position(pulses, m) => l = m
  <2> SUFFICES ASSUME NEW l \in lengths, NEW m \in lengths,
                      Position(pulses, l) = Position(pulses, m), l # m
               PROVE  FALSE
    OBVIOUS
  <2>1. l < m \/ m < l
    BY <1>2
  <2>2. Position(pulses, l) \in Int /\ Position(pulses, m) \in Int
    BY <1>5
  <2> QED
    BY <1>4, <2>1, <2>2
<1>7. PulseVector(pulses) =
        [i \in 1 .. PulseSlots |->
           IF \E l \in lengths : Position(pulses, l) = i - 1
           THEN CHOOSE l \in lengths : Position(pulses, l) = i - 1 ELSE 0]
  BY DEF PulseVector
<1> HIDE DEF lengths
<1>8. PulseVector(pulses) \in [1 .. PulseSlots -> 0 .. 255]
  <2>1. ASSUME NEW i \in 1 .. PulseSlots, \E l \in lengths : Position(pulses, l) = i - 1
        PROVE  (CHOOSE l \in lengths : Position(pulses, l) = i - 1) \in lengths
    BY <2>1
  <2>2. \A l \in lengths : l \in 0 .. 255
    BY <1>1
  <2>3. ASSUME NEW i \in 1 .. PulseSlots PROVE PulseVector(pulses)[i] \in 0 .. 255
    <3>1. CASE \E l \in lengths : Position(pulses, l) = i - 1
      BY <1>7, <2>1, <2>2, <3>1, Zenon
    <3>2. CASE ~\E l \in lengths : Position(pulses, l) = i - 1
      <4>1. PulseVector(pulses)[i] = 0
        BY <1>7, <3>2, Zenon
      <4> QED
        BY <4>1
    <3> QED
      BY <3>1, <3>2
  <2> QED
    BY <1>7, <2>3
<1>9. ASSUME NEW l \in lengths
      PROVE  PulseVector(pulses)[Position(pulses, l) + 1] = l
  <2> DEFINE i == Position(pulses, l) + 1
             m == CHOOSE x \in lengths : Position(pulses, x) = i - 1
  <2>1. i \in 1 .. PulseSlots /\ Position(pulses, l) = i - 1
    BY <1>5
  <2>2. PulseVector(pulses)[i] = m
    BY <1>7, <2>1
  <2>3. m \in lengths /\ Position(pulses, m) = i - 1
    BY <2>1
  <2> HIDE DEF i, m
  <2>4. m = l
    BY <1>6, <2>1, <2>3
  <2> QED
    BY <2>2, <2>4 DEF i
<1>10. PulseVector(pulses)[1] = 19
  <2>1. {l \in lengths : l < 19} = {}
    <3>1. ASSUME NEW l \in lengths PROVE ~(l < 19)
      <4>1. l \in 19 .. 55
        BY <1>1
      <4> QED
        BY <4>1
    <3> QED
      BY <3>1
  <2>2. Position(pulses, 19) = 0
    BY <2>1, FS_EmptySet DEF Position, lengths
  <2> QED
    BY <1>1, <1>9, <2>2
<1>11. HoldsLengths(PulseVector(pulses), pulses)
  BY <1>5, <1>8, <1>9, <1>10, Zenon DEF HoldsLengths, lengths
<1> QED
  BY <1>11 DEF pulses

ArePacked(nibbles, pulses) ==
  /\ nibbles \in [1 .. BufferNibbles -> 0 .. 15]
  /\ \A i \in 1 .. 77 : nibbles[i] = Value(pulses, i)
  /\ nibbles[78] = 0
  /\ 79 <= BufferNibbles => nibbles[79] = 15

\* The nibbles and their type (InterfaceUsbImpl.cpp:402-420).
LEMMA PackedType ==
  ASSUME NEW p \in Program, NEW b \in 0 .. DataBlocks, ~TooManyPulses(BlockPulses(p, b))
  PROVE  ArePacked(Packed(BlockPulses(p, b)), BlockPulses(p, b))
<1> DEFINE pulses == BlockPulses(p, b)
           nibble(i) == IF i <= 77 THEN Value(pulses, i)
                        ELSE IF i = 78 /\ i % 2 = 0 THEN 0 ELSE 15
<1>1. Packed(pulses) = [i \in 1 .. BufferNibbles |-> nibble(i)]
  <2>1. Len(pulses) = 77
    BY PulsesOfBlock, Zenon DEF ArePulses
  <2> HIDE DEF pulses
  <2> QED
    BY <2>1 DEF Packed
<1>2. ASSUME NEW i \in 1 .. 77 PROVE Value(pulses, i) \in 0 .. 15
  <2>1. HasLengths(pulses) /\ HoldsLengths(PulseVector(pulses), pulses)
    BY LengthsOfBlock, VectorHoldsLengths, Zenon
  <2> HIDE DEF pulses
  <2>2. Position(pulses, pulses[i].length) \in 0 .. 6
    BY <2>1, Zenon DEF HasLengths, HoldsLengths
  <2> QED
    BY <2>2 DEF Value
<1>3. BufferNibbles \in Nat /\ BufferNibbles >= 78
  BY WriteAssumption
<1> HIDE DEF pulses
<1>4. Packed(pulses) \in [1 .. BufferNibbles -> 0 .. 15]
  <2>1. ASSUME NEW i \in 1 .. BufferNibbles PROVE nibble(i) \in 0 .. 15
    BY <1>2
  <2> HIDE DEF nibble
  <2> QED
    BY <1>1, <2>1
<1>5. \A i \in 1 .. 77 : Packed(pulses)[i] = Value(pulses, i)
  BY <1>1, <1>3
<1>6. Packed(pulses)[78] = 0
  BY <1>1, <1>3
<1>7. 79 <= BufferNibbles => Packed(pulses)[79] = 15
  BY <1>1, <1>3
<1>8. ArePacked(Packed(pulses), pulses)
  BY <1>4, <1>5, <1>6, <1>7, Zenon DEF ArePacked
<1> QED
  BY <1>8 DEF pulses

IsPulse(nibble, vector, pulse) ==
  /\ nibble % 8 \in 0 .. 6
  /\ vector[(nibble % 8) + 1] = pulse.length
  /\ pulse.length \in 19 .. 55
  /\ nibble >= 8 <=> pulse.isHigh

\* What the interrupt finds in the buffer is the pulse that was packed
\* (InterfaceUsbImpl.cpp:410, main.c:142-172).
LEMMA PackedPulse ==
  ASSUME NEW p \in Program, NEW b \in 0 .. DataBlocks, ~TooManyPulses(BlockPulses(p, b)),
         NEW i \in 1 .. 77
  PROVE  IsPulse(Packed(BlockPulses(p, b))[i], PulseVector(BlockPulses(p, b)),
                 BlockPulses(p, b)[i])
<1> DEFINE pulses == BlockPulses(p, b)
           nibble == Packed(pulses)[i]
           place == Position(pulses, pulses[i].length)
<1>1. /\ pulses[i].length \in Lengths(pulses) /\ Lengths(pulses) \subseteq 19 .. 55
      /\ pulses[i].isHigh \in BOOLEAN
  BY LengthsOfBlock, Zenon DEF HasLengths
<1>2. place \in 0 .. 6 /\ PulseVector(pulses)[place + 1] = pulses[i].length
  BY <1>1, VectorHoldsLengths, Zenon DEF HoldsLengths
<1>3. nibble = Value(pulses, i)
  BY PackedType, Zenon DEF ArePacked
<1>4. nibble = (IF pulses[i].isHigh THEN 8 ELSE 0) + place
  BY <1>3 DEF Value
<1> HIDE DEF nibble, place, pulses
<1>5. ASSUME pulses[i].isHigh PROVE IsPulse(nibble, PulseVector(pulses), pulses[i])
  <2>1. nibble = 8 + place
    BY <1>4, <1>5
  <2>2. nibble % 8 = place /\ nibble >= 8
    BY <1>2, <2>1
  <2> QED
    BY <1>1, <1>2, <1>5, <2>2 DEF IsPulse
<1>6. ASSUME ~pulses[i].isHigh PROVE IsPulse(nibble, PulseVector(pulses), pulses[i])
  <2>1. nibble = 0 + place
    BY <1>4, <1>6
  <2>2. nibble % 8 = place /\ ~(nibble >= 8)
    BY <1>2, <2>1
  <2> QED
    BY <1>1, <1>2, <1>6, <2>2 DEF IsPulse
<1> QED
  BY <1>5, <1>6, Zenon DEF nibble, pulses

-----------------------------------------------------------------------------
(* The tag, while a frame is played                                        *)

\* The first n bits of a frame.
Prefix(f, n) == [i \in 1 .. n |-> f[i]]

LEMMA PrefixAppend ==
  ASSUME NEW m \in Nat, NEW f \in [1 .. m -> Bit], NEW n \in 0 .. (m - 1)
  PROVE  Append(Prefix(f, n), f[n + 1]) = Prefix(f, n + 1)
<1> DEFINE s == Prefix(f, n)
           t == Prefix(f, n + 1)
           u == Append(s, f[n + 1])
<1>1. s \in [1 .. n -> Bit] /\ t \in [1 .. (n + 1) -> Bit]
  BY DEF Prefix
<1>2. /\ s \in Seq(Bit) /\ Len(s) = n
      /\ t \in Seq(Bit) /\ Len(t) = n + 1
  <2>1. n \in Nat /\ n + 1 \in Nat
    OBVIOUS
  <2> QED
    BY <1>1, <2>1, BitsAreSequences, Zenon
<1>3. f[n + 1] \in Bit
  OBVIOUS
<1>4. /\ \A i \in 1 .. n : s[i] = f[i]
      /\ \A i \in 1 .. (n + 1) : t[i] = f[i]
  BY DEF Prefix
<1> HIDE DEF s, t
<1>5. /\ u \in Seq(Bit) /\ Len(u) = n + 1
      /\ \A i \in 1 .. (n + 1) : u[i] = t[i]
  <2>1. u \in Seq(Bit) /\ Len(u) = n + 1
    BY <1>2, <1>3
  <2>2. ASSUME NEW i \in 1 .. (n + 1) PROVE u[i] = t[i]
    <3>1. CASE i = n + 1
      BY <1>2, <1>3, <1>4, <3>1
    <3>2. CASE i \in 1 .. n
      BY <1>2, <1>3, <1>4, <3>2
    <3>3. i = n + 1 \/ i \in 1 .. n
      OBVIOUS
    <3> QED
      BY <3>1, <3>2, <3>3
  <2> QED
    BY <2>1, <2>2
<1> HIDE DEF u
<1>6. u = t
  BY <1>2, <1>5, SeqEqual
<1> QED
  BY <1>6 DEF u, s, t

LEMMA PrefixZero == \A f : Prefix(f, 0) = <<>>
BY DEF Prefix

LEMMA PrefixAll ==
  ASSUME NEW m \in Nat, NEW f \in [1 .. m -> Bit]
  PROVE  Prefix(f, m) = f
BY DEF Prefix

\* Of the first k pulses, the last of which may be the extra nibble of the packing, the tag
\* has heard the bits up to the last gap that has ended.
HeardLen(k) == IF k < 2 THEN 0 ELSE IF k <= 77 THEN (k \div 2) - 1 ELSE 37

PlayedTag(memory, f, k) ==
  [memory |-> memory, locked |-> {}, heard |-> Prefix(f, HeardLen(k)),
   on  |-> IF k < 2 THEN 0 ELSE OnTime(f[HeardLen(k) + 1]),
   off |-> IF k = 0 THEN 0 ELSE IF k = 1 THEN 30 ELSE IF k = 78 THEN 38
           ELSE IF k % 2 = 0 THEN 0 ELSE 19]

\* The tag takes the length of the field for the bit it was made of.
LEMMA HeardBit ==
  ASSUME NEW bit \in Bit
  PROVE  BitHeard(OnTime(bit)) = bit /\ OnTime(bit) \in {23, 55}
<1>1. CASE bit = 0
  BY <1>1, PulseLengths DEF OnTime, BitHeard
<1>2. CASE bit = 1
  BY <1>2, PulseLengths DEF OnTime, BitHeard
<1> QED
  BY <1>1, <1>2 DEF Bit

\* The gap that opens a frame.
LEMMA FirstPulse ==
  ASSUME NEW memory, NEW f \in [1 .. 38 -> Bit]
  PROVE  FieldOff(PlayedTag(memory, f, 0), 30) = PlayedTag(memory, f, 1)
BY DEF FieldOff, PlayedTag, HeardLen

\* The field comes back for bit j.
LEMMA HighPulse ==
  ASSUME NEW memory, NEW f \in [1 .. 38 -> Bit], NEW j \in 1 .. 38
  PROVE  FieldOn(PlayedTag(memory, f, 2 * j - 1), OnTime(f[j])) = PlayedTag(memory, f, 2 * j)
<1> DEFINE k == 2 * j - 1
           t == PlayedTag(memory, f, k)
<1>1. /\ k \in 1 .. 75
      /\ 2 * j \in 2 .. 76 /\ (2 * j) \div 2 = j /\ (2 * j) % 2 = 0
      /\ k % 2 = 1 /\ k # 0
  OBVIOUS
<1>2. HeardLen(2 * j) = j - 1
  BY <1>1 DEF HeardLen
<1>3. CASE j = 1
  <2>1. HeardLen(k) = 0 /\ k = 1
    BY <1>3 DEF HeardLen
  <2>2. /\ t.memory = memory /\ t.locked = {} /\ t.heard = Prefix(f, 0)
        /\ t.on = 0 /\ t.off = 30
    BY <2>1 DEF PlayedTag
  <2> HIDE DEF t
  <2>3. FieldOn(t, OnTime(f[j])) =
          [memory |-> memory, locked |-> {}, heard |-> Prefix(f, 0), on |-> OnTime(f[1]),
           off |-> 0]
    BY <1>3, <2>2 DEF FieldOn
  <2>4. PlayedTag(memory, f, 2) =
          [memory |-> memory, locked |-> {}, heard |-> Prefix(f, 0), on |-> OnTime(f[1]),
           off |-> 0]
    BY <1>2, <1>3 DEF PlayedTag, HeardLen
  <2> QED
    BY <1>3, <2>3, <2>4 DEF t
<1>4. CASE j # 1
  <2>1. k \in 3 .. 75 /\ k \div 2 = j - 1 /\ j - 2 \in 0 .. 36 /\ (j - 2) + 1 = j - 1
    BY <1>4
  <2>2. HeardLen(k) = j - 2
    BY <2>1 DEF HeardLen
  <2>3. /\ t.memory = memory /\ t.locked = {} /\ t.heard = Prefix(f, j - 2)
        /\ t.on = OnTime(f[j - 1]) /\ t.off = 19
    BY <1>1, <2>1, <2>2 DEF PlayedTag
  <2>4. BitHeard(OnTime(f[j - 1])) = f[j - 1] /\ OnTime(f[j - 1]) # 0
    <3>1. j - 1 \in 1 .. 38
      BY <1>4
    <3>2. f[j - 1] \in Bit
      BY <3>1
    <3> QED
      BY <3>2, HeardBit
  <2>5. Append(Prefix(f, j - 2), f[j - 1]) = Prefix(f, j - 1)
    <3>1. 38 \in Nat /\ j - 2 \in 0 .. (38 - 1)
      BY <2>1
    <3>2. Append(Prefix(f, j - 2), f[(j - 2) + 1]) = Prefix(f, (j - 2) + 1)
      BY <3>1, PrefixAppend, Zenon
    <3> QED
      BY <2>1, <3>2
  <2> HIDE DEF t
  <2>6. FieldOn(t, OnTime(f[j])) =
          [memory |-> memory, locked |-> {}, heard |-> Prefix(f, j - 1),
           on |-> OnTime(f[j]), off |-> 0]
    <3> DEFINE heard == IF t.off >= 8 /\ t.on # 0 THEN Append(t.heard, BitHeard(t.on))
                        ELSE t.heard
    <3>1. heard = Prefix(f, j - 1)
      BY <2>3, <2>4, <2>5
    <3>2. FieldOn(t, OnTime(f[j])) =
            [memory |-> t.memory, locked |-> t.locked, heard |-> heard,
             on |-> IF t.off >= 8 THEN OnTime(f[j]) ELSE t.on + t.off + OnTime(f[j]),
             off |-> 0]
      BY DEF FieldOn
    <3> HIDE DEF heard
    <3> QED
      BY <2>3, <3>1, <3>2
  <2>7. PlayedTag(memory, f, 2 * j) =
          [memory |-> memory, locked |-> {}, heard |-> Prefix(f, j - 1),
           on |-> OnTime(f[j]), off |-> 0]
    <3>1. (j - 1) + 1 = j
      OBVIOUS
    <3> QED
      BY <1>1, <1>2, <3>1 DEF PlayedTag
  <2> QED
    BY <2>6, <2>7 DEF t
<1> QED
  BY <1>3, <1>4

\* The gap after bit j; after the last one it may be played twice.
LEMMA LowPulse ==
  ASSUME NEW memory, NEW f \in [1 .. 38 -> Bit], NEW k \in 2 .. 77,
         k % 2 = 0 \/ k = 77
  PROVE  FieldOff(PlayedTag(memory, f, k), 19) = PlayedTag(memory, f, k + 1)
<1>1. CASE k = 77
  BY <1>1 DEF FieldOff, PlayedTag, HeardLen
<1>2. CASE k \in 2 .. 76 /\ k % 2 = 0
  <2>1. (k + 1) \div 2 = k \div 2 /\ (k + 1) % 2 = 1 /\ k + 1 \in 3 .. 77
    BY <1>2
  <2>2. HeardLen(k + 1) = HeardLen(k)
    BY <1>2, <2>1 DEF HeardLen
  <2> DEFINE t == PlayedTag(memory, f, k)
             u == PlayedTag(memory, f, k + 1)
  <2>3. /\ t = [memory |-> memory, locked |-> {}, heard |-> Prefix(f, HeardLen(k)),
                on |-> OnTime(f[HeardLen(k) + 1]), off |-> 0]
        /\ u = [memory |-> memory, locked |-> {}, heard |-> Prefix(f, HeardLen(k)),
                on |-> OnTime(f[HeardLen(k) + 1]), off |-> 19]
    BY <1>2, <2>1, <2>2 DEF PlayedTag
  <2> HIDE DEF t, u
  <2>4. FieldOff(t, 19) = u
    BY <2>3 DEF FieldOff
  <2> QED
    BY <2>4 DEF t, u
<1> QED
  BY <1>1, <1>2

\* A frame heard to its end writes its word to its block, and nothing else.
LEMMA FrameEvaluated ==
  ASSUME NEW p \in Program, NEW b \in 0 .. DataBlocks,
         NEW memory \in [0 .. 7 -> Word], memory[0][28] = 0
  PROVE  Evaluate(FieldOn(PlayedTag(memory, FrameOf(p, b), 78), 0)) =
           Deaf([memory EXCEPT ![b] = BlockWord(p, b)], {})
<1> DEFINE f == FrameOf(p, b)
           t == FieldOn(PlayedTag(memory, f, 78), 0)
<1>1. /\ f \in [1 .. 38 -> Bit]
      /\ f[1] = 1 /\ f[2] = 0 /\ f[3] = 0
      /\ \A i \in 1 .. 32 : f[i + 3] = BlockWord(p, b)[i]
      /\ 4 * f[36] + 2 * f[37] + f[38] = b
  BY FrameOfBlock, Zenon DEF IsFrame
<1> HIDE DEF f
<1>2. t.heard = f /\ t.memory = memory /\ t.locked = {}
  <2> DEFINE u == PlayedTag(memory, f, 78)
  <2>1. /\ u.memory = memory /\ u.locked = {} /\ u.heard = Prefix(f, 37)
        /\ u.on = OnTime(f[38]) /\ u.off = 38
    BY DEF PlayedTag, HeardLen
  <2> HIDE DEF u
  <2>2. f[38] \in Bit
    BY <1>1
  <2>3. BitHeard(OnTime(f[38])) = f[38] /\ OnTime(f[38]) # 0
    BY <2>2, HeardBit
  <2>4. Append(Prefix(f, 37), f[38]) = f
    <3> DEFINE m == 38  n == 37
    <3>1. m \in Nat /\ n \in 0 .. (m - 1) /\ n + 1 = m /\ f \in [1 .. m -> Bit]
      BY <1>1
    <3> HIDE DEF m, n
    <3>2. Append(Prefix(f, n), f[n + 1]) = Prefix(f, n + 1)
      BY <3>1, PrefixAppend, Zenon
    <3>3. Prefix(f, m) = f
      BY <3>1, PrefixAll, Zenon
    <3>4. Append(Prefix(f, n), f[m]) = f
      BY <3>1, <3>2, <3>3, Zenon
    <3> QED
      BY <3>4 DEF m, n
  <2>5. t = FieldOn(u, 0)
    BY DEF u
  <2> HIDE DEF t
  <2> QED
    BY <2>1, <2>3, <2>4, <2>5 DEF FieldOn
<1> HIDE DEF t
<1> DEFINE word == [i \in 1 .. WordBits |-> f[i + 3]]
<1>3. word = BlockWord(p, b)
  <2>1. BlockWord(p, b) \in [1 .. 32 -> Bit]
    BY BlockWordType DEF Word
  <2> QED
    BY <1>1, <2>1, Sizes
<1>4. Len(f) = FrameBits
  <2> DEFINE m == 38
  <2>1. m \in Nat /\ f \in [1 .. m -> Bit] /\ FrameBits = m
    BY <1>1, Sizes
  <2> HIDE DEF m
  <2> QED
    BY <2>1, BitsAreSequences, Zenon
<1>5. 2 \notin {f[i] : i \in DOMAIN f}
  BY <1>1 DEF Bit
<1>6. ~NeedsPassword(t)
  BY <1>2 DEF NeedsPassword
<1>7. /\ FrameBits - 2 = 36 /\ FrameBits - 1 = 37 /\ FrameBits = 38
  BY Sizes
<1> DEFINE address == 4 * f[FrameBits - 2] + 2 * f[FrameBits - 1] + f[FrameBits]
           lock == IF f[3] = 1 THEN {address} ELSE {}
<1>8. address = b /\ lock = {}
  BY <1>1, <1>7
<1>9. Evaluate(t) =
        IF /\ Len(f) = FrameBits /\ 2 \notin {f[i] : i \in DOMAIN f}
           /\ f[1] = 1 /\ f[2] = 0
           /\ ~NeedsPassword(t) /\ address \notin {}
        THEN Deaf([memory EXCEPT ![address] = word], {} \cup lock)
        ELSE Deaf(memory, {})
  BY <1>2 DEF Evaluate
<1> HIDE DEF address, lock, word
<1>10. Evaluate(t) = Deaf([memory EXCEPT ![b] = word], {})
  BY <1>1, <1>4, <1>5, <1>6, <1>8, <1>9
<1> QED
  BY <1>3, <1>10 DEF t, f
-----------------------------------------------------------------------------
(***************************************************************************)
(* The invariant.  The memory of the tag is told by the block in hand, and *)
(* what the tag hears by how far the player is.                            *)
(***************************************************************************)

\* The memory when the first n blocks of the program are written.
Written(p, old, n) == [b \in 0 .. 7 |-> IF b < n THEN BlockWord(p, b) ELSE old[b]]

HostInv ==
  /\ pc \in {"away", "encode", "play", "answer"} /\ exit \in {-1, 0, 1}
  /\ program \in Programs /\ block \in 0 .. DataBlocks

MemoryInv ==
  /\ before \in [0 .. 7 -> Word] /\ before[0][28] = 0
  /\ pc \in {"encode", "play"} => tag.memory = Written(program, before, block)
  /\ pc = "answer" => tag.memory = Written(program, before, block + 1)
  /\ pc = "away" => \E n \in 0 .. 3 : tag.memory = Written(program, before, n)
  /\ pc = "away" /\ exit = 0 => tag.memory = Written(program, before, 3)

PlayerInv ==
  /\ sampleVector \in [1 .. PulseSlots -> 0 .. 255]
  /\ ioBuffer \in [1 .. BufferNibbles -> 0 .. 15]
  /\ opOffset \in 0 .. 78 /\ OCR0A \in 0 .. 255
  /\ pc = "play" =>
       /\ ~TooManyPulses(BlockPulses(program, block))
       /\ sampleVector = PulseVector(BlockPulses(program, block))
       /\ ioBuffer = Packed(BlockPulses(program, block))
       /\ tag = PlayedTag(tag.memory, FrameOf(program, block), opOffset)
  /\ pc # "play" => tag = Deaf(tag.memory, {})

IInv == HostInv /\ MemoryInv /\ PlayerInv

\* What is written is words, and never asks for a password.
LEMMA WrittenType ==
  ASSUME NEW p \in Program, NEW old \in [0 .. 7 -> Word], old[0][28] = 0, NEW n \in 0 .. 3
  PROVE  Written(p, old, n) \in [0 .. 7 -> Word] /\ Written(p, old, n)[0][28] = 0
<1>1. ASSUME NEW b \in 0 .. 7, b < n
      PROVE  BlockWord(p, b) \in Word /\ (b = 0 => BlockWord(p, b)[28] = 0)
  <2>1. b \in 0 .. DataBlocks
    BY <1>1, Sizes
  <2> QED
    BY <2>1, BlockWordType
<1> QED
  BY <1>1 DEF Written

\* Writing block n is writing one more.
LEMMA WrittenNext ==
  ASSUME NEW p \in Program, NEW old, NEW n \in 0 .. 2
  PROVE  [Written(p, old, n) EXCEPT ![n] = BlockWord(p, n)] = Written(p, old, n + 1)
<1> DEFINE s == Written(p, old, n)
           t == Written(p, old, n + 1)
           w == BlockWord(p, n)
<1>1. /\ s = [b \in 0 .. 7 |-> IF b < n THEN BlockWord(p, b) ELSE old[b]]
      /\ t = [b \in 0 .. 7 |-> IF b < n + 1 THEN BlockWord(p, b) ELSE old[b]]
  BY DEF Written
<1> HIDE DEF s, t, w
<1>2. ASSUME NEW b \in 0 .. 7 PROVE t[b] = IF b = n THEN w ELSE s[b]
  <2>1. CASE b = n
    <3>1. b < n + 1
      BY <2>1
    <3> QED
      BY <1>1, <2>1, <3>1 DEF w
  <2>2. CASE b # n
    <3>1. b < n + 1 <=> b < n
      BY <2>2
    <3> QED
      BY <1>1, <2>2, <3>1
  <2> QED
    BY <2>1, <2>2
<1>3. n \in 0 .. 7 /\ DOMAIN s = 0 .. 7 /\ DOMAIN t = 0 .. 7
  BY <1>1
<1>4. [s EXCEPT ![n] = w] = [b \in 0 .. 7 |-> IF b = n THEN w ELSE s[b]]
  BY <1>3
<1>5. t = [b \in 0 .. 7 |-> IF b = n THEN w ELSE s[b]]
  <2>1. t = [b \in 0 .. 7 |-> t[b]]
    BY <1>1
  <2> QED
    BY <1>2, <2>1
<1> QED
  BY <1>4, <1>5 DEF s, t, w

\* In every state of the invariant the memory is words without a password.
LEMMA MemoryType ==
  ASSUME IInv
  PROVE  /\ tag.memory \in [0 .. 7 -> Word] /\ tag.memory[0][28] = 0
         /\ program \in Program
         /\ block \in 0 .. DataBlocks /\ block \in 0 .. 2
<1>1. program \in Program /\ block \in 0 .. 2 /\ block \in 0 .. DataBlocks
  BY ProgramsAssumption, Sizes DEF IInv, HostInv
<1>2. \E n \in 0 .. 3 : tag.memory = Written(program, before, n)
  <2>1. block \in 0 .. 3 /\ block + 1 \in 0 .. 3
    BY <1>1
  <2> QED
    BY <2>1 DEF IInv, HostInv, MemoryInv
<1> QED
  BY <1>1, <1>2, WrittenType DEF IInv, MemoryInv

\* The initial tag is blank.
LEMMA InitIInv == Init => IInv
<1> SUFFICES ASSUME Init PROVE IInv
  OBVIOUS
<1>1. tag = Deaf([b \in 0 .. 7 |-> Blank], {}) /\ tag.memory = [b \in 0 .. 7 |-> Blank]
  BY DEF Init, Deaf
<1>2. before = [b \in 0 .. 7 |-> Blank]
  BY <1>1 DEF Init
<1>3. Blank \in Word /\ Blank[28] = 0
  <2>1. Blank \in [1 .. 32 -> Bit] /\ \A i \in 1 .. 32 : Blank[i] = 0
    <3>1. 32 \in Nat /\ WordBits = 32
      BY Sizes
    <3> QED
      BY <3>1, ZerosType DEF Blank
  <2> QED
    BY <2>1 DEF Word
<1>4. tag.memory = Written(program, before, 0)
  BY <1>1, <1>2 DEF Written
<1>5. HostInv
  BY Sizes DEF Init, HostInv
<1>6. MemoryInv
  <2>1. 0 \in 0 .. 3 /\ exit = 1 /\ pc = "away"
    BY DEF Init
  <2> QED
    BY <1>2, <1>3, <1>4, <2>1 DEF MemoryInv
<1>7. PlayerInv
  BY <1>1, ZerosType, WriteAssumption DEF Init, PlayerInv, Zeros
<1> QED
  BY <1>5, <1>6, <1>7 DEF IInv

-----------------------------------------------------------------------------
(* One step                                                                *)

\* Off the player, a step that leaves the player's variables alone keeps its part.
LEMMA PlayerIdle ==
  ASSUME IInv, pc # "play", pc' # "play",
         UNCHANGED <<sampleVector, ioBuffer, opOffset, OCR0A, tag>>
  PROVE  PlayerInv'
BY DEF IInv, PlayerInv

LEMMA LaunchStep ==
  ASSUME IInv, NEW p \in Programs, Launch(p)
  PROVE  IInv'
<1>1. HostInv'
  BY Sizes DEF Launch, HostInv
<1>2. before' = tag.memory /\ tag' = tag /\ pc' = "encode" /\ block' = 0
  BY DEF Launch
<1>3. MemoryInv'
  <2>1. tag.memory \in [0 .. 7 -> Word] /\ tag.memory[0][28] = 0
    BY MemoryType
  <2>2. Written(program, before, block)' = tag.memory
    BY <1>2, <2>1 DEF Written
  <2> QED
    BY <1>2, <2>1, <2>2 DEF MemoryInv
<1>4. PlayerInv'
  BY PlayerIdle DEF Launch
<1> QED
  BY <1>1, <1>3, <1>4 DEF IInv

LEMMA PutSamplesStep ==
  ASSUME IInv, PutSamples
  PROVE  IInv'
<1> DEFINE pulses == BlockPulses(program, block)
<1>1. program \in Program /\ block \in 0 .. DataBlocks /\ block \in 0 .. 2
  BY MemoryType
<1>2. /\ pc = "encode" /\ tag' = tag /\ before' = before
      /\ program' = program /\ block' = block /\ OCR0A' = OCR0A
  BY DEF PutSamples
<1>3. tag.memory = Written(program, before, block) /\ tag = Deaf(tag.memory, {})
  BY <1>2 DEF IInv, MemoryInv, PlayerInv
<1>4. CASE TooManyPulses(pulses)
  <2>1. /\ pc' = "away" /\ exit' = -1
        /\ UNCHANGED <<sampleVector, ioBuffer, opOffset, tag>>
    BY <1>4 DEF PutSamples
  <2>2. HostInv'
    BY <1>2, <2>1 DEF IInv, HostInv
  <2>3. MemoryInv'
    <3>1. block \in 0 .. 3
      BY <1>1
    <3> QED
      BY <1>2, <1>3, <2>1, <3>1 DEF IInv, MemoryInv
  <2>4. PlayerInv'
    BY <1>2, <2>1, PlayerIdle
  <2> QED
    BY <2>2, <2>3, <2>4 DEF IInv
<1>5. CASE ~TooManyPulses(pulses)
  <2>1. /\ pc' = "play" /\ exit' = exit
        /\ sampleVector' = PulseVector(pulses) /\ ioBuffer' = Packed(pulses)
        /\ opOffset' = 0
    BY <1>5 DEF PutSamples
  <2>2. HostInv'
    BY <1>2, <2>1 DEF IInv, HostInv
  <2>3. MemoryInv'
    BY <1>2, <1>3, <2>1 DEF IInv, MemoryInv
  <2>4. tag = PlayedTag(tag.memory, FrameOf(program, block), 0)
    <3> DEFINE f == FrameOf(program, block)
    <3> HIDE DEF f
    <3>1. Prefix(f, HeardLen(0)) = <<>>
      <4>1. HeardLen(0) = 0
        BY DEF HeardLen
      <4> QED
        BY <4>1, PrefixZero
    <3>2. PlayedTag(tag.memory, f, 0) =
            [memory |-> tag.memory, locked |-> {}, heard |-> Prefix(f, HeardLen(0)),
             on |-> 0, off |-> 0]
      BY DEF PlayedTag
    <3>3. PlayedTag(tag.memory, f, 0) = Deaf(tag.memory, {})
      BY <3>1, <3>2 DEF Deaf
    <3> QED
      BY <1>3, <3>3 DEF f
  <2>5. /\ PulseVector(pulses) \in [1 .. PulseSlots -> 0 .. 255]
        /\ Packed(pulses) \in [1 .. BufferNibbles -> 0 .. 15]
    BY <1>1, <1>5, VectorHoldsLengths, PackedType, Zenon DEF HoldsLengths, ArePacked
  <2>6. OCR0A \in 0 .. 255
    BY DEF IInv, PlayerInv
  <2> HIDE DEF pulses
  <2>7. /\ sampleVector' \in [1 .. PulseSlots -> 0 .. 255]
        /\ ioBuffer' \in [1 .. BufferNibbles -> 0 .. 15]
        /\ opOffset' \in 0 .. 78 /\ OCR0A' \in 0 .. 255
    <3>1. 0 \in 0 .. 78
      OBVIOUS
    <3> QED
      BY <1>2, <2>1, <2>5, <2>6, <3>1, Zenon
  <2>8. PlayerInv'
    BY <1>2, <1>5, <2>1, <2>4, <2>7 DEF PlayerInv, pulses
  <2> QED
    BY <2>2, <2>3, <2>8 DEF IInv
<1> QED
  BY <1>4, <1>5

\* The player is at its end after the extra nibble and not before.
LEMMA EndOfFrame ==
  ASSUME IInv, pc = "play"
  PROVE  AtEnd <=> opOffset = 78
<1> DEFINE pulses == BlockPulses(program, block)
<1>1. program \in Program /\ block \in 0 .. DataBlocks
  BY MemoryType
<1>2. /\ ~TooManyPulses(pulses) /\ ioBuffer = Packed(pulses) /\ opOffset \in 0 .. 78
  BY DEF IInv, PlayerInv
<1>3. BufferNibbles \in Nat /\ BufferNibbles >= 78
  BY WriteAssumption
<1>4. CASE opOffset \in 0 .. 76
  <2>1. opOffset + 1 \in 1 .. 77
    BY <1>4
  <2>2. Packed(pulses)[opOffset + 1] % 8 \in 0 .. 6
    BY <1>1, <1>2, <2>1, PackedPulse, Zenon DEF IsPulse
  <2> HIDE DEF pulses
  <2> QED
    BY <1>2, <1>3, <1>4, <2>2 DEF AtEnd
<1>5. CASE opOffset = 77
  <2>1. Packed(pulses)[78] = 0
    BY <1>1, <1>2, PackedType, Zenon DEF ArePacked
  <2> HIDE DEF pulses
  <2>2. ioBuffer[opOffset + 1] % 8 = 0
    BY <1>2, <1>5, <2>1
  <2> QED
    BY <1>3, <1>5, <2>2 DEF AtEnd
<1>6. CASE opOffset = 78
  <2>1. 79 <= BufferNibbles => Packed(pulses)[79] = 15
    BY <1>1, <1>2, PackedType, Zenon DEF ArePacked
  <2> HIDE DEF pulses
  <2>2. CASE BufferNibbles = 78
    BY <1>6, <2>2 DEF AtEnd
  <2>3. CASE 79 <= BufferNibbles
    BY <1>2, <1>6, <2>1, <2>3 DEF AtEnd
  <2> QED
    BY <1>3, <2>2, <2>3
<1> QED
  BY <1>2, <1>4, <1>5, <1>6

\* What a step of the player does to the tag.
LEMMA PlayedPulse ==
  ASSUME IInv, PlayPulse
  PROVE  /\ OCR0A' \in 0 .. 255
         /\ opOffset \in 0 .. 77
         /\ tag' = PlayedTag(tag.memory, FrameOf(program, block), opOffset + 1)
<1> DEFINE pulses == BlockPulses(program, block)
           f == FrameOf(program, block)
           nibble == ioBuffer[opOffset + 1]
           length == sampleVector[(nibble % 8) + 1]
<1>1. program \in Program /\ block \in 0 .. DataBlocks
  BY MemoryType
<1>2. pc = "play" /\ ~AtEnd
  BY DEF PlayPulse
<1>3. /\ ~TooManyPulses(pulses) /\ ioBuffer = Packed(pulses)
      /\ sampleVector = PulseVector(pulses)
      /\ opOffset \in 0 .. 78
      /\ tag = PlayedTag(tag.memory, f, opOffset)
  BY <1>2 DEF IInv, PlayerInv
<1>4. opOffset \in 0 .. 77
  BY <1>2, <1>3, EndOfFrame
<1>5. f \in [1 .. 38 -> Bit]
  BY <1>1, FrameOfBlock, Zenon DEF IsFrame
<1>6. /\ pulses[1] = PulseOf(FALSE, 30)
      /\ \A j \in 1 .. 38 :
           /\ pulses[2 * j] = PulseOf(TRUE, OnTime(f[j]))
           /\ pulses[2 * j + 1] = PulseOf(FALSE, 19)
  <2>1. ArePulses(pulses, f)
    BY <1>1, PulsesOfBlock, Zenon
  <2> HIDE DEF pulses, f
  <2> QED
    BY <2>1, Zenon DEF ArePulses
<1>7. /\ OCR0A' = (length + 255) % 256
      /\ tag' = IF nibble >= 8 THEN FieldOn(tag, OCR0A' + 1) ELSE FieldOff(tag, OCR0A' + 1)
  BY DEF PlayPulse
<1>8. opOffset \in 0 .. 76 =>
        /\ length = pulses[opOffset + 1].length
        /\ length \in 19 .. 55
        /\ nibble >= 8 <=> pulses[opOffset + 1].isHigh
  <2> SUFFICES ASSUME opOffset \in 0 .. 76
               PROVE  /\ length = pulses[opOffset + 1].length
                      /\ length \in 19 .. 55
                      /\ nibble >= 8 <=> pulses[opOffset + 1].isHigh
    OBVIOUS
  <2>1. opOffset + 1 \in 1 .. 77
    OBVIOUS
  <2>2. IsPulse(Packed(pulses)[opOffset + 1], PulseVector(pulses), pulses[opOffset + 1])
    BY <1>1, <1>3, <2>1, PackedPulse, Zenon
  <2>3. IsPulse(nibble, sampleVector, pulses[opOffset + 1])
    BY <1>3, <2>2, Zenon
  <2> HIDE DEF pulses, nibble
  <2> QED
    BY <2>3, Zenon DEF IsPulse, length
<1>9. opOffset = 77 => nibble = 0 /\ length = 19
  <2>0. ArePacked(Packed(pulses), pulses) /\ HoldsLengths(PulseVector(pulses), pulses)
    BY <1>1, <1>3, PackedType, VectorHoldsLengths, Zenon
  <2> HIDE DEF pulses
  <2>1. Packed(pulses)[78] = 0 /\ PulseVector(pulses)[1] = 19
    BY <2>0, Zenon DEF ArePacked, HoldsLengths
  <2>2. opOffset = 77 => nibble = 0
    BY <1>3, <2>1
  <2>3. nibble = 0 => (nibble % 8) + 1 = 1
    OBVIOUS
  <2> QED
    BY <1>3, <2>1, <2>2, <2>3
<1>10. length \in 19 .. 55
  BY <1>4, <1>8, <1>9
<1> HIDE DEF pulses, f, nibble, length
<1>11. OCR0A' \in 0 .. 255 /\ OCR0A' + 1 = length
  BY <1>7, <1>10
<1>12. CASE opOffset = 0
  <2>1. length = 30 /\ ~(nibble >= 8)
    BY <1>6, <1>8, <1>12 DEF PulseOf
  <2>2. tag' = FieldOff(PlayedTag(tag.memory, f, 0), 30)
    BY <1>3, <1>7, <1>11, <1>12, <2>1
  <2> QED
    BY <1>4, <1>5, <1>11, <1>12, <2>2, FirstPulse DEF f
<1>13. CASE opOffset % 2 = 1 /\ opOffset # 77
  <2>1. PICK j \in 1 .. 38 : opOffset = 2 * j - 1
    <3>1. (opOffset \div 2) + 1 \in 1 .. 38 /\ opOffset = 2 * ((opOffset \div 2) + 1) - 1
      BY <1>4, <1>13
    <3> QED
      BY <3>1
  <2>2. opOffset + 1 = 2 * j /\ opOffset \in 0 .. 76
    BY <2>1
  <2>3. pulses[opOffset + 1] = PulseOf(TRUE, OnTime(f[j]))
    BY <1>6, <2>2
  <2>4. length = OnTime(f[j]) /\ nibble >= 8
    BY <1>8, <2>2, <2>3 DEF PulseOf
  <2>5. tag' = FieldOn(PlayedTag(tag.memory, f, 2 * j - 1), OnTime(f[j]))
    BY <1>3, <1>7, <1>11, <2>1, <2>4
  <2>6. tag' = PlayedTag(tag.memory, f, 2 * j)
    BY <1>5, <2>5, HighPulse
  <2> QED
    BY <1>4, <1>11, <2>2, <2>6 DEF f
<1>14. CASE opOffset # 0 /\ (opOffset % 2 = 0 \/ opOffset = 77)
  <2>1. opOffset \in 2 .. 77
    BY <1>4, <1>14
  <2>2. length = 19 /\ ~(nibble >= 8)
    <3>1. CASE opOffset = 77
      BY <1>9, <3>1
    <3>2. CASE opOffset # 77
      <4>1. PICK j \in 1 .. 38 : opOffset = 2 * j
        <5>1. opOffset \div 2 \in 1 .. 38 /\ opOffset = 2 * (opOffset \div 2)
          BY <1>4, <1>14, <3>2
        <5> QED
          BY <5>1
      <4>2. opOffset + 1 = 2 * j + 1 /\ opOffset \in 0 .. 76
        BY <4>1
      <4>3. pulses[opOffset + 1] = PulseOf(FALSE, 19)
        BY <1>6, <4>2
      <4> QED
        BY <1>8, <4>2, <4>3 DEF PulseOf
    <3> QED
      BY <3>1, <3>2
  <2>3. tag' = FieldOff(PlayedTag(tag.memory, f, opOffset), 19)
    BY <1>3, <1>7, <1>11, <2>2
  <2>4. tag' = PlayedTag(tag.memory, f, opOffset + 1)
    BY <1>5, <1>14, <2>1, <2>3, LowPulse
  <2> QED
    BY <1>4, <1>11, <2>4 DEF f
<1>15. opOffset % 2 = 0 \/ opOffset % 2 = 1
  BY <1>4
<1> QED
  BY <1>12, <1>13, <1>14, <1>15

LEMMA PlayPulseStep ==
  ASSUME IInv, PlayPulse
  PROVE  IInv'
<1>1. /\ OCR0A' \in 0 .. 255 /\ opOffset \in 0 .. 77
      /\ tag' = PlayedTag(tag.memory, FrameOf(program, block), opOffset + 1)
  BY PlayedPulse
<1>2. /\ opOffset' = opOffset + 1 /\ pc = "play"
      /\ UNCHANGED <<pc, exit, program, block, sampleVector, ioBuffer, before>>
  BY DEF PlayPulse
<1>3. tag'.memory = tag.memory
  BY <1>1 DEF PlayedTag
<1>4. HostInv'
  BY <1>2 DEF IInv, HostInv
<1>5. MemoryInv'
  BY <1>2, <1>3 DEF IInv, MemoryInv
<1>6. PlayerInv'
  <2>1. tag' = PlayedTag(tag'.memory, FrameOf(program, block), opOffset')
    BY <1>1, <1>2, <1>3
  <2>2. opOffset' \in 0 .. 78
    BY <1>1, <1>2
  <2>3. PlayerInv
    BY DEF IInv
  <2> QED
    BY <1>1, <1>2, <2>1, <2>2, <2>3 DEF PlayerInv
<1> QED
  BY <1>4, <1>5, <1>6 DEF IInv

LEMMA StopTxStep ==
  ASSUME IInv, StopTx
  PROVE  IInv'
<1> DEFINE memory == [tag.memory EXCEPT ![block] = BlockWord(program, block)]
<1>1. /\ tag.memory \in [0 .. 7 -> Word] /\ tag.memory[0][28] = 0
      /\ program \in Program /\ block \in 0 .. DataBlocks /\ block \in 0 .. 2
  BY MemoryType
<1>2. /\ pc = "play" /\ AtEnd /\ pc' = "answer"
      /\ tag' = Evaluate(FieldOn(tag, 0))
      /\ UNCHANGED <<exit, program, block, sampleVector, ioBuffer, opOffset, OCR0A, before>>
  BY DEF StopTx
<1>3. tag = PlayedTag(tag.memory, FrameOf(program, block), 78)
  <2>1. opOffset = 78
    BY <1>2, EndOfFrame
  <2> QED
    BY <1>2, <2>1 DEF IInv, PlayerInv
<1>4. tag' = Deaf(memory, {})
  <2> DEFINE old == tag.memory
             t == PlayedTag(old, FrameOf(program, block), 78)
  <2>1. tag' = Evaluate(FieldOn(t, 0))
    BY <1>2, <1>3
  <2>2. old \in [0 .. 7 -> Word] /\ old[0][28] = 0
    BY <1>1
  <2> HIDE DEF old
  <2>3. Evaluate(FieldOn(t, 0)) = Deaf([old EXCEPT ![block] = BlockWord(program, block)], {})
    BY <1>1, <2>2, FrameEvaluated
  <2> QED
    BY <2>1, <2>3 DEF old
<1>5. tag'.memory = Written(program, before, block + 1)
  <2>1. tag.memory = Written(program, before, block)
    BY <1>2 DEF IInv, MemoryInv
  <2>2. tag'.memory = memory
    BY <1>4 DEF Deaf
  <2>3. [Written(program, before, block) EXCEPT ![block] = BlockWord(program, block)] =
          Written(program, before, block + 1)
    BY <1>1, WrittenNext
  <2> QED
    BY <2>1, <2>2, <2>3, Zenon
<1>6. HostInv'
  BY <1>2 DEF IInv, HostInv
<1>7. MemoryInv'
  BY <1>2, <1>5 DEF IInv, MemoryInv
<1>8. PlayerInv'
  <2>1. tag' = Deaf(tag'.memory, {})
    BY <1>4 DEF Deaf
  <2> QED
    BY <1>2, <2>1 DEF IInv, PlayerInv
<1> QED
  BY <1>6, <1>7, <1>8 DEF IInv

LEMMA NextBlockStep ==
  ASSUME IInv, NextBlock
  PROVE  IInv'
<1>1. block \in 0 .. 2 /\ DataBlocks = 2
  BY MemoryType, Sizes
<1>2. /\ pc = "answer"
      /\ UNCHANGED <<program, sampleVector, ioBuffer, opOffset, OCR0A, tag, before>>
  BY DEF NextBlock
<1>3. tag.memory = Written(program, before, block + 1)
  BY <1>2 DEF IInv, MemoryInv
<1>4. CASE block = DataBlocks
  <2>1. pc' = "away" /\ exit' = 0 /\ block' = block
    BY <1>4 DEF NextBlock
  <2>2. HostInv'
    BY <1>2, <2>1 DEF IInv, HostInv
  <2>3. MemoryInv'
    <3>1. tag.memory = Written(program, before, 3)
      BY <1>1, <1>3, <1>4
    <3>2. 3 \in 0 .. 3
      OBVIOUS
    <3> QED
      BY <1>2, <2>1, <3>1, <3>2 DEF IInv, MemoryInv
  <2>4. PlayerInv'
    BY <1>2, <2>1, PlayerIdle
  <2> QED
    BY <2>2, <2>3, <2>4 DEF IInv
<1>5. CASE block # DataBlocks
  <2>1. pc' = "encode" /\ block' = block + 1 /\ exit' = exit
    BY <1>5 DEF NextBlock
  <2>2. HostInv'
    BY <1>1, <1>2, <1>5, <2>1 DEF IInv, HostInv
  <2>3. MemoryInv'
    BY <1>2, <1>3, <2>1 DEF IInv, MemoryInv
  <2>4. PlayerInv'
    BY <1>2, <2>1, PlayerIdle
  <2> QED
    BY <2>2, <2>3, <2>4 DEF IInv
<1> QED
  BY <1>4, <1>5

LEMMA GiveUpStep ==
  ASSUME IInv, GiveUp
  PROVE  IInv'
<1>1. /\ pc \in {"encode", "answer"} /\ pc' = "away" /\ exit' = -1
      /\ UNCHANGED <<program, block, sampleVector, ioBuffer, opOffset, OCR0A, tag, before>>
  BY DEF GiveUp
<1>2. HostInv'
  BY <1>1 DEF IInv, HostInv
<1>3. MemoryInv'
  <2>1. block \in 0 .. 3 /\ block + 1 \in 0 .. 3
    BY MemoryType
  <2> QED
    BY <1>1, <2>1 DEF IInv, MemoryInv
<1>4. PlayerInv'
  BY <1>1, PlayerIdle
<1> QED
  BY <1>2, <1>3, <1>4 DEF IInv

LEMMA PowerLossStep ==
  ASSUME IInv, PowerLoss
  PROVE  IInv'
<1>1. /\ pc = "play" /\ pc' = "away" /\ exit' = -1
      /\ tag' = Deaf(tag.memory, tag.locked)
      /\ sampleVector' = Zeros(PulseSlots) /\ ioBuffer' = Zeros(BufferNibbles)
      /\ opOffset' = 0 /\ OCR0A' = 0
      /\ UNCHANGED <<program, block, before>>
  BY DEF PowerLoss
<1>2. tag.locked = {}
  <2>1. tag = PlayedTag(tag.memory, FrameOf(program, block), opOffset)
    BY <1>1 DEF IInv, PlayerInv
  <2> QED
    BY <2>1 DEF PlayedTag
<1>3. tag'.memory = tag.memory /\ tag' = Deaf(tag'.memory, {})
  BY <1>1, <1>2 DEF Deaf
<1>4. HostInv'
  BY <1>1 DEF IInv, HostInv
<1>5. MemoryInv'
  <2>1. block \in 0 .. 3
    BY MemoryType
  <2> QED
    BY <1>1, <1>3, <2>1 DEF IInv, MemoryInv
<1>6. PlayerInv'
  <2>1. /\ Zeros(PulseSlots) \in [1 .. PulseSlots -> 0 .. 255]
        /\ Zeros(BufferNibbles) \in [1 .. BufferNibbles -> 0 .. 15]
    BY DEF Zeros
  <2>2. 0 \in 0 .. 78 /\ 0 \in 0 .. 255
    OBVIOUS
  <2>3. pc' # "play"
    BY <1>1
  <2> QED
    BY <1>1, <1>3, <2>1, <2>2, <2>3, Zenon DEF PlayerInv
<1> QED
  BY <1>4, <1>5, <1>6 DEF IInv

\* The invariant holds of every state.
LEMMA Invariance == Spec => []IInv
<1>1. IInv /\ [Next]_vars => IInv'
  <2> SUFFICES ASSUME IInv, [Next]_vars PROVE IInv'
    OBVIOUS
  <2>1. CASE \E p \in Programs : Launch(p)
    BY <2>1, LaunchStep
  <2>2. CASE PutSamples
    BY <2>2, PutSamplesStep
  <2>3. CASE PlayPulse
    BY <2>3, PlayPulseStep
  <2>4. CASE StopTx
    BY <2>4, StopTxStep
  <2>5. CASE NextBlock
    BY <2>5, NextBlockStep
  <2>6. CASE GiveUp
    BY <2>6, GiveUpStep
  <2>7. CASE PowerLoss
    BY <2>7, PowerLossStep
  <2>8. CASE UNCHANGED vars
    BY <2>8 DEF vars, IInv, HostInv, MemoryInv, PlayerInv
  <2> QED
    BY <2>1, <2>2, <2>3, <2>4, <2>5, <2>6, <2>7, <2>8 DEF Next
<1> QED
  BY <1>1, InitIInv, PTL DEF Spec

-----------------------------------------------------------------------------
\* The player stays in its buffer, and every frame of the tag in its own, whatever is
\* programmed (main.c:142-172).
THEOREM ProgramTypes == Spec => []TypeOK
<1>1. IInv => TypeOK
  <2> SUFFICES ASSUME IInv PROVE TypeOK
    OBVIOUS
  <2>1. /\ tag.memory \in [0 .. 7 -> [1 .. WordBits -> Bit]]
        /\ program \in Program /\ block \in 0 .. DataBlocks
    BY MemoryType, Sizes DEF Word
  <2>2. opOffset \in 0 .. BufferNibbles
    BY WriteAssumption DEF IInv, PlayerInv
  <2>3. tag.locked = {} /\ tag.heard \in Seq(Bit) /\ Len(tag.heard) <= FrameBits
    <3>1. CASE pc = "play"
      <4> DEFINE f == FrameOf(program, block)
                 n == HeardLen(opOffset)
      <4>1. tag = PlayedTag(tag.memory, f, opOffset) /\ opOffset \in 0 .. 78
        BY <3>1 DEF IInv, PlayerInv
      <4>2. f \in [1 .. 38 -> Bit]
        BY <2>1, FrameOfBlock, Zenon DEF IsFrame
      <4> HIDE DEF f
      <4>3. n \in 0 .. 37
        BY <4>1 DEF HeardLen
      <4>4. tag.heard = Prefix(f, n) /\ tag.locked = {}
        BY <4>1 DEF PlayedTag
      <4> HIDE DEF n
      <4>5. n \in Nat /\ Prefix(f, n) \in [1 .. n -> Bit]
        BY <4>2, <4>3 DEF Prefix
      <4>6. Prefix(f, n) \in Seq(Bit) /\ Len(Prefix(f, n)) = n
        BY <4>5, BitsAreSequences, Zenon
      <4> QED
        BY <4>3, <4>4, <4>6, Sizes
    <3>2. CASE pc # "play"
      <4>1. tag.heard = <<>> /\ tag.locked = {}
        BY <3>2 DEF IInv, PlayerInv, Deaf
      <4>2. <<>> \in Seq(Bit) /\ Len(<<>>) = 0
        BY EmptySeq
      <4> QED
        BY <4>1, <4>2, Sizes
    <3> QED
      BY <3>1, <3>2
  <2> QED
    BY <2>1, <2>2, <2>3 DEF TypeOK, IInv, HostInv, PlayerInv
<1> QED
  BY <1>1, Invariance, PTL

\* Whenever programming is broken off, the blocks up to some point are the new ones and the
\* others what they were: for every token, modulation and rate, and whatever was programmed
\* or broken off before (main.cpp:245-310).
THEOREM ProgramPrefix == Spec => []PrefixProgrammed
<1>1. IInv => PrefixProgrammed
  <2> SUFFICES ASSUME IInv PROVE PrefixProgrammed
    OBVIOUS
  <2>1. PICK n \in 0 .. 3 : tag.memory = Written(program, before, n)
    <3>1. block \in 0 .. 3 /\ block + 1 \in 0 .. 3
      BY MemoryType
    <3> QED
      BY <3>1 DEF IInv, HostInv, MemoryInv
  <2>2. n \in 0 .. DataBlocks + 1
    BY Sizes
  <2> QED
    BY <2>1, <2>2 DEF PrefixProgrammed, Written
<1> QED
  BY <1>1, Invariance, PTL

\* A process that ends with 0 leaves a tag that sends its token, in its coding and at its
\* rate: for every token, modulation and rate (main.cpp:245-310).
THEOREM ProgramReads == Spec => []ProgrammedTagReads
<1>1. IInv => ProgrammedTagReads
  <2> SUFFICES ASSUME IInv, pc = "away", exit = 0
               PROVE  /\ RateOf(tag) = program.rate
                      /\ ModulationOf(tag) = program.modulation
                      /\ Sent(tag) = Generate(program.token)
    BY DEF ProgrammedTagReads
  <2> DEFINE c == BlockWord(program, 0)
             image == Generate(program.token)
             code == 16 * c[16] + 8 * c[17] + 4 * c[18] + 2 * c[19] + c[20]
  <2>1. program \in Program
    BY MemoryType
  <2>2. tag.memory = Written(program, before, 3)
    BY DEF IInv, MemoryInv
  <2>3. /\ tag.memory[0] = c
        /\ tag.memory[1] = BlockWord(program, 1)
        /\ tag.memory[2] = BlockWord(program, 2)
    BY <2>2 DEF Written
  <2>4. /\ 4 * c[12] + 2 * c[13] + c[14] = DataRateValue(program.rate)
        /\ code = ModulationValue[program.modulation]
        /\ 4 * c[25] + 2 * c[26] + c[27] = 2
    BY <2>1, ConfigurationWord DEF BlockWord
  <2> HIDE DEF c, code
  <2>5. RateOf(tag) = program.rate
    <3>1. RateOf(tag) = DataRate[DataRateValue(program.rate) + 1]
      BY <2>3, <2>4 DEF RateOf
    <3> QED
      BY <2>1, <3>1, DataRateCode DEF Program
  <2>6. ModulationOf(tag) = program.modulation
    <3>1. program.modulation \in DOMAIN ModulationValue
      BY <2>1 DEF Program
    <3>2. ModulationOf(tag) =
            IF \E m \in DOMAIN ModulationValue : ModulationValue[m] = code
            THEN CHOOSE m \in DOMAIN ModulationValue : ModulationValue[m] = code
            ELSE "reserved"
      BY <2>3 DEF ModulationOf, code
    <3>3. ModulationOf(tag) \in DOMAIN ModulationValue
          /\ ModulationValue[ModulationOf(tag)] = code
      BY <2>4, <3>1, <3>2
    <3> QED
      BY <2>4, <3>1, <3>3, ModulationCode
  <2>7. Sent(tag) = image
    <3>1. MaxBlock(tag) = 2
      BY <2>3, <2>4 DEF MaxBlock
    <3>2. image \in [1 .. 64 -> Bit]
      BY <2>1, GenerateType, Sizes DEF Program
    <3>3. \A b \in 1 .. 2 : BlockWord(program, b) = [i \in 1 .. 32 |-> image[(b - 1) * 32 + i]]
      BY Sizes DEF BlockWord
    <3> HIDE DEF image
    <3>4. Sent(tag) = [i \in 1 .. 64 |-> tag.memory[((i - 1) \div 32) + 1][((i - 1) % 32) + 1]]
      BY <3>1, Sizes DEF Sent
    <3>5. ASSUME NEW i \in 1 .. 64
          PROVE  tag.memory[((i - 1) \div 32) + 1][((i - 1) % 32) + 1] = image[i]
      <4>1. CASE i <= 32
        <5>1. ((i - 1) \div 32) + 1 = 1 /\ ((i - 1) % 32) + 1 = i /\ i \in 1 .. 32
          BY <4>1
        <5>2. tag.memory[1][i] = image[(1 - 1) * 32 + i]
          BY <2>3, <3>3, <5>1
        <5>3. (1 - 1) * 32 + i = i
          OBVIOUS
        <5> QED
          BY <5>1, <5>2, <5>3
      <4>2. CASE i > 32
        <5>1. /\ ((i - 1) \div 32) + 1 = 2 /\ ((i - 1) % 32) + 1 = i - 32
              /\ i - 32 \in 1 .. 32
          BY <4>2
        <5>2. tag.memory[2][i - 32] = image[(2 - 1) * 32 + (i - 32)]
          BY <2>3, <3>3, <5>1
        <5>3. (2 - 1) * 32 + (i - 32) = i
          OBVIOUS
        <5> QED
          BY <5>1, <5>2, <5>3
      <4> QED
        BY <4>1, <4>2
    <3> QED
      BY <3>2, <3>4, <3>5
  <2> QED
    BY <2>5, <2>6, <2>7
<1> QED
  BY <1>1, Invariance, PTL
============================================================================
