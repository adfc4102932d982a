------------------------------ MODULE Em4100 ------------------------------
(***************************************************************************)
(* The image of an EM4100 token and its decoder.                           *)
(*                                                                         *)
(* A token is a sequence of Rows nibbles, the customer id first; a nibble  *)
(* is the tuple of its bits, most significant first.  Em4100Eprom lays out *)
(* a preamble of ones, a row of four bits and their parity for each        *)
(* nibble, and a row of column parities that ends in a stop bit.           *)
(* Em4100Decoder is fed one bit at a time.  Its buffers are kept as the    *)
(* sequences of what was stored since they were last emptied: `nibble' and *)
(* nibbleLen, `data' and nibbleCount of the source are one variable each.  *)
(***************************************************************************)
EXTENDS Naturals, SequencesExt

CONSTANTS
  Rows,                 \* nibbles of a token: 10
  PreambleLength        \* leading ones: 9

ASSUME Em4100Assumption == {Rows, PreambleLength} \subseteq Nat \ {0}

Bit == {0, 1}
Nibble == [1..4 -> Bit]
Token == [1..Rows -> Nibble]

ParityNibble(n) == (n[1] + n[2] + n[3] + n[4]) % 2

\* Mutant: the table holds every nibble as it is.
ReverseNibbleNot(n) == n

ReverseNibble(n) == Reverse(n)

\* The exclusive or of a sequence of nibbles: the parity of every column.
ColumnParity(nibbles) ==
  [i \in 1..4 |-> Cardinality({r \in DOMAIN nibbles : nibbles[r][i] = 1}) % 2]

-----------------------------------------------------------------------------
(* Em4100Eprom::generate                                                   *)

\* _bufferAddBits stores a word, given most significant bit first, from its
\* least significant bit on.
BufferAddBits(word) == Reverse(word)

\* The reversed nibble and, above it, its parity.
RowBits(n) ==
  LET nibble == ReverseNibble(n)
  IN BufferAddBits(<<ParityNibble(nibble)>> \o nibble)

\* The column parities, and a stop bit of zero above them.
ParityBits(token) ==
  BufferAddBits(<<0>> \o ColumnParity([r \in 1..Rows |-> ReverseNibble(token[r])]))

ImageLength == PreambleLength + 5 * (Rows + 1)

\* The preamble, and the rows one after the other.
Generate(token) ==
  LET rows == [r \in 1..(Rows + 1) |-> IF r <= Rows THEN RowBits(token[r]) ELSE ParityBits(token)]
      place(i) == i - PreambleLength - 1
  IN [i \in 1..ImageLength |->
        IF i <= PreambleLength THEN 1 ELSE rows[(place(i) \div 5) + 1][(place(i) % 5) + 1]]

-----------------------------------------------------------------------------
(* Em4100Decoder                                                           *)

ResetDecoder == [state |-> "PREAMBLE", bitCount |-> 0, nibble |-> <<>>, data |-> <<>>]

DecoderState ==
  [state: {"PREAMBLE", "DATA"}, bitCount: 0..(PreambleLength - 1),
   nibble: Seq(Bit), data: Seq(Nibble)]

\* What data[6] and nibble have room for.
WithinBuffers(d) == Len(d.nibble) <= 4 /\ Len(d.data) <= Rows + 1

\* A run of ones as long as the preamble opens the data.
Preamble(d, bit) ==
  IF bit = 0 THEN [d EXCEPT !.bitCount = 0]
  ELSE IF d.bitCount + 1 = PreambleLength
       THEN [state |-> "DATA", bitCount |-> 0, nibble |-> <<>>, data |-> <<>>]
       ELSE [d EXCEPT !.bitCount = @ + 1]

\* Mutant: the parity of a row is not looked at.
ParityUnchecked(d, bit) == Len(d.data) = Rows => bit = 0

\* The bit after the fourth: a stop bit after the column parities, the parity
\* of its row elsewhere.
ParityOk(d, bit) ==
  IF Len(d.data) = Rows THEN bit = 0 ELSE ParityNibble(d.nibble) = bit

\* Mutant: the row of column parities does not end the data.
CloseRowEndless(d, bit) ==
  IF ~ParityOk(d, bit) THEN [d EXCEPT !.state = "PREAMBLE"]
  ELSE [state |-> "DATA", bitCount |-> d.bitCount, nibble |-> <<>>,
        data |-> Append(d.data, d.nibble)]

CloseRow(d, bit) ==
  IF ~ParityOk(d, bit) THEN [d EXCEPT !.state = "PREAMBLE"]
  ELSE [state |-> IF Len(d.data) = Rows THEN "PREAMBLE" ELSE "DATA",
        bitCount |-> d.bitCount, nibble |-> <<>>, data |-> Append(d.data, d.nibble)]

DecodeBit(d, bit) ==
  CASE d.state = "PREAMBLE" -> Preamble(d, bit)
    [] d.state = "DATA" /\ Len(d.nibble) = 4 -> CloseRow(d, bit)
    [] OTHER -> [d EXCEPT !.nibble = Append(@, bit)]

\* EVENT_NEW_TOKEN: the tokens, none or one, that this bit completes.
NewTokens(d, bit) ==
  IF /\ d.state = "DATA"
     /\ Len(d.nibble) = 4
     /\ Len(d.data) = Rows
     /\ ParityOk(d, bit)
     /\ ColumnParity(d.data) = d.nibble
  THEN {d.data}
  ELSE {}
===========================================================================
