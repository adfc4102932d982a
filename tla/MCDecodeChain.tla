--------------------------- MODULE MCDecodeChain ---------------------------
(***************************************************************************)
(* Instances of DecodeChain: real sizes and a few tokens; captures begin   *)
(* anywhere in the image, corrupted ones in some half bits of it.          *)
(***************************************************************************)
EXTENDS DecodeChain

Digit(n) == <<n \div 8, (n \div 4) % 2, (n \div 2) % 2, n % 2>>
HexToken(digits) == [i \in 1..Len(digits) |-> Digit(digits[i])]

\* The token of README.md, one that alternates, and the one the tool programs by default
MCTokens ==
  << HexToken(<<4, 11, 0, 0, 1, 6, 6, 11, 2, 4>>),
     HexToken(<<5, 5, 5, 5, 5, 5, 5, 5, 5, 5>>),
     HexToken(<<0, 0, 0, 0, 0, 0, 0, 0, 0, 0>>) >>

TagsOf(tokens, dividers, noise, phases) ==
  [token: tokens, modulation: Modulations, divider: dividers,
   noise: {noise}, phases: {phases}]

AnyPhase == 0..127
EverySecondBit == {p \in AnyPhase : p % 4 < 2}
TwoPhases == {0, 65}

ReadableTags ==
  TagsOf({1}, Dividers, 0, AnyPhase)
    \cup TagsOf({2}, Dividers, 0, EverySecondBit)
    \cup TagsOf({1}, Dividers, 1, TwoPhases)
    \cup TagsOf({1}, {16}, 2, {1})

\* Token 0 at the divider after the first one tried.
PlainTags ==
  [token: {3}, modulation: {"Manchester"}, divider: {32}, noise: {0}, phases: {AnyPhase}]
===========================================================================
