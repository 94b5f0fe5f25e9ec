------------------------------ MODULE TickerId ------------------------------
(***************************************************************************)
(* Ticker ids computed from symbols (ib/ticker_id.cpp): the letters of a   *)
(* symbol as a number in base 27, shifted left 11 places; an option adds   *)
(* its strike to, or for a put subtracts it from, the middle of the low    *)
(* part.  A symbol is a sequence of letters, A = 1 to Z = 26.              *)
(***************************************************************************)
EXTENDS Integers, Sequences

OFFSET    == 2048   \* 1 << 11
MID       == 1024   \* 1 << 10
MAX_CHARS == 4      \* SCALE has no entry beyond 27^3
SCALE     == [i \in 0..(MAX_CHARS - 1) |-> 27 ^ i]

\* No letter: the code of a position the symbol does not have.
Letter(s, i) == IF i \in DOMAIN s THEN s[i] ELSE 0

SymbolToTickerId(s) ==
  OFFSET * (LET n == Len(s)
            IN  Letter(s, n) * SCALE[0] + Letter(s, n - 1) * SCALE[1]
                + Letter(s, n - 2) * SCALE[2] + Letter(s, n - 3) * SCALE[3])

OptionToTickerId(s, isCallOption, strike) ==
  SymbolToTickerId(s) + MID + (IF isCallOption THEN strike ELSE -strike)

SymbolFromTickerId(code) ==
  LET m == code \div OFFSET
      digit(i) == (m \div SCALE[i]) % 27
  IN  SelectSeq(<<m \div SCALE[3], digit(2), digit(1), digit(0)>>, LAMBDA c : c > 0)

EncodedOptionFromTickerId(code) ==
  LET opt == (code % OFFSET) - MID
  IN  [symbol |-> SymbolFromTickerId((code \div OFFSET) * OFFSET),
       call_option |-> opt > 0,
       strike |-> IF opt > 0 THEN opt ELSE -opt]

IsTickerIdForOption(id) == id % OFFSET # 0
=============================================================================
