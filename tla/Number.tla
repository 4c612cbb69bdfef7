------------------------------- MODULE Number -------------------------------
(***************************************************************************)
(* The texts of numbers: MojDecimal::stringValue(), MojDecimal::assign()   *)
(* over MojNumber::Lexer and MojNumber::Parser, and the integers of printf *)
(* and strtoll.  Characters are their ASCII codes.  A decimal is its       *)
(* representation, the number times 10^Precision.  The widths are scaled:  *)
(* UInt64Max is any bound TLC can compute beyond.                          *)
(***************************************************************************)
EXTENDS Integers, Sequences, SequencesExt

CONSTANTS Precision,   \* digits behind the point
          UInt64Max, IntMax,
          PowMax       \* int64_pow_max: the largest power of 10 an Int64 holds

Int64Max == UInt64Max \div 2
Bound == (UInt64Max - 9) \div 10
ExponentBound == (IntMax - 9) \div 10

Plus == 43
Minus == 45
Point == 46
Zero == 48
Nine == 57
LowerE == 101
UpperE == 69

IsDigit(c) == c \in Zero..Nine

Pow10(n) == 10^n

\* Digits from the left; no digits for 0.
RECURSIVE DigitText(_)
DigitText(n) == IF n = 0 THEN <<>> ELSE Append(DigitText(n \div 10), Zero + (n % 10))

\* printf("%lld")
IntText(n) ==
    IF n = 0 THEN <<Zero>> ELSE IF n < 0 THEN <<Minus>> \o DigitText(-n) ELSE DigitText(n)

\* stringValue(): at least one digit on both sides of the point, and no more
\* zeros at the end than that.
DecimalText(rep) ==
    LET abs == IF rep < 0 THEN -rep ELSE rep
        frac == [i \in 1..Precision |-> Zero + ((abs \div Pow10(Precision - i)) % 10)]
        whole == DigitText(abs \div Pow10(Precision))
        kept == CHOOSE n \in 1..Precision : /\ n = 1 \/ frac[n] # Zero
                                            /\ \A i \in n + 1 .. Precision : frac[i] = Zero
    IN  (IF rep < 0 THEN <<Minus>> ELSE <<>>) \o (IF whole = <<>> THEN <<Zero>> ELSE whole) \o <<Point>>
        \o SubSeq(frac, 1, kept)

-----------------------------------------------------------------------------
(***************************************************************************)
(* The parser of decimals: what stands before the exponent is              *)
(* value * 10^exp; zeros at the end of the magnitude are only counted,     *)
(* until another digit follows.  wrapped records that value overflowed.    *)
(***************************************************************************)
NewNumber == [state |-> "number", positive |-> TRUE, value |-> 0, exp |-> 0, exponentPositive |-> TRUE,
              exponent |-> 0, err |-> "none", wrapped |-> FALSE]

Invalid(n) == [n EXCEPT !.err = "invalid"]

\* realignValue(): the multiplication is not checked and wraps around.
Realign(n) ==
    LET v == n.value * Pow10(n.exp)
    IN  IF n.exp <= 0 THEN n
        ELSE [n EXCEPT !.value = v % (UInt64Max + 1), !.exp = 0, !.wrapped = @ \/ v > UInt64Max]

PushDigit(n, x) ==
    IF n.value > Bound THEN [n EXCEPT !.err = "range"] ELSE [n EXCEPT !.value = 10 * @ + x]

\* Faulty variant: the zeros counted so far are forgotten.
DigitForgets(n, x) ==
    IF n.value # 0 /\ x = 0 THEN [n EXCEPT !.exp = @ + 1] ELSE PushDigit([n EXCEPT !.exp = 0], x)

Digit(n, x) ==
    IF n.value # 0 /\ x = 0
    THEN IF n.exp = IntMax THEN [n EXCEPT !.err = "range"] ELSE [n EXCEPT !.exp = @ + 1]
    ELSE PushDigit(Realign(n), x)

FractionDigit(n, x) == PushDigit([Realign(n) EXCEPT !.exp = @ - 1], x)

ExponentDigit(n, x) ==
    IF n.exponent = 0 /\ x = 0 THEN n
    ELSE IF n.exponent >= ExponentBound THEN [n EXCEPT !.err = "range"]
    ELSE [n EXCEPT !.exponent = 10 * @ + x]

LexMagnitude(n, c) ==
    CASE IsDigit(c) -> Digit([n EXCEPT !.state = "magnitudeDigits"], c - Zero)
      [] c = Point -> [n EXCEPT !.state = "fraction"]
      [] c \in {LowerE, UpperE} -> [n EXCEPT !.state = "exponent"]
      [] OTHER -> Invalid(n)

LexFraction(n, c) ==
    CASE IsDigit(c) -> FractionDigit([n EXCEPT !.state = "fractionDigits"], c - Zero)
      [] c \in {LowerE, UpperE} /\ n.state = "fractionDigits" -> [n EXCEPT !.state = "exponent"]
      [] OTHER -> Invalid(n)

LexExponent(n, c) ==
    CASE n.state = "exponent" /\ c \in {Plus, Minus} ->
           [n EXCEPT !.state = "exponentFirstDigit", !.exponentPositive = c = Plus]
      [] IsDigit(c) -> ExponentDigit([n EXCEPT !.state = "exponentDigits"], c - Zero)
      [] OTHER -> Invalid(n)

\* Lexer::parse(), one character.
Lex(n, c) ==
    CASE n.err # "none" -> n
      [] n.err = "none" /\ n.state = "number" ->
           IF c \in {Plus, Minus} THEN [n EXCEPT !.state = "magnitude", !.positive = c = Plus]
           ELSE IF IsDigit(c) THEN LexMagnitude(n, c) ELSE Invalid(n)
      [] n.err = "none" /\ n.state \in {"magnitude", "magnitudeDigits"} -> LexMagnitude(n, c)
      [] n.err = "none" /\ n.state \in {"fraction", "fractionDigits"} -> LexFraction(n, c)
      [] OTHER -> LexExponent(n, c)

\* toDecimal(): only the first digit that does not fit is looked at, and a 5
\* rounds towards zero.
ToDecimal(n) ==
    LET align == Precision + n.exp + (IF n.exponentPositive THEN n.exponent ELSE -n.exponent)
        tens == n.value \div Pow10(-align - 1)
        cut == IF (tens % 10) * 2 > 10 THEN (tens \div 10) + 1 ELSE tens \div 10
        Signed(rep) == [ok |-> TRUE, rep |-> IF n.positive THEN rep ELSE -rep]
        Failed == [ok |-> FALSE, rep |-> 0]
    IN  IF align < 0 THEN Signed(IF -align > PowMax THEN 0 ELSE cut)
        ELSE IF align > PowMax THEN Failed
        ELSE IF n.value > Int64Max \div Pow10(align) THEN Failed
        ELSE Signed(n.value * Pow10(align))

LexAll(text) == FoldLeft(Lex, NewNumber, text)

\* MojDecimal::assign(text)
ParseDecimal(text) ==
    LET n == LexAll(text)
    IN  IF n.err # "none" \/ n.state \notin {"magnitudeDigits", "fractionDigits", "exponentDigits"}
        THEN [ok |-> FALSE, rep |-> 0]
        ELSE ToDecimal(n)

\* strtoll(text, &end, 0): a leading 0 makes the number octal; too large a
\* number is the largest; ok tells whether end is the end of the text.
ParseInt(text) ==
    LET signed == text # <<>> /\ text[1] \in {Plus, Minus}
        rest == IF signed THEN Tail(text) ELSE text
        radix == IF rest # <<>> /\ rest[1] = Zero THEN 8 ELSE 10
        good == CHOOSE k \in 0..Len(rest) : /\ \A i \in 1..k : rest[i] \in Zero..(Zero + radix - 1)
                                            /\ k < Len(rest) => rest[k + 1] \notin Zero..(Zero + radix - 1)
        abs == FoldLeft(LAMBDA v, c : IF v > Int64Max THEN v ELSE radix * v + (c - Zero), 0, SubSeq(rest, 1, good))
    IN  [ok |-> good = Len(rest) /\ good > 0,
         val |-> IF text # <<>> /\ text[1] = Minus
                 THEN IF abs > Int64Max THEN -Int64Max - 1 ELSE -abs
                 ELSE IF abs > Int64Max THEN Int64Max ELSE abs]
=============================================================================
