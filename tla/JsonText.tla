------------------------------- MODULE JsonText -------------------------------
(***************************************************************************)
(* The text side of the bundled jsoncpp ("AliasJson"): how numbers and     *)
(* strings become JSON text (json_writer.cpp, json_tool.h) and how the     *)
(* reader turns the text of a number or of a string back into a value      *)
(* (json_reader.cpp, OurReader).  Characters are their codes, a text is a  *)
(* sequence of codes.  A position in a text is the index of the next       *)
(* character, as current_ is; Len + 1 is end_.                             *)
(*                                                                         *)
(* Integers keep a width, scaled down by the constants.  A double is a     *)
(* whole number of hundredths or one of the special values: printf and     *)
(* strtod (external) are exact on the numbers the model has.               *)
(***************************************************************************)
EXTENDS Integers, Sequences, SequencesExt

CONSTANTS MaxLargestUInt,  \* Value::maxLargestUInt (2^64 - 1)
          MaxLargestInt    \* Value::maxLargestInt  (2^63 - 1)

MinLargestInt == -MaxLargestInt - 1

ASSUME WidthAssumption ==
    /\ MaxLargestInt \in Nat /\ MaxLargestUInt = 2 * MaxLargestInt + 1
    /\ MaxLargestInt >= 10     \* the static_asserts of decodeNumber

QUOTE == 34
BSLASH == 92
ZERO == 48
NINE == 57
MINUS == 45
PLUS == 43
DOT == 46
LetterU == 117
IsDigit(c) == c \in ZERO .. NINE
IsHexDigit(c) == IsDigit(c) \/ c \in 97 .. 102 \/ c \in 65 .. 70

(* The character at position i, or 0 past the end, as getNextChar.         *)
CharAt(text, i) == IF i <= Len(text) THEN text[i] ELSE 0
(* The position after the run of characters satisfying P that starts at i. *)
SkipWhile(text, i, P(_)) ==
    LET stop == {j \in i .. Len(text) : ~P(text[j])}
    IN  IF stop = {} THEN Len(text) + 1 ELSE CHOOSE j \in stop : \A k \in stop : j <= k

-----------------------------------------------------------------------------
(* Numbers to text.                                                        *)

Scale == 100
Fin(n) == <<"fin", n>>     \* the double n / Scale
NaN == <<"nan", 0>>
Inf(sign) == <<"inf", sign>>

(* The decimal digits of a natural number, least significant last.         *)
uintToString(n) ==
    LET count == CHOOSE k \in 1 .. 10 : n < 10 ^ k /\ (k = 1 \/ n >= 10 ^ (k - 1))
    IN  [i \in 1 .. count |-> ZERO + ((n \div 10 ^ (count - i)) % 10)]

(* valueToString(LargestInt): the smallest integer has no opposite, its    *)
(* magnitude is computed as an unsigned number.                            *)
intToString(n) ==
    CASE n = MinLargestInt -> <<MINUS>> \o uintToString(MaxLargestInt + 1)
      [] n < 0 /\ n # MinLargestInt -> <<MINUS>> \o uintToString(-n)
      [] OTHER -> uintToString(n)

NullText == <<110, 117, 108, 108>>
TrueText == <<116, 114, 117, 101>>
FalseText == <<102, 97, 108, 115, 101>>
NaNText == <<78, 97, 78>>
InfinityText == <<73, 110, 102, 105, 110, 105, 116, 121>>
HugeText == <<49, 101, 43, 57, 57, 57, 57>>   \* 1e+9999

(* valueToString(double): a number that printed without '.' or 'e' gets    *)
(* ".0", so that it is still a double when it is read.                     *)
realToString(r, useSpecialFloats) ==
    CASE r[1] = "nan" -> IF useSpecialFloats THEN NaNText ELSE NullText
      [] r[1] = "inf" -> (IF r[2] < 0 THEN <<MINUS>> ELSE <<>>)
                         \o (IF useSpecialFloats THEN InfinityText ELSE HugeText)
      [] OTHER ->
           LET n == IF r[2] < 0 THEN -r[2] ELSE r[2]
               frac == n % Scale
               digits == CASE frac = 0 -> <<>>
                           [] frac # 0 /\ frac % 10 = 0 -> <<DOT, ZERO + (frac \div 10)>>
                           [] OTHER -> <<DOT, ZERO + (frac \div 10), ZERO + (frac % 10)>>
               printed == (IF r[2] < 0 THEN <<MINUS>> ELSE <<>>)
                          \o uintToString(n \div Scale) \o digits
           IN  IF DOT \in Range(printed) THEN printed ELSE printed \o <<DOT, ZERO>>

boolToString(b) == IF b THEN TrueText ELSE FalseText

-----------------------------------------------------------------------------
(* Strings to text.                                                        *)

doesAnyCharRequireEscaping(s) ==
    \E c \in Range(s) : c = BSLASH \/ c = QUOTE \/ c < 32 \/ c > 127

REPLACEMENT_CHARACTER == 65533
Low6(b) == b % 64
Decoded(cp, next) == [cp |-> cp, next |-> next]

(* The code point whose encoding starts at position i of s, and the        *)
(* position after it.  Continuation bytes are masked, not checked.         *)
utf8ToCodepoint(s, i) ==
    LET b == s[i]
        wanted == CASE b < 128 -> 1 [] b \in 128 .. 223 -> 2
                    [] b \in 224 .. 239 -> 3 [] b \in 240 .. 247 -> 4 [] OTHER -> 0
        missing == Len(s) - i + 1 < wanted
        cp == CASE wanted = 2 -> (b % 32) * 64 + Low6(s[i + 1])
                [] wanted = 3 -> (b % 16) * 4096 + Low6(s[i + 1]) * 64 + Low6(s[i + 2])
                [] OTHER -> (b % 8) * 262144 + Low6(s[i + 1]) * 4096
                            + Low6(s[i + 2]) * 64 + Low6(s[i + 3])
        smallest == CASE wanted = 2 -> 128 [] wanted = 3 -> 2048 [] OTHER -> 65536
        surrogate == wanted = 3 /\ cp \in 55296 .. 57343
    IN  CASE wanted = 1 -> Decoded(b, i + 1)
          [] wanted = 0 \/ (wanted > 1 /\ missing) -> Decoded(REPLACEMENT_CHARACTER, i + 1)
          [] OTHER -> Decoded(IF surrogate \/ cp < smallest THEN REPLACEMENT_CHARACTER ELSE cp,
                              i + wanted)

HexDigit(d) == IF d < 10 THEN ZERO + d ELSE 87 + d
toHex16Bit(x) ==
    [k \in 1 .. 4 |-> HexDigit((x \div 16 ^ (4 - k)) % 16)]
appendHex(x) == <<BSLASH, LetterU>> \o toHex16Bit(x)

(* The short escapes: what each character is written as after a backslash. *)
ShortEscapes == {<<QUOTE, QUOTE>>, <<BSLASH, BSLASH>>, <<8, 98>>, <<12, 102>>,
                 <<10, 110>>, <<13, 114>>, <<9, 116>>}

\* Mutant of escapedCodepoint: the surrogates are taken without subtracting 0x10000.
escapedCodepointUnshifted(cp) ==
    IF cp < 32 \/ cp \in 128 .. 65535 THEN appendHex(cp)
    ELSE IF cp < 128 THEN <<cp>>
    ELSE appendHex(55296 + ((cp \div 1024) % 1024)) \o appendHex(56320 + (cp % 1024))

(* How a code point is written when output is kept to ASCII.               *)
escapedCodepoint(cp) ==
    CASE cp < 32 -> appendHex(cp)
      [] cp \in 32 .. 127 -> <<cp>>
      [] cp \in 128 .. 65535 -> appendHex(cp)
      [] OTHER -> appendHex(55296 + (((cp - 65536) \div 1024) % 1024))
                  \o appendHex(56320 + ((cp - 65536) % 1024))

valueToQuotedStringN(s, emitUTF8) ==
    LET from[i \in 1 .. Len(s) + 1] ==
          IF i > Len(s) THEN <<QUOTE>>
          ELSE LET short == {e \in ShortEscapes : e[1] = s[i]}
                   point == utf8ToCodepoint(s, i)
               IN  CASE short # {} -> <<BSLASH, (CHOOSE e \in short : TRUE)[2]>> \o from[i + 1]
                     [] short = {} /\ emitUTF8 ->
                          (IF s[i] < 32 THEN appendHex(s[i]) ELSE <<s[i]>>) \o from[i + 1]
                     [] OTHER -> escapedCodepoint(point.cp) \o from[point.next]
    IN  IF doesAnyCharRequireEscaping(s) THEN <<QUOTE>> \o from[1]
        ELSE <<QUOTE>> \o s \o <<QUOTE>>

-----------------------------------------------------------------------------
(* Text to strings.                                                        *)

codePointToUTF8(cp) ==
    LET Cont(shift) == 128 + ((cp \div 64 ^ shift) % 64)
    IN  CASE cp < 128 -> <<cp>>
          [] cp \in 128 .. 2047 -> <<192 + ((cp \div 64) % 32), Cont(0)>>
          [] cp \in 2048 .. 65535 -> <<224 + ((cp \div 4096) % 16), Cont(1), Cont(0)>>
          [] cp \in 65536 .. 1114111 -> <<240 + ((cp \div 262144) % 8), Cont(2), Cont(1), Cont(0)>>
          [] OTHER -> <<>>

HexValue(c) == CASE IsDigit(c) -> c - ZERO [] c \in 97 .. 102 -> c - 87 [] OTHER -> c - 55
BadPoint == [ok |-> FALSE, cp |-> 0, next |-> 0]

(* Four hexadecimal digits at position i; end is the closing quote.        *)
decodeUnicodeEscapeSequence(text, i, end) ==
    IF end - i < 4 \/ \E k \in i .. i + 3 : ~IsHexDigit(text[k]) THEN BadPoint
    ELSE [ok |-> TRUE, next |-> i + 4,
          cp |-> FoldLeft(LAMBDA acc, c : acc * 16 + HexValue(c), 0, SubSeq(text, i, i + 3))]

(* A high surrogate must be followed by a second escape; whatever that is, *)
(* its low ten bits are taken.                                             *)
decodeUnicodeCodePoint(text, i, end) ==
    LET first == decodeUnicodeEscapeSequence(text, i, end)
        pair == decodeUnicodeEscapeSequence(text, first.next + 2, end)
    IN  CASE ~first.ok \/ first.cp \notin 55296 .. 56319 -> first
          [] OTHER ->
               IF \/ end - first.next < 6
                  \/ text[first.next] # BSLASH \/ text[first.next + 1] # LetterU
                  \/ ~pair.ok
               THEN BadPoint
               ELSE [pair EXCEPT !.cp = 65536 + (first.cp % 1024) * 1024 + (@ % 1024)]

BadString == [ok |-> FALSE, s |-> <<>>]

(* The string between the quotes at positions first and last of text.      *)
decodeString(text, first, last) ==
    LET escapes == {<<e[2], e[1]>> : e \in ShortEscapes} \cup {<<47, 47>>}
        from[i \in first + 1 .. last] ==
          LET then(c, next) == LET rest == from[next]
                               IN  [rest EXCEPT !.s = IF rest.ok THEN c \o @ ELSE @]
              escape == IF i + 1 < last THEN text[i + 1] ELSE -1
              short == {e \in escapes : e[1] = escape}
              point == decodeUnicodeCodePoint(text, i + 2, last)
          IN  CASE i = last \/ text[i] = QUOTE -> [ok |-> TRUE, s |-> <<>>]
                [] i # last /\ text[i] \notin {QUOTE, BSLASH} -> then(<<text[i]>>, i + 1)
                [] OTHER ->
                     CASE short # {} -> then(<<(CHOOSE e \in short : TRUE)[2]>>, i + 2)
                       [] short = {} /\ escape = LetterU /\ point.ok ->
                            then(codePointToUTF8(point.cp), point.next)
                       [] OTHER -> BadString
    IN  from[first + 1]

-----------------------------------------------------------------------------
(* Text to numbers.  A decoded number is a tagged pair, as the values of   *)
(* module JsonValue are.                                                   *)

Digits(text, i) == SkipWhile(text, i, IsDigit)
(* The position after the fraction, or the exponent, that may stand at i.  *)
Fraction(text, i) == IF CharAt(text, i) = DOT THEN Digits(text, i + 1) ELSE i
Exponent(text, i) ==
    IF CharAt(text, i) \in {101, 69}
    THEN Digits(text, i + (IF CharAt(text, i + 1) \in {PLUS, MINUS} THEN 2 ELSE 1))
    ELSE i

(* The end of the number whose first character is at position i - 1.  Any  *)
(* part may be empty.  With checkInf, an 'I' here means -Infinity.         *)
readNumber(text, i, checkInf) ==
    IF checkInf /\ CharAt(text, i) = 73 THEN [ok |-> FALSE, next |-> i + 1]
    ELSE [ok |-> TRUE, next |-> Exponent(text, Fraction(text, Digits(text, i)))]

DigitsValue(ds) == FoldLeft(LAMBDA acc, c : acc * 10 + (c - ZERO), 0, ds)
BadNumber == [ok |-> FALSE, value |-> <<"null", 0>>]
MaxExp10 == 3   \* the largest decimal exponent of a double (308), scaled

(* istream >> double: no digits, an exponent without digits or a number    *)
(* out of range set failbit, and decodeDouble reports an error.            *)
decodeDouble(tok) ==
    LET signed == tok[1] \in {PLUS, MINUS}
        int0 == IF signed THEN 2 ELSE 1
        int1 == SkipWhile(tok, int0, IsDigit)
        dot == CharAt(tok, int1) = DOT
        frac1 == IF dot THEN SkipWhile(tok, int1 + 1, IsDigit) ELSE int1
        int == SubSeq(tok, int0, int1 - 1)
        frac == IF dot THEN SubSeq(tok, int1 + 1, frac1 - 1) ELSE <<>>
        hasExp == frac1 <= Len(tok)
        expSigned == CharAt(tok, frac1 + 1) \in {PLUS, MINUS}
        expDigits == SubSeq(tok, frac1 + (IF expSigned THEN 2 ELSE 1), Len(tok))
        exp == IF ~hasExp THEN 0
               ELSE DigitsValue(expDigits) * (IF CharAt(tok, frac1 + 1) = MINUS THEN -1 ELSE 1)
        power == exp - Len(frac) + 2    \* in units of 1 / Scale
        mantissa == DigitsValue(int \o frac) * (IF tok[1] = MINUS THEN -1 ELSE 1)
        magnitude == IF power >= 0 THEN mantissa * 10 ^ power ELSE mantissa \div 10 ^ (-power)
    IN  IF \/ int \o frac = <<>>
           \/ hasExp /\ expDigits = <<>>
           \/ exp > MaxExp10
        THEN BadNumber
        ELSE [ok |-> TRUE, value |-> <<"real", Fin(magnitude)>>]

\* Mutant of Overflows: the last digit that fits is not looked at.
OverflowsNoLastDigit(value, digit, isLast, largest) ==
    value > largest \div 10 \/ (value = largest \div 10 /\ ~isLast)

(* One more digit would pass the largest number; a value at the threshold  *)
(* takes one last digit, if that is small enough.                          *)
Overflows(value, digit, isLast, largest) ==
    LET threshold == largest \div 10
        max_last_digit == largest % 10
    IN  value > threshold \/ (value = threshold /\ (~isLast \/ digit > max_last_digit))

(* The digits are accumulated in an unsigned integer as long as the result *)
(* fits; past that, or at any other character, the text is a double.       *)
decodeNumber(tok) ==
    LET negative == tok[1] = MINUS
        largest == IF negative THEN -MinLargestInt ELSE MaxLargestUInt
        tooLarge == -1
        from[i \in 1 .. Len(tok) + 1, value \in 0 .. MaxLargestUInt] ==
          IF i > Len(tok) THEN value
          ELSE LET digit == tok[i] - ZERO
               IN  IF ~IsDigit(tok[i]) \/ Overflows(value, digit, i = Len(tok), largest)
                   THEN tooLarge
                   ELSE from[i + 1, (value * 10 + digit) % (MaxLargestUInt + 1)]
        value == from[IF negative THEN 2 ELSE 1, 0]
    IN  CASE value = tooLarge -> decodeDouble(tok)
          [] value # tooLarge /\ negative -> [ok |-> TRUE, value |-> <<"int", -value>>]
          [] value # tooLarge /\ ~negative /\ value <= MaxLargestInt ->
               [ok |-> TRUE, value |-> <<"int", value>>]
          [] OTHER -> [ok |-> TRUE, value |-> <<"uint", value>>]
=============================================================================
