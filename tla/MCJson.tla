-------------------------------- MODULE MCJson --------------------------------
(***************************************************************************)
(* Checks of the bundled jsoncpp on bounded inputs.  part says which       *)
(* question a behaviour is about: an array under its operations ("array"), *)
(* or a text that grows by one piece per step and is handed to the reader  *)
(* or the writer: a number ("number"), the bytes of a string ("string"), a *)
(* document ("document"); or one value ("value").                          *)
(***************************************************************************)
EXTENDS JsonReader, JsonWriter, TLC

CONSTANTS MaxArray,     \* length of the array under test
          MaxNumber,    \* characters in a number
          MaxString,    \* bytes in a string
          MaxAny,       \* lexemes in a document of any shape
          MaxDocument,  \* lexemes in a document the reader has not refused
          StackLimit    \* OurFeatures::stackLimit_

VARIABLES part,  \* the question
          arr,   \* an array value
          text,  \* a number, a string, or the lexemes of a document
          val    \* a value

vars == <<part, arr, text, val>>

-----------------------------------------------------------------------------
(* Inputs.                                                                 *)

NumberChars == {MINUS, PLUS, DOT, 101} \cup {48, 49, 50, 53, 54, 56, 57}
StringBytes == {QUOTE, BSLASH, 7, 10, 97, 127, 128, 130, 159, 160, 172, 194, 226, 237, 240}

(* The lexemes of a document and their characters.                         *)
Lexemes == [a |-> <<34, 97, 34>>, n |-> <<49>>, o |-> <<123>>, c |-> <<125>>,
            s |-> <<91>>, e |-> <<93>>, comma |-> <<44>>, colon |-> <<58>>,
            comment |-> <<47, 42, 42, 47>>, junk |-> <<35>>]
Chars(d) == FoldLeft(LAMBDA acc, l : acc \o Lexemes[l] \o <<SPACE>>, <<>>, d)
WithoutComments(d) == SelectSeq(d, LAMBDA l : l # "comment")

Defaults == setDefaults(StackLimit)
Strict == strictMode(StackLimit)

(* Which lexeme may follow which in JSON.  Documents up to MaxAny lexemes  *)
(* are arbitrary; a longer one extends a document without such an error.   *)
Follows == [a |-> {"colon", "comma", "c", "e"}, n |-> {"comma", "c", "e"}, o |-> {"a", "c"},
            c |-> {"comma", "c", "e"}, s |-> {"a", "n", "o", "s", "e"}, e |-> {"comma", "c", "e"},
            comma |-> {"a", "n", "o", "s", "c", "e"}, colon |-> {"a", "n", "o", "s"}, junk |-> {}]
Plausible(d) ==
    LET w == WithoutComments(d)
    IN  \A i \in 1 .. Len(w) - 1 : w[i + 1] \in Follows[w[i]]

Scalars == {nullValue, booleanValue(TRUE), booleanValue(FALSE)}
           \cup {intValue(n) : n \in {MinLargestInt, MinInt - 1, MinInt, -1, 0, MaxInt, MaxInt + 1, MaxLargestInt}}
           \cup {uintValue(n) : n \in {0, MaxInt, MaxUInt, MaxUInt + 1, MaxLargestInt + 1, MaxLargestUInt}}
           \cup {realValue(r) : r \in {NaN, Inf(1), Inf(-1), Fin(0), Fin(50), Fin(-125),
                                       Fin((MinInt - 1) * Scale), Fin(MaxInt * Scale + 50),
                                       Fin((MaxUInt + 1) * Scale), Fin(MaxLargestInt * Scale),
                                       Fin((MaxLargestInt + 1) * Scale),
                                       Fin((MaxLargestUInt + 1) * Scale)}}
           \cup {stringValue(s) : s \in {<<>>, <<97>>, <<97, 98>>, <<98>>, <<34, 10>>, <<195, 169>>}}
Small == {nullValue, intValue(1), stringValue(<<97>>), arrayValue(EmptyMap), objectValue(EmptyMap),
          realValue(Fin(200))}
Maps(Keys, S) == UNION {[K -> S] : K \in SUBSET Keys}
Level1 == {arrayValue(m) : m \in Maps(0 .. 2, {nullValue, intValue(1), stringValue(<<97>>)})}
          \cup {objectValue(m) : m \in Maps({<<97>>, <<98>>, <<97, 97>>}, {nullValue, intValue(1)})}
Level2 == {arrayValue(0 :> x @@ 1 :> y) : x \in Level1, y \in Small}
          \cup {objectValue(<<98>> :> x @@ <<>> :> y) : x \in Level1, y \in Small}
Values == Scalars \cup Small \cup Level1 \cup Level2

-----------------------------------------------------------------------------
Init ==
    /\ part \in {"array", "number", "string", "document", "value"}
    /\ arr = nullValue
    /\ text = <<>>
    /\ val \in IF part = "value" THEN Values ELSE {nullValue}

Stored == {nullValue, intValue(1), intValue(2)}

(* One operation on the array, whether it throws or not.                   *)
ArrayStep ==
    /\ part = "array"
    /\ \E i \in 0 .. MaxArray - 1, x \in Stored :
         \/ arr' = append(arr, x).v
         \/ arr' = insert(arr, i, x).v
         \/ arr' = removeIndex(arr, i).v
         \/ arr' = resize(arr, i).v
         \/ arr' = clear(arr).v
         \/ arr' = LET ref == refIndex(arr, i) IN arrayValue(With(map_(ref.v), i, x))
    /\ size(arr') <= MaxArray
    /\ UNCHANGED <<part, text, val>>

Grow(S, max) == /\ Len(text) < max
                /\ \E c \in S : text' = Append(text, c)
                /\ UNCHANGED <<part, arr, val>>

NumberStep == part = "number" /\ Grow(NumberChars, MaxNumber)
StringStep == part = "string" /\ Grow(StringBytes, MaxString)
DocumentStep == /\ part = "document"
                /\ Len(text) < MaxAny \/ Plausible(text)
                /\ Grow(DOMAIN Lexemes, MaxDocument)

Next == ArrayStep \/ NumberStep \/ StringStep \/ DocumentStep

Spec == Init /\ [][Next]_vars

-----------------------------------------------------------------------------
(* Properties.                                                             *)

(* An array behaves as a sequence of values under append, insert,          *)
(* removeIndex, resize, clear and assignment through operator[], although  *)
(* it is stored as a map with gaps (json_value.cpp).                       *)
Sequence == INSTANCE JsonSequence
              WITH items <- [i \in 1 .. size(arr) |-> atIndex(arr, i - 1).ret],
                   Elements <- Stored, Nil <- nullValue, MaxSize <- MaxArray

(* decodeNumber reads an integer text exactly, as an int if it fits, else  *)
(* as a uint if it fits, and as the double of the same value otherwise: no *)
(* digit overflows the accumulator, at either end of the two ranges.       *)
NumberExact ==
    LET negative == text[1] = MINUS
        digits == IF negative THEN Tail(text) ELSE text
        n == (IF negative THEN -1 ELSE 1)
             * FoldLeft(LAMBDA acc, c : 10 * acc + (c - ZERO), 0, digits)
    IN  part = "number" /\ text # <<>> /\ digits # <<>> /\ (\A c \in Range(digits) : IsDigit(c))
        => decodeNumber(text) =
              [ok |-> TRUE,
               value |-> CASE n \in MinLargestInt .. MaxLargestInt -> intValue(n)
                           [] n \in MaxLargestInt + 1 .. MaxLargestUInt -> uintValue(n)
                           [] OTHER -> realValue(Fin(n * Scale))]

(* Well-formed UTF-8: the first byte fixes the range of the second.        *)
Utf8Heads == {<<194 .. 223, 128 .. 191, 2>>, <<{224}, 160 .. 191, 3>>,
              <<(225 .. 236) \cup {238, 239}, 128 .. 191, 3>>, <<{237}, 128 .. 159, 3>>,
              <<{240}, 144 .. 191, 4>>, <<241 .. 243, 128 .. 191, 4>>, <<{244}, 128 .. 143, 4>>}
ValidUtf8(s) ==
    LET from[i \in 1 .. Len(s) + 1] ==
          \/ i > Len(s)
          \/ i <= Len(s) /\ s[i] < 128 /\ from[i + 1]
          \/ \E h \in Utf8Heads :
               /\ i + h[3] - 1 <= Len(s) /\ s[i] \in h[1] /\ s[i + 1] \in h[2]
               /\ \A k \in i + 2 .. i + h[3] - 1 : s[k] \in 128 .. 191
               /\ from[i + h[3]]
    IN  from[1]

(* Whatever bytes a string holds, its quoted form is one string token that *)
(* the reader decodes; it decodes to the same string when the bytes are    *)
(* well-formed UTF-8, or always when they are written as they are.         *)
QuotedReadsBack ==
    part = "string" =>
      \A emitUTF8 \in BOOLEAN :
        LET quoted == valueToQuotedStringN(text, emitUTF8)
            token == readToken(quoted, 1, Defaults)
            back == decodeString(quoted, 1, Len(quoted))
        IN  /\ token.type = "string" /\ token.next = Len(quoted) + 1
            /\ back.ok
            /\ emitUTF8 \/ ValidUtf8(text) => back.s = text

(* The grammar of JSON over lexemes, with or without trailing commas: the  *)
(* lexemes i to j of d are one value.                                      *)
RECURSIVE IsValue(_, _, _, _)
IsList(d, i, j, trailing, IsItem(_, _)) ==
    LET from[k \in i .. j + 1] ==
          \/ IsItem(k, j)
          \/ \E m \in k .. j : /\ d[m] = "comma" /\ IsItem(k, m - 1)
                              /\ \/ from[m + 1]
                                 \/ trailing /\ m = j
    IN  i > j \/ from[i]
IsValue(d, i, j, trailing) ==
    \/ i = j /\ d[i] \in {"a", "n"}
    \/ /\ i < j /\ d[i] = "s" /\ d[j] = "e"
       /\ IsList(d, i + 1, j - 1, trailing, LAMBDA k, m : IsValue(d, k, m, trailing))
    \/ /\ i < j /\ d[i] = "o" /\ d[j] = "c"
       /\ IsList(d, i + 1, j - 1, trailing,
                 LAMBDA k, m : /\ k + 2 <= m /\ d[k] = "a" /\ d[k + 1] = "colon"
                               /\ IsValue(d, k + 2, m, trailing))

Opened(d, j) == Cardinality({i \in 1 .. j : d[i] \in {"o", "s"}})
                - Cardinality({i \in 1 .. j : d[i] \in {"c", "e"}})
(* No value in the lexemes 1 to j is nested deeper than limit; a name is   *)
(* no value.                                                               *)
NestedAtMost(d, j, limit) ==
    \A i \in 1 .. j :
        /\ Opened(d, i) <= limit
        /\ d[i] \in {"a", "n"} /\ ~(i < j /\ d[i + 1] = "colon") => Opened(d, i) < limit
(* The innermost open bracket at i is that of an object.                   *)
InObject(d, i) ==
    \E k \in 1 .. i - 1 : /\ d[k] = "o" /\ Opened(d, i - 1) = Opened(d, k)
                         /\ \A m \in k .. i - 1 : Opened(d, m) >= Opened(d, k)
CommentAfterMember(d) ==
    \E i \in 2 .. Len(d) : /\ d[i] = "comment" /\ InObject(d, i)
                          /\ d[i - 1] \in {"a", "n", "c", "e"}
(* All members have one name in the model, two of them are duplicates.     *)
DuplicateNames(d) == \E i \in 1 .. Len(d) : d[i] = "comma" /\ InObject(d, i)

(* A document without comments, and what the reader made of it.            *)
DerivedIff(d, read, strict) ==
    /\ read.ok <=> \E j \in 1 .. Len(d) : /\ IsValue(d, 1, j, TRUE)
                                        /\ NestedAtMost(d, j, StackLimit)
    /\ strict.ok <=> /\ d # <<>> /\ d[1] \in {"o", "s"}
                     /\ IsValue(d, 1, Len(d), FALSE)
                     /\ NestedAtMost(d, Len(d), StackLimit)
                     /\ ~DuplicateNames(d)
(* What the reader made of a document, and of it without its comments.     *)
SameMeaning(d, read, plain) ==
    read.ok /\ ~CommentAfterMember(d) => plain.ok /\ plain.v = read.v

(* The reader accepts what the grammar of JSON, with trailing commas,      *)
(* derives, up to the stack limit, and looks at nothing after the first    *)
(* value; in strict mode the document is exactly one array or object.  A   *)
(* comment that does not follow a member's value never changes what a      *)
(* document means (json_reader.cpp, OurReader).                            *)
ReadsGrammar ==
    part = "document" =>
      IF "comment" \notin Range(text)
      THEN DerivedIff(text, parse(Chars(text), Defaults), parse(Chars(text), Strict))
      ELSE SameMeaning(text, parse(Chars(text), Defaults),
                       parse(Chars(WithoutComments(text)), Defaults))

(* What is left of a value when it has been written: an unsigned number    *)
(* that fits an int, a gap of an array and NaN have no text of their own.  *)
RECURSIVE Canonical(_)
Canonical(v) ==
    CASE type(v) = "uint" /\ v[2] <= MaxLargestInt -> intValue(v[2])
      [] v = realValue(NaN) -> nullValue
      [] type(v) = "array" -> arrayValue([i \in 0 .. size(v) - 1 |-> Canonical(atIndex(v, i).ret)])
      [] type(v) = "object" -> objectValue([k \in DOMAIN map_(v) |-> Canonical(map_(v)[k])])
      [] OTHER -> v

ReadsAs(read, v) == read.ok /\ read.v = v

(* What the agent's NodeTreeWriter, the default writer or an indented one  *)
(* makes of a value, the reader turns back into that value, strictly if it *)
(* is an array or an object: no layout (one line, several lines, collected *)
(* elements) loses, repeats or reorders an element.  Infinity is left out: *)
(* its text, 1e+9999, is out of the reader's range.                        *)
RoundTrip ==
    part = "value" /\ ~(type(val) = "real" /\ val[2][1] = "inf") =>
      \A set \in {NodeTreeWriter, writerDefaults, [writerDefaults EXCEPT !.commentStyle = "None"]} :
        ReadsAs(parse(write(val, set), IF type(val) \in {"array", "object"} THEN strictMode(9)
                                       ELSE setDefaults(9)),
                Canonical(val))

(* isConvertibleTo answers TRUE exactly when the conversion does not       *)
(* throw, and a value for which isInt, isUInt, isInt64 or isUInt64 holds   *)
(* is converted to itself.                                                 *)
ConversionsAgree ==
    part = "value" =>
      /\ isConvertibleTo(val, "int") <=> asInt(val).ok
      /\ isConvertibleTo(val, "uint") <=> asUInt(val).ok
      /\ isConvertibleTo(val, "real") <=> asDouble(val).ok
      /\ isConvertibleTo(val, "boolean") <=> asBool(val).ok
      /\ isConvertibleTo(val, "string") <=> asString(val).ok
      /\ \A p \in {<<isInt(val), asInt(val)>>, <<isUInt(val), asUInt(val)>>,
                    <<isInt64(val), asInt64(val)>>, <<isUInt64(val), asUInt64(val)>>} :
            p[1] => /\ p[2].ok
                    /\ IF type(val) = "real" THEN val[2] = Fin(p[2].ret * Scale)
                                             ELSE val[2] = p[2].ret

(* operator< orders values that hold no NaN totally: of two different      *)
(* values exactly one is less, and less is transitive (checked on the      *)
(* scalars and flat containers).                                           *)
Ordered == (Scalars \ {realValue(NaN)}) \cup Small \cup Level1
OrderIsTotal ==
    part = "value" /\ val \in Ordered =>
      \A w \in Ordered :
         /\ Less(val, w) <=> val # w /\ ~Less(w, val)
         /\ Less(val, w) => \A u \in Scalars \ {realValue(NaN)} : Less(w, u) => Less(val, u)

(* The operations on single values: what isConvertibleTo promises, asInt,  *)
(* asUInt, asDouble, asBool and asString keep, and operator< is an order.  *)
ValuesSound == ConversionsAgree /\ OrderIsTotal
=============================================================================
