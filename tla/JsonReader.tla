------------------------------ MODULE JsonReader ------------------------------
(***************************************************************************)
(* OurReader of the bundled jsoncpp (json_reader.cpp), the parser of the   *)
(* collector-agent's hello message.  A document is a sequence of character *)
(* codes and current_ a position in it; the functions of the class are     *)
(* operators from a position to a record with the next position.  Comments *)
(* are skipped, not collected: the agent sets "collectComments" to false.  *)
(*                                                                         *)
(* f is an OurFeatures record.  ok is the boolean a function returns,      *)
(* thrown is TRUE when it left with an exception.                          *)
(***************************************************************************)
EXTENDS JsonConvert

(* CharReaderBuilder::setDefaults and strictMode; the limit of 1000 nested *)
(* values is a parameter.                                                  *)
setDefaults(stackLimit) ==
    [allowComments |-> TRUE, allowTrailingCommas |-> TRUE, strictRoot |-> FALSE,
     allowDroppedNullPlaceholders |-> FALSE, allowNumericKeys |-> FALSE,
     allowSingleQuotes |-> FALSE, stackLimit |-> stackLimit, failIfExtra |-> FALSE,
     rejectDupKeys |-> FALSE, allowSpecialFloats |-> FALSE, skipBom |-> TRUE]
strictMode(stackLimit) ==
    [setDefaults(stackLimit) EXCEPT
        !.allowComments = FALSE, !.allowTrailingCommas = FALSE, !.strictRoot = TRUE,
        !.failIfExtra = TRUE, !.rejectDupKeys = TRUE]

-----------------------------------------------------------------------------
(* The lexer.                                                              *)

IsSpace(c) == c \in {32, 9, 13, 10}
skipSpaces(text, i) == SkipWhile(text, i, IsSpace)

BOM == <<239, 187, 191>>
skipBom(text, skip) == IF skip /\ IsPrefix(BOM, text) THEN 4 ELSE 1

At(next, ok) == [next |-> next, ok |-> ok]
match(text, i, pattern) ==
    IF SubSeq(text, i, i + Len(pattern) - 1) = pattern THEN At(i + Len(pattern), TRUE)
    ELSE At(i, FALSE)

(* To the end of the line, or of the text.                                 *)
readCppStyleComment(text, i) ==
    LET stop == SkipWhile(text, i, LAMBDA c : c \notin {10, 13})
        dos == CharAt(text, stop) = 13 /\ CharAt(text, stop + 1) = 10
    IN  At(IF stop > Len(text) THEN stop ELSE IF dos THEN stop + 2 ELSE stop + 1, TRUE)

(* To the first "*/"; without one, to the last character, which must then  *)
(* be a '/'.                                                               *)
readCStyleComment(text, i) ==
    LET n == Len(text)
        close == {k \in i .. n - 1 : text[k] = 42 /\ text[k + 1] = 47}
        last == IF close # {} THEN Min(close) + 1 ELSE IF i <= n THEN n ELSE i
    IN  At(IF last <= n THEN last + 1 ELSE last, CharAt(text, last) = 47)

readComment(text, i) ==
    CASE CharAt(text, i) = 42 -> readCStyleComment(text, i + 1)
      [] CharAt(text, i) = 47 -> readCppStyleComment(text, i + 1)
      [] OTHER -> At(IF i <= Len(text) THEN i + 1 ELSE i, FALSE)

(* To the closing quote; a backslash takes the next character with it.     *)
readString(text, i, quote) ==
    LET from[k \in i .. Len(text) + 2] ==
          CASE k > Len(text) -> At(Len(text) + 1, FALSE)
            [] k <= Len(text) /\ text[k] = BSLASH -> from[k + 2]
            [] k <= Len(text) /\ text[k] = quote -> At(k + 1, TRUE)
            [] OTHER -> from[k + 1]
    IN  from[i]

(* The tokens that are one character.                                      *)
Punctuation == {<<123, "objectBegin">>, <<125, "objectEnd">>, <<91, "arrayBegin">>,
                <<93, "arrayEnd">>, <<44, "arraySeparator">>, <<58, "memberSeparator">>}

(* After a sign: a number, or the rest of "Infinity" when special floats   *)
(* are on; number is what readNumber found there.                          *)
Signed(text, number, token, f) ==
    CASE number.ok -> [type |-> "number", next |-> number.next, ok |-> TRUE]
      [] ~number.ok /\ f.allowSpecialFloats -> match(text, number.next, Tail(InfinityText)) @@ [type |-> token]
      [] OTHER -> [type |-> token, next |-> number.next, ok |-> FALSE]

(* readToken, after the spaces: the type, the start and the end of the     *)
(* token at start.  A token that is not well formed has type error.        *)
TokenAt(text, start, f) ==
    LET c == CharAt(text, start)
        i == IF start <= Len(text) THEN start + 1 ELSE start
        Tok(t, r) == [type |-> IF r.ok THEN t ELSE "error", start |-> start,
                      next |-> r.next, ok |-> r.ok]
        TypedTok(s) == Tok(s.type, s)
        Word(t, word) == Tok(t, match(text, i, Tail(word)))
        bad == At(i, FALSE)
        punct == {p \in Punctuation : p[1] = c}
    IN  CASE punct # {} -> Tok((CHOOSE p \in punct : TRUE)[2], At(i, TRUE))
          [] c = QUOTE -> Tok("string", readString(text, i, QUOTE))
          [] c = 39 -> IF f.allowSingleQuotes THEN Tok("string", readString(text, i, 39))
                       ELSE Tok("error", bad)
          [] c = 47 -> Tok("comment", readComment(text, i))
          [] IsDigit(c) -> Tok("number", readNumber(text, i, FALSE))
          [] c \in {MINUS, PLUS} ->
               TypedTok(Signed(text, readNumber(text, i, TRUE),
                               IF c = MINUS THEN "negInf" ELSE "posInf", f))
          [] c = 116 -> Word("true", TrueText)
          [] c = 102 -> Word("false", FalseText)
          [] c = 110 -> Word("null", NullText)
          [] c = 78 -> IF f.allowSpecialFloats THEN Word("NaN", NaNText) ELSE Tok("error", bad)
          [] c = 73 -> IF f.allowSpecialFloats THEN Word("posInf", InfinityText)
                       ELSE Tok("error", bad)
          [] c = 0 -> Tok("endOfStream", At(i, TRUE))
          [] OTHER -> Tok("error", bad)
readToken(text, at, f) == TokenAt(text, skipSpaces(text, at), f)

Tokens == [type : STRING, start : Int, next : Int, ok : BOOLEAN]

(* Only where comments are allowed; elsewhere a comment is a token.        *)
skipCommentTokens(text, i, f) ==
    LET from[t \in Tokens] ==
          IF f.allowComments /\ t.type = "comment" THEN from[readToken(text, t.next, f)] ELSE t
    IN  from[readToken(text, i, f)]

(* The loops of readObject and readArray over comment tokens, which do not *)
(* look at allowComments.                                                  *)
SkipComments(text, token, f) ==
    LET from[t \in Tokens] ==
          IF t.type = "comment" /\ t.ok THEN from[readToken(text, t.next, f)] ELSE t
    IN  from[token]

(* The position after the first token of that type, or the end.            *)
recoverFromError(text, i, until, f) ==
    LET from[t \in Tokens] ==
          IF t.type \in {until, "endOfStream"} THEN t.next ELSE from[readToken(text, t.next, f)]
    IN  from[readToken(text, i, f)]

-----------------------------------------------------------------------------
(* The parser.  v is the value of the current node when the function       *)
(* returns; after an error it is what had been read until then.            *)

Read(v, next) == [ok |-> TRUE, thrown |-> FALSE, v |-> v, next |-> next]
Failed(v, next) == [ok |-> FALSE, thrown |-> FALSE, v |-> v, next |-> next]
Thrown(v) == [ok |-> FALSE, thrown |-> TRUE, v |-> v, next |-> 0]

TokenText(text, token) == SubSeq(text, token.start, token.next - 1)

RECURSIVE readValue(_, _, _, _, _)

(* readObject, from before a member name: map holds the members so far and *)
(* name the last one's name, which is empty for a new object.              *)
RECURSIVE readObject(_, _, _, _, _, _)

RecoverObject(text, map, at, f) ==
    Failed(objectValue(map), recoverFromError(text, at, "objectEnd", f))

(* What follows a member: the end of the object, or anything else, which   *)
(* is taken for a comma once a comment has been skipped.                   *)
ObjectClosing(text, map, key, closing, depth, f) ==
    IF closing.type = "objectEnd" THEN Read(objectValue(map), closing.next)
    ELSE readObject(text, closing.next, map, key, depth, f)
ObjectComma(text, map, key, comma, depth, f) ==
    IF comma.type \notin {"objectEnd", "arraySeparator", "comment"}
    THEN RecoverObject(text, map, comma.next, f)
    ELSE ObjectClosing(text, map, key, SkipComments(text, comma, f), depth, f)

(* member is what readValue made of the value; the node is in the map      *)
(* already when its value is refused.                                      *)
ObjectMember(text, map, key, member, depth, f) ==
    CASE member.thrown -> Thrown(objectValue(map))
      [] ~member.thrown /\ ~member.ok -> RecoverObject(text, map, member.next, f)
      [] OTHER -> ObjectComma(text, map, key, readToken(text, member.next, f), depth, f)
ObjectValue(text, map, key, member, depth, f) ==
    ObjectMember(text, With(map, key, member.v), key, member, depth, f)
ObjectColon(text, map, key, colon, depth, f) ==
    IF colon.type # "memberSeparator" THEN RecoverObject(text, map, colon.next, f)
    ELSE ObjectValue(text, map, key,
                     readValue(text, colon.next,
                               IF key \in DOMAIN map THEN map[key] ELSE nullValue, depth + 1, f),
                     depth, f)

(* The name of a member: a string, or a number under allowNumericKeys.     *)
NumericName(number) == [ok |-> number.ok, s |-> asString(number.value).ret]
MemberName(text, token, f) ==
    CASE token.type = "string" -> decodeString(text, token.start, token.next - 1)
      [] token.type = "number" /\ f.allowNumericKeys ->
           NumericName(decodeNumber(TokenText(text, token)))
      [] OTHER -> BadString
ObjectName(text, map, name, next, depth, f) ==
    IF ~name.ok \/ (f.rejectDupKeys /\ name.s \in DOMAIN map)
    THEN RecoverObject(text, map, next, f)
    ELSE ObjectColon(text, map, name.s, readToken(text, next, f), depth, f)

ObjectToken(text, token, map, name, depth, f) ==
    CASE ~token.ok -> RecoverObject(text, map, token.next, f)
      [] token.ok /\ token.type = "objectEnd" /\ (name = <<>> \/ f.allowTrailingCommas) ->
           Read(objectValue(map), token.next)
      [] OTHER -> ObjectName(text, map, MemberName(text, token, f), token.next, depth, f)
readObject(text, i, map, name, depth, f) ==
    ObjectToken(text, SkipComments(text, readToken(text, i, f), f), map, name, depth, f)

\* Mutant of ArrayCloses: a trailing comma is allowed whatever the feature says.
ArrayClosesAlways(text, at, array, f) == CharAt(text, at) = 93

(* A ']' where an element could start.                                     *)
ArrayCloses(text, at, array, f) ==
    /\ CharAt(text, at) = 93
    /\ size(array) = 0 \/ (f.allowTrailingCommas /\ ~f.allowDroppedNullPlaceholders)

(* readArray, from before the element at index size.                       *)
RECURSIVE readArray(_, _, _, _, _)

RecoverArray(text, array, at, f) == Failed(array, recoverFromError(text, at, "arrayEnd", f))
ArraySeparator(text, array, token, depth, f) ==
    CASE token.type = "arraySeparator" -> readArray(text, token.next, array, depth, f)
      [] token.type = "arrayEnd" -> Read(array, token.next)
      [] OTHER -> RecoverArray(text, array, token.next, f)
ArrayElement(text, array, element, depth, f) ==
    CASE element.thrown -> Thrown(array)
      [] ~element.thrown /\ ~element.ok -> RecoverArray(text, array, element.next, f)
      [] OTHER -> ArraySeparator(text, array,
                                 SkipComments(text, readToken(text, element.next, f), f), depth, f)
ArrayWith(text, array, element, depth, f) ==
    ArrayElement(text, append(array, element.v).v, element, depth, f)
ArrayAt(text, at, array, depth, f) ==
    IF ArrayCloses(text, at, array, f) THEN Read(array, at + 1)
    ELSE ArrayWith(text, array, readValue(text, at, nullValue, depth + 1, f), depth, f)
readArray(text, i, array, depth, f) == ArrayAt(text, skipSpaces(text, i), array, depth, f)

(* readValue: depth is the number of nodes on the stack, v the value of    *)
(* the node before it is read.                                             *)
Decode(v, result, next) == IF result.ok THEN Read(result.value, next) ELSE Failed(v, next)
StringResult(string) == [ok |-> string.ok, value |-> stringValue(string.s)]
ValueToken(text, token, v, depth, f) ==
    LET t == token.type
        Const(x) == Read(x, token.next)
    IN  CASE t = "objectBegin" -> readObject(text, token.next, EmptyMap, <<>>, depth, f)
          [] t = "arrayBegin" -> readArray(text, token.next, arrayValue(EmptyMap), depth, f)
          [] t = "number" -> Decode(v, decodeNumber(TokenText(text, token)), token.next)
          [] t = "string" -> Decode(v, StringResult(decodeString(text, token.start, token.next - 1)),
                                    token.next)
          [] t = "true" -> Const(booleanValue(TRUE))
          [] t = "false" -> Const(booleanValue(FALSE))
          [] t = "null" -> Const(nullValue)
          [] t = "NaN" -> Const(realValue(NaN))
          [] t = "posInf" -> Const(realValue(Inf(1)))
          [] t = "negInf" -> Const(realValue(Inf(-1)))
          [] t \in {"arraySeparator", "objectEnd", "arrayEnd"} /\ f.allowDroppedNullPlaceholders ->
               Read(nullValue, token.next - 1)
          [] OTHER -> Failed(v, token.next)
readValue(text, i, v, depth, f) ==
    IF depth > f.stackLimit THEN Thrown(v)
    ELSE ValueToken(text, skipCommentTokens(text, i, f), v, depth, f)

(* parse: the first value of the document; what follows it is looked at    *)
(* only under failIfExtra.                                                 *)
Finish(text, root, f) ==
    IF root.thrown THEN root
    ELSE [root EXCEPT !.ok =
             /\ @
             /\ f.failIfExtra => skipCommentTokens(text, root.next, f).type = "endOfStream"
             /\ f.strictRoot => type(root.v) \in {"array", "object"}]
parse(text, f) ==
    Finish(text, readValue(text, skipBom(text, f.skipBom), nullValue, 1, f), f)
=============================================================================
