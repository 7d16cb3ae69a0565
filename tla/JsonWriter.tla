------------------------------ MODULE JsonWriter ------------------------------
(***************************************************************************)
(* BuiltStyledStreamWriter of the bundled jsoncpp (json_writer.cpp): what  *)
(* turns a span into the text that is sent.  w is the writer: the text out *)
(* written to the stream, childValues_ and addChildValues_ (the elements   *)
(* of an array that may fit on one line are first collected instead of     *)
(* written), indented_ and indentString_.  Values carry no comments here,  *)
(* so the functions that write them are left out; commentStyle All still   *)
(* puts every array on several lines.                                      *)
(***************************************************************************)
EXTENDS JsonConvert

CONSTANT RightMargin   \* rightMargin_ (74)

ASSUME MarginAssumption == RightMargin \in Nat

SPACE == 32
TAB == 9
NEWLINE == 10
COMMA == 44
COLON == 58

(* StreamWriterBuilder::newStreamWriter: the writer's options from the     *)
(* builder's settings.                                                     *)
newStreamWriter(set) ==
    [indentation |-> set.indentation,
     all |-> set.commentStyle = "All",
     colonSymbol |-> CASE set.enableYAMLCompatibility -> <<COLON, SPACE>>
                       [] ~set.enableYAMLCompatibility /\ set.indentation = <<>> -> <<COLON>>
                       [] OTHER -> <<SPACE, COLON, SPACE>>,
     nullSymbol |-> IF set.dropNullPlaceholders THEN <<>> ELSE NullText,
     useSpecialFloats |-> set.useSpecialFloats,
     emitUTF8 |-> set.emitUTF8]

(* StreamWriterBuilder::setDefaults.                                       *)
writerDefaults ==
    [commentStyle |-> "All", indentation |-> <<TAB>>, enableYAMLCompatibility |-> FALSE,
     dropNullPlaceholders |-> FALSE, useSpecialFloats |-> FALSE, emitUTF8 |-> FALSE]

(* The settings of the agent's NodeTreeWriter.                             *)
NodeTreeWriter == [writerDefaults EXCEPT !.commentStyle = "None", !.indentation = <<>>]

NewWriter == [out |-> <<>>, childValues |-> <<>>, addChildValues |-> FALSE,
              indented |-> TRUE, indentString |-> <<>>]

Out(w, text) == [w EXCEPT !.out = @ \o text]

\* Mutant of pushValue: an element that should be collected is written.
pushValueAtOnce(w, text) == Out(w, text)

pushValue(w, text) ==
    IF w.addChildValues THEN [w EXCEPT !.childValues = Append(@, text)] ELSE Out(w, text)

writeIndent(w, o) ==
    IF o.indentation # <<>> THEN Out(w, <<NEWLINE>> \o w.indentString) ELSE w

writeWithIndent(w, text, o) ==
    [Out(IF w.indented THEN w ELSE writeIndent(w, o), text) EXCEPT !.indented = FALSE]

indent(w, o) == [w EXCEPT !.indentString = @ \o o.indentation]
unindent(w, o) == [w EXCEPT !.indentString = SubSeq(@, 1, Len(@) - Len(o.indentation))]

RECURSIVE writeValue(_, _, _)

Element(v, index) == atIndex(v, index).ret
IsNested(v) == type(v) \in {"array", "object"} /\ ~empty(v)

(* isMultilineArray: too many elements, a nested element, or elements that *)
(* together do not fit the margin.  In the last two cases w.childValues    *)
(* holds their texts afterwards.                                           *)
isMultilineArray(w, v, o) ==
    LET n == size(v)
        many == n * 3 >= RightMargin \/ \E k \in 0 .. n - 1 : IsNested(Element(v, k))
        collected == FoldLeft(LAMBDA acc, k : writeValue(acc, Element(v, k), o),
                              [w EXCEPT !.childValues = <<>>, !.addChildValues = TRUE],
                              [k \in 1 .. n |-> k - 1])
        lineLength == FoldLeft(LAMBDA acc, text : acc + Len(text),
                               4 + (n - 1) * 2, collected.childValues)
    IN  IF many THEN [multi |-> TRUE, w |-> [w EXCEPT !.childValues = <<>>]]
        ELSE [multi |-> lineLength >= RightMargin,
              w |-> [collected EXCEPT !.addChildValues = FALSE]]

(* Texts with separators between them, to the stream.                      *)
Joined(texts, separator) ==
    FoldLeft(LAMBDA acc, k : acc \o (IF k > 1 THEN separator ELSE <<>>) \o texts[k],
             <<>>, [k \in 1 .. Len(texts) |-> k])

writeArrayValue(w, v, o) ==
    LET n == size(v)
        layout == IF o.all THEN [multi |-> TRUE, w |-> w] ELSE isMultilineArray(w, v, o)
        hasChildValue == layout.w.childValues # <<>>
        opened == indent(writeWithIndent(layout.w, <<91>>, o), o)
        Elem(acc, k) ==
          LET before == IF acc.indented THEN acc ELSE writeIndent(acc, o)
              element == IF hasChildValue
                         THEN writeWithIndent(acc, layout.w.childValues[k], o)
                         ELSE [writeValue([before EXCEPT !.indented = TRUE], Element(v, k - 1), o)
                                 EXCEPT !.indented = FALSE]
          IN  IF k = n THEN element ELSE Out(element, <<COMMA>>)
        pad == IF o.indentation = <<>> THEN <<>> ELSE <<SPACE>>
    IN  IF n = 0 THEN pushValue(w, <<91, 93>>)
        ELSE IF layout.multi
        THEN writeWithIndent(unindent(FoldLeft(Elem, opened, [k \in 1 .. n |-> k]), o), <<93>>, o)
        ELSE Out(layout.w, <<91>> \o pad \o Joined(layout.w.childValues, <<COMMA>> \o pad)
                           \o pad \o <<93>>)

(* The members of an object, in the order of their names.                  *)
writeObjectValue(w, v, o) ==
    LET names == SortedKeys(v)
        n == Len(names)
        Member(acc, k) ==
          LET named == Out(writeWithIndent(acc, valueToQuotedStringN(names[k], o.emitUTF8), o),
                           o.colonSymbol)
              member == writeValue(named, map_(v)[names[k]], o)
          IN  IF k = n THEN member ELSE Out(member, <<COMMA>>)
        opened == indent(writeWithIndent(w, <<123>>, o), o)
    IN  IF n = 0 THEN pushValue(w, <<123, 125>>)
        ELSE writeWithIndent(unindent(FoldLeft(Member, opened, [k \in 1 .. n |-> k]), o),
                             <<125>>, o)

writeValue(w, v, o) ==
    CASE type(v) = "null" -> pushValue(w, o.nullSymbol)
      [] type(v) = "int" -> pushValue(w, intToString(v[2]))
      [] type(v) = "uint" -> pushValue(w, uintToString(v[2]))
      [] type(v) = "real" -> pushValue(w, realToString(v[2], o.useSpecialFloats))
      [] type(v) = "string" -> pushValue(w, valueToQuotedStringN(v[2], o.emitUTF8))
      [] type(v) = "boolean" -> pushValue(w, boolToString(v[2]))
      [] type(v) = "array" -> writeArrayValue(w, v, o)
      [] type(v) = "object" -> writeObjectValue(w, v, o)

(* write: the text of a value.                                             *)
write(v, set) == writeValue(NewWriter, v, newStreamWriter(set)).out
=============================================================================
