----------------------------- MODULE JsonConvert -----------------------------
(***************************************************************************)
(* The conversions and the order of AliasJson::Value (json_value.cpp): the *)
(* asX family, which throws when the value does not fit, the isX family    *)
(* and isConvertibleTo, which say beforehand whether it does, and          *)
(* operator< and operator==.  Reals are the hundredths of JsonText.        *)
(***************************************************************************)
EXTENDS JsonValue, JsonText

CONSTANT MaxInt   \* Value::maxInt (2^31 - 1)

MinInt == -MaxInt - 1
MaxUInt == 2 * MaxInt + 1

ASSUME IntAssumption == MaxInt \in Nat /\ MaxUInt <= MaxLargestInt

realValue(r) == <<"real", r>>
isNumeric(v) == type(v) \in {"int", "uint", "real"}
NoResult == [ok |-> FALSE, ret |-> 0]
Result(x) == [ok |-> TRUE, ret |-> x]

(* lo <= r <= hi for a double r; NaN is in no range.                       *)
InRange(r, lo, hi) == r[1] = "fin" /\ lo * Scale <= r[2] /\ r[2] <= hi * Scale
IsIntegral(r) == r[1] = "fin" /\ r[2] % Scale = 0
(* The conversion of a double to an integer drops the fraction.            *)
Truncated(r) == IF r[2] >= 0 THEN r[2] \div Scale ELSE -((-r[2]) \div Scale)

\* Mutant of IsIntegerIn: a double in the range need not be integral.
IsNumberIn(v, lo, hi) ==
    CASE type(v) \in {"int", "uint"} -> v[2] \in lo .. hi
      [] type(v) = "real" -> InRange(v[2], lo, hi)
      [] OTHER -> FALSE

(* isInt and isUInt: the value is an integer between lo and hi.            *)
IsIntegerIn(v, lo, hi) ==
    CASE type(v) \in {"int", "uint"} -> v[2] \in lo .. hi
      [] type(v) = "real" -> InRange(v[2], lo, hi) /\ IsIntegral(v[2])
      [] OTHER -> FALSE
isInt(v) == IsIntegerIn(v, MinInt, MaxInt)
isUInt(v) == IsIntegerIn(v, 0, MaxUInt)

(* isInt64 and isUInt64: double(maxInt64) is rounded up to maxInt64 + 1,   *)
(* so a double must be strictly below it.                                  *)
isInt64(v) == IsIntegerIn(v, MinLargestInt, MaxLargestInt)
isUInt64(v) == IsIntegerIn(v, 0, MaxLargestUInt)

(* asInt and asUInt, with the limits of the type.                          *)
AsInteger(v, lo, hi) ==
    CASE type(v) \in {"int", "uint"} -> IF v[2] \in lo .. hi THEN Result(v[2]) ELSE NoResult
      [] type(v) = "real" -> IF InRange(v[2], lo, hi) THEN Result(Truncated(v[2])) ELSE NoResult
      [] type(v) = "null" -> Result(0)
      [] type(v) = "boolean" -> Result(IF v[2] THEN 1 ELSE 0)
      [] OTHER -> NoResult
asInt(v) == AsInteger(v, MinInt, MaxInt)
asUInt(v) == AsInteger(v, 0, MaxUInt)

(* asInt64 and asUInt64 compare a double with the rounded limit, so the    *)
(* limit itself passes although it does not fit.  Its conversion is        *)
(* undefined; the result hi + 1 stands for it and nothing relies on it.    *)
AsLargest(v, lo, hi) ==
    IF type(v) = "real"
    THEN IF InRange(v[2], lo, hi + 1) THEN Result(Truncated(v[2])) ELSE NoResult
    ELSE AsInteger(v, lo, hi)
asInt64(v) == AsLargest(v, MinLargestInt, MaxLargestInt)
asUInt64(v) == AsLargest(v, 0, MaxLargestUInt)

asDouble(v) ==
    CASE type(v) \in {"int", "uint"} -> Result(Fin(v[2] * Scale))
      [] type(v) = "real" -> Result(v[2])
      [] type(v) = "null" -> Result(Fin(0))
      [] type(v) = "boolean" -> Result(Fin(IF v[2] THEN Scale ELSE 0))
      [] OTHER -> NoResult

asBool(v) ==
    CASE type(v) = "boolean" -> Result(v[2])
      [] type(v) = "null" -> Result(FALSE)
      [] type(v) \in {"int", "uint"} -> Result(v[2] # 0)
      [] type(v) = "real" -> Result(v[2] \notin {Fin(0), NaN})
      [] OTHER -> [ok |-> FALSE, ret |-> FALSE]

asString(v) ==
    CASE type(v) = "null" -> Result(<<>>)
      [] type(v) = "string" -> Result(v[2])
      [] type(v) = "boolean" -> Result(boolToString(v[2]))
      [] type(v) = "int" -> Result(intToString(v[2]))
      [] type(v) = "uint" -> Result(uintToString(v[2]))
      [] type(v) = "real" -> Result(realToString(v[2], FALSE))
      [] OTHER -> [ok |-> FALSE, ret |-> <<>>]

isConvertibleTo(v, other) ==
    CASE other = "null" ->
           \/ isNumeric(v) /\ asDouble(v).ret = Fin(0)
           \/ type(v) = "boolean" /\ ~v[2]
           \/ type(v) = "string" /\ v[2] = <<>>
           \/ type(v) \in {"array", "object"} /\ DOMAIN map_(v) = {}
           \/ type(v) = "null"
      [] other = "int" ->
           \/ isInt(v) \/ (type(v) = "real" /\ InRange(v[2], MinInt, MaxInt))
           \/ type(v) \in {"boolean", "null"}
      [] other = "uint" ->
           \/ isUInt(v) \/ (type(v) = "real" /\ InRange(v[2], 0, MaxUInt))
           \/ type(v) \in {"boolean", "null"}
      [] other \in {"real", "boolean"} -> isNumeric(v) \/ type(v) \in {"boolean", "null"}
      [] other = "string" -> isNumeric(v) \/ type(v) \in {"boolean", "string", "null"}
      [] other \in {"array", "object"} -> type(v) \in {other, "null"}

-----------------------------------------------------------------------------
(* operator< and operator==.                                               *)

(* The order of the ValueType enumeration.                                 *)
TypeOrder == <<"null", "int", "uint", "real", "string", "boolean", "array", "object">>
TypeRank(v) == CHOOSE i \in 1 .. Len(TypeOrder) : TypeOrder[i] = type(v)

\* Mutant of StringLess: strings that agree on the common length are equal.
CommonLess(s, t) ==
    \E i \in 1 .. Len(s) : /\ i <= Len(t) /\ s[i] < t[i]
                           /\ SubSeq(s, 1, i - 1) = SubSeq(t, 1, i - 1)

(* memcmp on the common length, then the shorter string first.             *)
StringLess(s, t) ==
    \/ \E i \in 1 .. Len(s) : /\ i <= Len(t) /\ s[i] < t[i]
                              /\ SubSeq(s, 1, i - 1) = SubSeq(t, 1, i - 1)
    \/ Len(s) < Len(t) /\ IsPrefix(s, t)

RealLess(r, q) ==
    /\ NaN \notin {r, q}
    /\ \/ r[1] = "fin" /\ q[1] = "fin" /\ r[2] < q[2]
       \/ r[1] = "inf" /\ r[2] < 0 /\ q # r
       \/ q[1] = "inf" /\ q[2] > 0 /\ q # r

(* Keys are array indices or strings (CZString::operator<).                *)
KeyLess(isArray, k, l) == IF isArray THEN k < l ELSE StringLess(k, l)
SortedKeys(v) == SetToSortSeq(DOMAIN map_(v), LAMBDA k, l : KeyLess(type(v) = "array", k, l))

RECURSIVE Less(_, _)
(* Maps of one size compare as their sequences of (key, value) pairs do.   *)
MapLess(v, w) ==
    LET kv == SortedKeys(v)
        kw == SortedKeys(w)
        isArray == type(v) = "array"
        PairLess(i) == \/ KeyLess(isArray, kv[i], kw[i])
                       \/ kv[i] = kw[i] /\ Less(map_(v)[kv[i]], map_(w)[kw[i]])
        PairMore(i) == \/ KeyLess(isArray, kw[i], kv[i])
                       \/ kv[i] = kw[i] /\ Less(map_(w)[kw[i]], map_(v)[kv[i]])
    IN  \E i \in 1 .. Len(kv) : PairLess(i) /\ \A j \in 1 .. i - 1 : ~PairLess(j) /\ ~PairMore(j)

Less(v, w) ==
    IF TypeRank(v) # TypeRank(w) THEN TypeRank(v) < TypeRank(w)
    ELSE CASE type(v) = "null" -> FALSE
           [] type(v) \in {"int", "uint"} -> v[2] < w[2]
           [] type(v) = "real" -> RealLess(v[2], w[2])
           [] type(v) = "boolean" -> ~v[2] /\ w[2]
           [] type(v) = "string" -> StringLess(v[2], w[2])
           [] OTHER -> IF Cardinality(DOMAIN map_(v)) # Cardinality(DOMAIN map_(w))
                       THEN Cardinality(DOMAIN map_(v)) < Cardinality(DOMAIN map_(w))
                       ELSE MapLess(v, w)
=============================================================================
