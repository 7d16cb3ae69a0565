------------------------------ MODULE JsonValue ------------------------------
(***************************************************************************)
(* AliasJson::Value (json_value.cpp), the value every span is built in and *)
(* every hello message is read into.  A value is a pair of its type and    *)
(* its payload.  Arrays and objects are both maps (ObjectValues): an array *)
(* is a map from indices, which may have gaps, an object a map from names. *)
(*                                                                         *)
(* An operation that changes a value is an operator from the old value to  *)
(* a record: v is the new value, ret what the call returns, ok is FALSE    *)
(* when a JSON_ASSERT failed, which throws AliasJson::LogicError.          *)
(***************************************************************************)
EXTENDS Integers, FiniteSets, FiniteSetsExt, Functions

nullValue == <<"null", 0>>
intValue(n) == <<"int", n>>
uintValue(n) == <<"uint", n>>
booleanValue(b) == <<"boolean", b>>
stringValue(s) == <<"string", s>>
arrayValue(map) == <<"array", map>>
objectValue(map) == <<"object", map>>
EmptyMap == [k \in {} |-> nullValue]

type(v) == v[1]
map_(v) == v[2]
IsArrayOrNull(v) == type(v) \in {"array", "null"}
IsObjectOrNull(v) == type(v) \in {"object", "null"}

Done(v, ret) == [v |-> v, ret |-> ret, ok |-> TRUE]
Throw(v) == [v |-> v, ret |-> nullValue, ok |-> FALSE]

(* std::map::insert and erase.                                             *)
With(map, k, x) == [i \in DOMAIN map \cup {k} |-> IF i = k THEN x ELSE map[i]]
Without(map, ks) == [i \in DOMAIN map \ ks |-> map[i]]
ArrayMap(v) == IF type(v) = "null" THEN EmptyMap ELSE map_(v)

-----------------------------------------------------------------------------
(* Arrays.                                                                 *)

(* The size of an array is its highest index + 1, gaps included.           *)
size(v) ==
    CASE type(v) = "array" -> IF DOMAIN map_(v) = {} THEN 0 ELSE Max(DOMAIN map_(v)) + 1
      [] type(v) = "object" -> Cardinality(DOMAIN map_(v))
      [] OTHER -> 0

empty(v) == type(v) \in {"null", "array", "object"} /\ size(v) = 0

(* operator[](ArrayIndex): creates a null element where there is none.     *)
refIndex(v, i) ==
    IF ~IsArrayOrNull(v) THEN Throw(v)
    ELSE LET map == ArrayMap(v)
         IN  IF i \in DOMAIN map THEN Done(arrayValue(map), map[i])
             ELSE Done(arrayValue(With(map, i, nullValue)), nullValue)

(* operator[](ArrayIndex) const: a gap reads as null.                      *)
atIndex(v, i) ==
    IF ~IsArrayOrNull(v) THEN Throw(v)
    ELSE Done(v, IF i \in DOMAIN ArrayMap(v) THEN map_(v)[i] ELSE nullValue)

append(v, x) ==
    IF ~IsArrayOrNull(v) THEN Throw(v)
    ELSE Done(arrayValue(With(ArrayMap(v), size(v), x)), x)

(* insert: every element from index on moves up by one; the moves fill the *)
(* gaps they pass over with nulls.                                         *)
insert(v, index, x) ==
    IF ~IsArrayOrNull(v) THEN Throw(v)
    ELSE IF index > size(v) THEN Done(v, FALSE)
    ELSE LET map == ArrayMap(v)
             old(i) == IF i \in DOMAIN map THEN map[i] ELSE nullValue
         IN  Done(arrayValue([i \in {j \in DOMAIN map : j < index} \cup index .. size(v) |->
                           CASE i < index -> map[i] [] i = index -> x [] OTHER -> old(i - 1)]),
                  TRUE)


(* removeIndex: only an index that is in the map can be removed; the later *)
(* elements move down over it.                                             *)
removeIndex(v, index) ==
    IF type(v) # "array" \/ index \notin DOMAIN map_(v) THEN Done(v, FALSE)
    ELSE LET map == map_(v)
             old(i) == IF i \in DOMAIN map THEN map[i] ELSE nullValue
         IN  Done(arrayValue([i \in {j \in DOMAIN map : j < index} \cup index .. size(v) - 2 |->
                           IF i < index THEN map[i] ELSE old(i + 1)]),
                  TRUE)

clear(v) ==
    CASE type(v) = "array" -> Done(arrayValue(EmptyMap), TRUE)
      [] type(v) = "object" -> Done(objectValue(EmptyMap), TRUE)
      [] type(v) = "null" -> Done(v, TRUE)
      [] OTHER -> Throw(v)

(* resize: shrinking erases the indices from newSize on and then asserts   *)
(* that the size is newSize, which fails when newSize - 1 is a gap.        *)
resize(v, newSize) ==
    IF ~IsArrayOrNull(v) THEN Throw(v)
    ELSE LET array == arrayValue(ArrayMap(v))
             shrunk == arrayValue(Without(ArrayMap(v), newSize .. size(v) - 1))
         IN  CASE newSize = 0 -> Done(arrayValue(EmptyMap), TRUE)
               [] newSize # 0 /\ newSize > size(array) -> Done(refIndex(array, newSize - 1).v, TRUE)
               [] OTHER -> IF size(shrunk) = newSize THEN Done(shrunk, TRUE) ELSE Throw(shrunk)

-----------------------------------------------------------------------------
(* Objects.                                                                *)

(* resolveReference, operator[](key): creates a null member.               *)
resolveReference(v, key) ==
    IF ~IsObjectOrNull(v) THEN Throw(v)
    ELSE LET map == ArrayMap(v)
         IN  IF key \in DOMAIN map THEN Done(objectValue(map), map[key])
             ELSE Done(objectValue(With(map, key, nullValue)), nullValue)

(* v[key] = x *)
assign(v, key, x) ==
    IF ~IsObjectOrNull(v) THEN Throw(v) ELSE Done(objectValue(With(ArrayMap(v), key, x)), x)

(* v[key].append(x): the member exists afterwards even if append throws.   *)
appendMember(v, key, x) ==
    LET ref == resolveReference(v, key)
        new == append(ref.ret, x)
    IN  IF ~ref.ok THEN Throw(v)
        ELSE IF ~new.ok THEN Throw(ref.v)
        ELSE assign(ref.v, key, new.v)

(* find, and operator[](key) const, get(key, default) and isMember on it.  *)
find(v, key, default) ==
    IF ~IsObjectOrNull(v) THEN Throw(v)
    ELSE Done(v, IF key \in DOMAIN ArrayMap(v) THEN map_(v)[key] ELSE default)

isMember(v, key) ==
    IF ~IsObjectOrNull(v) THEN Throw(v) ELSE Done(v, key \in DOMAIN ArrayMap(v))
=============================================================================
