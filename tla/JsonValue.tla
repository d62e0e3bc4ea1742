----------------------------- MODULE JsonValue -----------------------------
(***************************************************************************)
(* nlohmann::basic_json (include/json.hpp, version 3.10.5): its values and *)
(* the operations that work on one level of a value.                       *)
(*                                                                         *)
(* A value is <<m_type, m_value>>. Strings are integers in the order of    *)
(* the strings: -2 is "", -1 "-", 0 .. 9 the digits, larger ones others.   *)
(* An array is the sequence of its elements, an object the function from   *)
(* its keys. A float is twice its value, so that halves exist.             *)
(*                                                                         *)
(* A call's outcome is the value it leaves behind, the id of what it       *)
(* throws, or 0, and the iterator it returns. Memory, JSON_DIAGNOSTICS     *)
(* (off in this build: set_parents() does nothing) and messages are left   *)
(* out.                                                                    *)
(***************************************************************************)
EXTENDS Integers, Sequences, SequencesExt, FiniteSetsExt, Functions

Json(t, x) == <<t, x>>
m_type(v) == v[1]
m_value(v) == v[2]

NoText == -2
Dash == -1
Digits == 0 .. 9

EmptyMap == [k \in {} |-> 0]
null == Json("null", 0)
Array(items) == Json("array", items)
Object(members) == Json("object", members)

is_null(v) == m_type(v) = "null"
is_array(v) == m_type(v) = "array"
is_object(v) == m_type(v) = "object"
is_string(v) == m_type(v) = "string"
is_number(v) == m_type(v) \in {"integer", "unsigned", "float"}
is_structured(v) == is_array(v) \/ is_object(v)

\* json_value(value_t): the empty value of each type.
EmptyValue(t) ==
  Json(t, IF t = "array" THEN <<>> ELSE IF t = "object" THEN EmptyMap
          ELSE IF t = "boolean" THEN FALSE ELSE IF t = "string" THEN NoText ELSE 0)

\* A std::map is in the order of its keys.
Position(v, k) == Cardinality({j \in DOMAIN m_value(v) : j <= k})
Keys(v) ==
  [i \in 1 .. Cardinality(DOMAIN m_value(v)) |-> CHOOSE k \in DOMAIN m_value(v) : Position(v, k) = i]

\* What the iterators from begin() to end() designate.
Items(v) ==
  IF is_array(v) THEN m_value(v)
  ELSE IF is_object(v) THEN [i \in 1 .. Cardinality(DOMAIN m_value(v)) |-> m_value(v)[Keys(v)[i]]]
  ELSE IF is_null(v) THEN <<>> ELSE <<v>>

size(v) == Len(Items(v))
empty(v) == size(v) = 0

\* An iterator is the number of the item it designates; that of a null is always past
\* its one place.
end(v) == IF is_structured(v) THEN size(v) + 1 ELSE 2
begin(v) == IF is_null(v) THEN end(v) ELSE 1

-----------------------------------------------------------------------------
Ok(v) == [v |-> v, thrown |-> 0, it |-> end(v)]
OkAt(v, it) == [v |-> v, thrown |-> 0, it |-> it]
Throw(v, id) == [v |-> v, thrown |-> id, it |-> end(v)]

\* The checks an operation makes, in order, each with what it throws.
Checked(v, checks, outcome) ==
  LET failing == {i \in DOMAIN checks : checks[i][1]}
  IN IF failing = {} THEN outcome ELSE Throw(v, checks[Min(failing)][2])

\* Implicit conversion of null, where an operation has one.
Elements(v) == IF is_null(v) THEN <<>> ELSE m_value(v)
Members(v) == IF is_null(v) THEN EmptyMap ELSE m_value(v)

\* get_ptr<T*>() for the type of value that T holds: what it points to, or nothing for
\* nullptr. Every unsigned number can be had as an integer.
get_ptr(v, t) ==
  IF m_type(v) = t \/ (t = "integer" /\ m_type(v) = "unsigned") THEN <<v>> ELSE <<>>

get_ref(v, t) == Checked(v, <<<<get_ptr(v, t) = <<>>, 303>>>>, Ok(v))
get_binary(v) == Checked(v, <<<<m_type(v) # "binary", 302>>>>, Ok(get_ptr(v, "binary")[1]))

\* from_json(), external, for a T that values of one type only convert to.
from_json(v, t) == Checked(v, <<<<m_type(v) # t, 302>>>>, Ok(v))

\* get<T>(): T is basic_json itself ("json") or such a type. T(v), implicitly, is the same.
get(v, t) == IF t = "json" THEN Ok(v) ELSE from_json(v, t)
convert(v, t) == get(v, t)

\* get_to(target): what target holds afterwards.
get_to(v, t, target) ==
  Checked(target, <<<<get(v, t).thrown # 0, get(v, t).thrown>>>>, get(v, t))

at_index(v, i) ==
  Checked(v, <<<<~is_array(v), 304>>, <<i >= size(v), 401>>>>, Ok(m_value(v)[i + 1]))

at_key(v, k) ==
  Checked(v, <<<<~is_object(v), 304>>, <<is_object(v) /\ k \notin DOMAIN m_value(v), 403>>>>,
          Ok(m_value(v)[k]))

contains(v, k) == is_object(v) /\ k \in DOMAIN m_value(v)

value(v, k, default) ==
  Checked(v, <<<<~is_object(v), 306>>>>, Ok(IF contains(v, k) THEN m_value(v)[k] ELSE default))

front(v) == Items(v)[begin(v)]
back(v) == Items(v)[end(v) - 1]

\* find(): the position of a key.
find(v, k) == IF contains(v, k) THEN Position(v, k) ELSE end(v)

\* v[i] = x and v[k] = x: operator[] makes room, with nulls up to the index.
subscript_index(v, i, x) ==
  Checked(v, <<<<~(is_null(v) \/ is_array(v)), 305>>>>,
    Ok(Array([j \in 1 .. Max({i + 1, Len(Elements(v))}) |->
                IF j = i + 1 THEN x ELSE IF j <= Len(Elements(v)) THEN Elements(v)[j] ELSE null])))

subscript_key(v, k, x) ==
  Checked(v, <<<<~(is_null(v) \/ is_object(v)), 305>>>>,
    Ok(Object([j \in DOMAIN Members(v) \cup {k} |-> IF j = k THEN x ELSE Members(v)[j]])))

-----------------------------------------------------------------------------
IsPair(x) == is_array(x) /\ size(x) = 2 /\ is_string(m_value(x)[1])

\* The initializer-list constructor: a list of pairs is an object (its first pair for a
\* key counts), any other list an array. manual_type is "deduced" where it is deduced.
FromInit(init, manual_type) ==
  LET pairs == \A i \in DOMAIN init : IsPair(init[i])
      First(k) == Min({i \in DOMAIN init : m_value(m_value(init[i])[1]) = k})
  IN Checked(null, <<<<manual_type = "object" /\ ~pairs, 301>>>>,
       Ok(IF pairs /\ manual_type # "array"
          THEN Object([k \in {m_value(m_value(init[i])[1]) : i \in DOMAIN init} |->
                         m_value(init[First(k)])[2]])
          ELSE Array(init)))

\* The static functions array() and object().
array(init) == FromInit(init, "array")
object(init) == FromInit(init, "object")

\* The constructors from a count and a value, and from a range of an existing value.
FromCount(n, x) == Array([i \in 1 .. n |-> x])

FromRange(v, same, first, last) ==
  Checked(null, <<<<~same, 201>>,
                  <<m_type(v) \notin {"null", "array", "object", "binary", "discarded"}
                      /\ (first # begin(v) \/ last # end(v)), 204>>,
                  <<is_null(v) \/ m_type(v) = "discarded", 206>>>>,
    Ok(IF is_array(v) THEN Array(SubSeq(m_value(v), first, last - 1))
       ELSE IF is_object(v)
       THEN Object(Restrict(m_value(v), {Keys(v)[i] : i \in first .. last - 1}))
       ELSE v))

-----------------------------------------------------------------------------
push_back(v, x) ==
  Checked(v, <<<<~(is_null(v) \/ is_array(v)), 308>>>>, Ok(Array(Append(Elements(v), x))))

\* The pair is inserted, so that a member already there stays.
push_back_pair(v, k, x) ==
  Checked(v, <<<<~(is_null(v) \/ is_object(v)), 308>>>>, Ok(Object(Members(v) @@ (k :> x))))

push_back_init(v, init) ==
  IF is_object(v) /\ Len(init) = 2 /\ is_string(init[1])
  THEN push_back_pair(v, m_value(get_ref(init[1], "string").v), init[2])
  ELSE push_back(v, FromInit(init, "deduced").v)

emplace_back(v, x) ==
  Checked(v, <<<<~(is_null(v) \/ is_array(v)), 311>>>>, Ok(Array(Append(Elements(v), x))))

emplace(v, k, x) ==
  Checked(v, <<<<~(is_null(v) \/ is_object(v)), 311>>>>,
    LET new == Object(Members(v) @@ (k :> x)) IN OkAt(new, Position(new, k)))

\* insert(pos, ...): mine says whether pos is an iterator of v.
insert_iterator(v, pos, xs) ==
  OkAt(Array(SubSeq(m_value(v), 1, pos - 1) \o xs \o SubSeq(m_value(v), pos, size(v))), pos)

insert(v, mine, pos, x) ==
  Checked(v, <<<<~is_array(v), 309>>, <<~mine, 202>>>>, insert_iterator(v, pos, <<x>>))

insert_count(v, mine, pos, n, x) ==
  Checked(v, <<<<~is_array(v), 309>>, <<~mine, 202>>>>,
          insert_iterator(v, pos, [i \in 1 .. n |-> x]))

insert_init(v, mine, pos, init) ==
  Checked(v, <<<<~is_array(v), 309>>, <<~mine, 202>>>>, insert_iterator(v, pos, init))

\* A range of the array from: same says whether first and last are of one value, own
\* whether that is v.
insert_range(v, mine, pos, same, own, from, first, last) ==
  Checked(v, <<<<~is_array(v), 309>>, <<~mine, 202>>, <<~same, 210>>, <<own, 211>>>>,
          insert_iterator(v, pos, SubSeq(Items(from), first, last - 1)))

insert_members(v, same, from, first, last) ==
  Checked(v, <<<<~is_object(v), 309>>, <<~same, 210>>, <<~is_object(from), 202>>>>,
    Ok(Object(m_value(v) @@ Restrict(m_value(from), {Keys(from)[i] : i \in first .. last - 1}))))

-----------------------------------------------------------------------------
\* v without its items from first up to last.
Without(v, first, last) ==
  IF is_array(v) THEN Array(SubSeq(m_value(v), 1, first - 1) \o SubSeq(m_value(v), last, size(v)))
  ELSE Object(Restrict(m_value(v), DOMAIN m_value(v) \ {Keys(v)[i] : i \in first .. last - 1}))

\* Mutant of erase_pos: m_type is left behind when the string is freed (-3: no string).
erase_pos_keeps_type(v, mine, pos) ==
  IF is_structured(v) THEN OkAt(Without(v, pos, pos + 1), pos)
  ELSE OkAt(IF is_string(v) THEN Json("string", -3) ELSE null, end(v))

\* Mutant of erase_pos: the iterator after the next element.
erase_pos_skips(v, mine, pos) ==
  IF is_structured(v) THEN OkAt(Without(v, pos, pos + 1), pos + 1) ELSE OkAt(null, end(v))

\* A value that is no container becomes null. The result is the element after pos.
erase_pos(v, mine, pos) ==
  Checked(v, <<<<~mine, 202>>, <<is_null(v) \/ m_type(v) = "discarded", 307>>,
               <<~is_structured(v) /\ pos # begin(v), 205>>>>,
    IF is_structured(v) THEN OkAt(Without(v, pos, pos + 1), pos) ELSE OkAt(null, end(v)))

erase_range(v, mine, first, last) ==
  Checked(v, <<<<~mine, 203>>, <<is_null(v) \/ m_type(v) = "discarded", 307>>,
               <<~is_structured(v) /\ (first # begin(v) \/ last # end(v)), 204>>>>,
    IF is_structured(v) THEN OkAt(Without(v, first, last), first) ELSE OkAt(null, end(v)))

erase_key(v, k) ==
  Checked(v, <<<<~is_object(v), 307>>>>, Ok(Object(Restrict(m_value(v), DOMAIN m_value(v) \ {k}))))

erase_index(v, i) ==
  Checked(v, <<<<~is_array(v), 307>>, <<i >= size(v), 401>>>>, Ok(Without(v, i + 1, i + 2)))

clear(v) == IF m_type(v) \in {"null", "discarded"} THEN v ELSE EmptyValue(m_type(v))

\* swap(array_t&) and its like for object, string and binary: only the contents move.
swap_contents(v, t, contents) ==
  Checked(v, <<<<m_type(v) # t, 310>>>>, Ok(Json(t, contents)))
=============================================================================
