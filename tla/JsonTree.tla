------------------------------ MODULE JsonTree ------------------------------
(***************************************************************************)
(* The operations of basic_json that go through a whole value: comparison, *)
(* update(), JSON pointers, patch(), diff() and merge_patch().             *)
(*                                                                         *)
(* A JSON pointer is the sequence of its tokens, so that escaping a key    *)
(* for a path and reading it back is left out. json_pointer and the order  *)
(* of value_t are external (nlohmann/detail). A patch is the sequence of   *)
(* its operations, functions from the member names they have; a member     *)
(* that is not a string is as good as none, both throw 105.                *)
(***************************************************************************)
EXTENDS JsonValue

CONSTANT Half   \* 2^63: the integer widths

ASSUME TreeAssumption == Half \in Nat \ {0}

\* static_cast<number_integer_t> of an unsigned number.
Signed(n) == IF n >= Half THEN n - 2 * Half ELSE n

\* What a number is compared as, with a number of w's type. The integers are exact as
\* floats: rounding beyond 2^53 is left out.
Operand(v, w) ==
  IF m_type(v) = m_type(w) THEN m_value(v)
  ELSE IF m_type(v) = "float" THEN m_value(v)
  ELSE IF m_type(w) = "float" THEN 2 * m_value(v)
  ELSE IF m_type(v) = "unsigned" THEN Signed(m_value(v)) ELSE m_value(v)

RECURSIVE Equal(_, _)
Equal(l, r) ==
  IF is_number(l) /\ is_number(r) THEN Operand(l, r) = Operand(r, l)
  ELSE /\ m_type(l) = m_type(r) /\ m_type(l) # "discarded"
       /\ IF is_structured(l)
          THEN /\ DOMAIN m_value(l) = DOMAIN m_value(r)
               /\ \A k \in DOMAIN m_value(l) : Equal(m_value(l)[k], m_value(r)[k])
          ELSE m_value(l) = m_value(r)

\* operator<(value_t, value_t); discarded is less than nothing.
TypeOrder == [null |-> 0, boolean |-> 1, integer |-> 2, unsigned |-> 2, float |-> 2,
              object |-> 3, array |-> 4, string |-> 5, binary |-> 6]

TypeLess(t, u) == t # "discarded" /\ u # "discarded" /\ TypeOrder[t] < TypeOrder[u]

\* Mutant of NumberLess: numbers of different types are compared by their types.
NumberLessByType(l, r) == m_type(l) = m_type(r) /\ m_value(l) < m_value(r)

NumberLess(l, r) == Operand(l, r) < Operand(r, l)

\* std::lexicographical_compare: up to the first place where either is less.
RECURSIVE Less(_, _)
Less(l, r) ==
  LET Before(i, j) ==
        IF is_object(l) /\ Keys(l)[i] # Keys(r)[i] THEN Keys(l)[i] < Keys(r)[i]
        ELSE Less(Items(l)[i], Items(r)[i])
      After(i) ==
        IF is_object(l) /\ Keys(l)[i] # Keys(r)[i] THEN Keys(r)[i] < Keys(l)[i]
        ELSE Less(Items(r)[i], Items(l)[i])
  IN IF is_number(l) /\ is_number(r) THEN NumberLess(l, r)
     ELSE IF m_type(l) # m_type(r) THEN TypeLess(m_type(l), m_type(r))
     ELSE IF is_structured(l)
     THEN \E n \in 1 .. size(r) :
            /\ n <= size(l) + 1
            /\ \A i \in 1 .. n - 1 : ~Before(i, i) /\ ~After(i)
            /\ n = size(l) + 1 \/ Before(n, n)
     ELSE IF m_type(l) = "boolean" THEN ~m_value(l) /\ m_value(r)
     ELSE m_type(l) \in {"string", "binary"} /\ m_value(l) < m_value(r)

\* operator<=, operator>, operator>=.
LessOrEqual(l, r) == ~Less(r, l)
Greater(l, r) == ~LessOrEqual(l, r)
GreaterOrEqual(l, r) == ~Less(l, r)

-----------------------------------------------------------------------------
\* update(): null is made an object before anything is checked, and members are
\* overwritten one by one, so that a member that cannot be merged leaves the earlier
\* ones changed.
RECURSIVE update(_, _, _)
update(v, from, merge_objects) ==
  LET base == IF is_null(v) THEN Object(EmptyMap) ELSE v
      Take(done, k) ==
        LET x == m_value(from)[k]
            merged == update(m_value(done.v)[k], x, TRUE)
        IN IF done.thrown # 0 THEN done
           ELSE IF merge_objects /\ is_object(x) /\ contains(done.v, k)
           THEN [done EXCEPT !.v = Object((k :> merged.v) @@ m_value(@)), !.thrown = merged.thrown]
           ELSE [done EXCEPT !.v = Object((k :> x) @@ m_value(@))]
  IN Checked(base, <<<<~is_object(base), 312>>, <<~is_object(from), 312>>>>,
             FoldLeft(Take, Ok(base), Keys(from)))

-----------------------------------------------------------------------------
(* json_pointer: external.                                                   *)

\* get_checked(): the value at a location that must exist.
RECURSIVE at_ptr(_, _)
at_ptr(v, ptr) ==
  IF ptr = <<>> THEN Ok(v)
  ELSE LET step == IF is_object(v) THEN at_key(v, ptr[1])
                   ELSE Checked(v, <<<<~is_array(v), 404>>, <<ptr[1] = Dash, 402>>,
                                     <<ptr[1] \notin Digits, 109>>>>, at_index(v, ptr[1]))
       IN IF step.thrown # 0 THEN step ELSE at_ptr(step.v, Tail(ptr))

\* get_unchecked(): nulls on the way become what the next token asks for, and missing
\* items are made. at is the pointer with "-" replaced by the index it got.
RECURSIVE Reach(_, _)
Reach(v, ptr) ==
  IF ptr = <<>> THEN [v |-> v, at |-> <<>>, thrown |-> 0]
  ELSE
    LET w == IF ~is_null(v) THEN v
             ELSE IF ptr[1] \in Digits \cup {Dash} THEN Array(<<>>) ELSE Object(EmptyMap)
        token == IF is_array(w) /\ ptr[1] = Dash THEN size(w) ELSE ptr[1]
        item == IF is_object(w) THEN value(w, token, null).v
                ELSE IF token < size(w) THEN m_value(w)[token + 1] ELSE null
        inner == Reach(item, Tail(ptr))
    IN IF ~is_structured(w) THEN [v |-> w, at |-> <<>>, thrown |-> 404]
       ELSE IF is_array(w) /\ ptr[1] # Dash /\ ptr[1] \notin Digits
       THEN [v |-> w, at |-> <<>>, thrown |-> 109]
       ELSE [v |-> (IF is_object(w) THEN subscript_key(w, token, inner.v)
                    ELSE subscript_index(w, token, inner.v)).v,
             at |-> <<token>> \o inner.at, thrown |-> inner.thrown]

\* v with x at the location at, which exists.
RECURSIVE Replaced(_, _, _)
Replaced(v, at, x) ==
  IF at = <<>> THEN x
  ELSE LET inner == Replaced(at_ptr(v, <<at[1]>>).v, Tail(at), x)
       IN (IF is_object(v) THEN subscript_key(v, at[1], inner) ELSE subscript_index(v, at[1], inner)).v

-----------------------------------------------------------------------------
\* The JSON_ASSERT(false) at the end of operation_add: the program is built without NDEBUG.
AssertionFails == 1

\* The switch of operation_add, on the parent of the new value.
AddTo(parent, token, x) ==
  IF is_null(parent) \/ is_object(parent) THEN subscript_key(parent, token, x)
  ELSE IF is_array(parent) /\ token = Dash THEN push_back(parent, x)
  ELSE IF is_array(parent)
  THEN Checked(parent, <<<<token \notin Digits, 109>>, <<token > size(parent), 401>>>>,
               insert(parent, TRUE, token + 1, x))
  ELSE Throw(parent, AssertionFails)

\* The second of two calls, on what the first one gave, unless that threw. Where an
\* operation of a patch throws, only that counts: the copy it works on is dropped.
Then(first, Second(_)) == IF first.thrown # 0 THEN first ELSE Second(first.v)

\* The value new at the location at of v.
Placed(v, at, new) == Then(new, LAMBDA x : Ok(Replaced(v, at, x)))

AddAt(reached, token, x) ==
  IF reached.thrown # 0 THEN Throw(reached.v, reached.thrown)
  ELSE Placed(reached.v, reached.at, AddTo(at_ptr(reached.v, reached.at).v, token, x))

\* The first token of a longer pointer is looked up by at() before the parent is made.
operation_add(v, ptr, x) ==
  IF ptr = <<>> THEN Ok(x)
  ELSE Then(IF Len(ptr) > 1 THEN at_ptr(v, <<ptr[1]>>) ELSE Ok(v),
            LAMBDA top : AddAt(Reach(v, Front(ptr)), Last(ptr), x))

\* A parent that is no container is left alone.
RemoveFrom(parent, token) ==
  IF is_object(parent)
  THEN Checked(parent, <<<<~contains(parent, token), 403>>>>, erase_key(parent, token))
  ELSE IF is_array(parent)
  THEN Checked(parent, <<<<token \notin Digits, 109>>>>, erase_index(parent, token))
  ELSE Ok(parent)

\* back() of the empty pointer throws 405.
operation_remove(v, ptr) ==
  IF ptr = <<>> THEN Throw(v, 405)
  ELSE Then(at_ptr(v, Front(ptr)),
            LAMBDA parent : Placed(v, Front(ptr), RemoveFrom(parent, Last(ptr))))

Operations == {"add", "remove", "replace", "move", "copy", "test"}

\* Members an operation must have, in the order they are asked for.
Needs(op) ==
  CASE op \in {"add", "replace", "test"} -> {"path", "value"}
    [] op \in {"move", "copy"} -> {"path", "from"}
    [] OTHER -> {"path"}

\* "test": a location that does not exist fails as a value that differs does.
Tested(v, target, x) ==
  IF target.thrown = 109 THEN target
  ELSE Checked(v, <<<<target.thrown # 0 \/ ~Equal(target.v, x), 501>>>>, Ok(v))

\* One round of patch()'s loop on the working copy.
Apply(v, o) ==
  IF "op" \notin DOMAIN o \/ "path" \notin DOMAIN o THEN Throw(v, 105)
  ELSE IF o["op"] \notin Operations \/ ~(Needs(o["op"]) \subseteq DOMAIN o) THEN Throw(v, 105)
  ELSE CASE o["op"] = "add" -> operation_add(v, o["path"], o["value"])
         [] o["op"] = "remove" -> operation_remove(v, o["path"])
         [] o["op"] = "replace" ->
              Then(at_ptr(v, o["path"]), LAMBDA old : Ok(Replaced(v, o["path"], o["value"])))
         [] o["op"] = "move" ->
              Then(at_ptr(v, o["from"]),
                   LAMBDA x : Then(operation_remove(v, o["from"]),
                                   LAMBDA rest : operation_add(rest, o["path"], x)))
         [] o["op"] = "copy" ->
              Then(at_ptr(v, o["from"]), LAMBDA x : operation_add(v, o["path"], x))
         [] o["op"] = "test" -> Tested(v, at_ptr(v, o["path"]), o["value"])

\* A call on v that leaves v alone if it throws.
AllOrNothing(v, outcome) == IF outcome.thrown # 0 THEN Throw(v, outcome.thrown) ELSE outcome

Round(done, o) ==
  IF done.thrown # 0 THEN done ELSE AllOrNothing(done.v, Apply(done.v, o))

\* Mutant of patch: the operations work on the value itself.
patch_in_place(v, ops) == FoldLeft(Round, Ok(v), ops)

\* patch(): all operations, on a copy, or none.
patch(v, ops) == AllOrNothing(v, FoldLeft(Round, Ok(v), ops))

-----------------------------------------------------------------------------
ReplaceOp(path, x) == [op |-> "replace", path |-> path, value |-> x]
RemoveOp(path) == [op |-> "remove", path |-> path]
AddOp(path, x) == [op |-> "add", path |-> path, value |-> x]

\* Mutant of RemoveRest: from the front, where each removal moves the rest.
RemoveRestForward(path, from, to) == [i \in 1 .. to - from |-> RemoveOp(Append(path, from + i - 1))]

\* The elements from .. to - 1 of an array, from the back.
RemoveRest(path, from, to) == [i \in 1 .. to - from |-> RemoveOp(Append(path, to - i))]

RECURSIVE diff(_, _, _)
diff(source, target, path) ==
  LET s == m_value(source)
      t == m_value(target)
      common == Min({size(source), size(target)})
      Member(k) ==
        IF contains(target, k) THEN diff(s[k], t[k], Append(path, k)) ELSE <<RemoveOp(Append(path, k))>>
      new == SelectSeq(Keys(target), LAMBDA k : ~contains(source, k))
  IN IF Equal(source, target) THEN <<>>
     ELSE IF m_type(source) # m_type(target) \/ ~is_structured(source) THEN <<ReplaceOp(path, target)>>
     ELSE IF is_array(source)
     THEN FlattenSeq([i \in 1 .. common |-> diff(s[i], t[i], Append(path, i - 1))])
          \o RemoveRest(path, common, size(source))
          \o [i \in 1 .. size(target) - common |-> AddOp(Append(path, Dash), t[common + i])]
     ELSE FlattenSeq([i \in 1 .. size(source) |-> Member(Keys(source)[i])])
          \o [i \in 1 .. Len(new) |-> AddOp(Append(path, new[i]), t[new[i]])]

-----------------------------------------------------------------------------
\* Mutant of Dropped: a null member of the patch is a member.
DroppedNever(p) == {}

\* The members a merge patch removes.
Dropped(p) == {k \in DOMAIN m_value(p) : is_null(m_value(p)[k])}

RECURSIVE merge_patch(_, _)
merge_patch(v, p) ==
  LET old == IF is_object(v) THEN m_value(v) ELSE EmptyMap
      given == DOMAIN m_value(p) \ Dropped(p)
      Old(k) == IF k \in DOMAIN old THEN old[k] ELSE null
  IN IF ~is_object(p) THEN p
     ELSE Object([k \in (DOMAIN old \ Dropped(p)) \cup given |->
                    IF k \in given THEN merge_patch(Old(k), m_value(p)[k]) ELSE old[k]])
=============================================================================
