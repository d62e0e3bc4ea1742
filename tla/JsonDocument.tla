---------------------------- MODULE JsonDocument ----------------------------
(***************************************************************************)
(* JsonProgram with the calls it makes on its two values, in any order.    *)
(* Besides single calls and JsonProgram's loop it destroys a document      *)
(* ("destroy": json_value::destroy(), one round of its loop per step).     *)
(***************************************************************************)
EXTENDS JsonTree, JsonProgram

CONSTANTS
  Others,     \* the documents other is taken from
  Leaves,     \* values put into documents
  Names,      \* keys
  Pointers,   \* JSON pointers
  Patches,    \* patches
  MaxNodes    \* bound: values in doc, itself included

VARIABLES
  thrown,      \* did the latest call throw?
  stack        \* destroy(): the values moved out so far

docVars == <<programVars, thrown, stack>>

RECURSIVE Nodes(_)
Nodes(v) ==
  IF is_structured(v)
  THEN 1 + FoldSet(LAMBDA k, n : n + Nodes(m_value(v)[k]), 0, DOMAIN m_value(v))
  ELSE 1

RECURSIVE MadeOfLeaves(_)
MadeOfLeaves(v) ==
  IF is_structured(v) THEN \A k \in DOMAIN m_value(v) : MadeOfLeaves(m_value(v)[k]) ELSE v \in Leaves

\* Bounds the documents; those with the most nodes hold Leaves only.
Small(v) ==
  v \in Others \/ Nodes(v) < MaxNodes \/ (Nodes(v) = MaxNodes /\ MadeOfLeaves(v))

Init ==
  /\ doc \in Leaves /\ other = null
  /\ ProgramInit
  /\ thrown = FALSE /\ stack = <<>>

-----------------------------------------------------------------------------
Call == mode = "calls" /\ UNCHANGED <<mode, loopVars, stack>>

\* Calls that take nothing from other are made while it is null: what else it might hold
\* makes no difference to them.
Alone == other = null

\* doc.f(...), with this outcome.
Does(outcome) ==
  /\ Call
  /\ Small(outcome.v)
  /\ doc' = outcome.v /\ thrown' = (outcome.thrown # 0)
  /\ UNCHANGED other

\* other = doc.f(...).
Yields(outcome) ==
  /\ Call
  /\ outcome.thrown # 0 \/ outcome.v \in Others \cup Leaves
  /\ other' = IF outcome.thrown # 0 THEN other ELSE outcome.v
  /\ thrown' = (outcome.thrown # 0)
  /\ UNCHANGED doc

\* doc = f(...).
Becomes(outcome) == Does([outcome EXCEPT !.v = IF outcome.thrown # 0 THEN doc ELSE @])

\* Constructors and assignments.
Assign ==
  \/ \E t \in DOMAIN TypeOrder : Alone /\ Becomes(Ok(EmptyValue(t)))
  \/ Becomes(Ok(other))
  \/ \E n \in 0 .. 2 : Becomes(Ok(FromCount(n, other)))
  \/ \E x \in Leaves : \E init \in {<<other>>, <<x, other>>, <<array(<<x, other>>).v>>} :
       Becomes(FromInit(init, "deduced")) \/ Becomes(array(init)) \/ Becomes(object(init))

\* other = ...: any value of the rest of the program.
Choose ==
  /\ Call
  /\ other' \in Others
  /\ thrown' = FALSE /\ UNCHANGED doc

\* doc = std::move(other).
Move ==
  /\ Call
  /\ Small(other)
  /\ doc' = other /\ other' = null
  /\ thrown' = FALSE

\* doc.swap(other).
Swap ==
  /\ Call
  /\ Small(other) /\ doc \in Others \cup Leaves
  /\ doc' = other /\ other' = doc
  /\ thrown' = FALSE

\* doc.swap(array), where other is the array; object and string alike.
SwapContents == \E t \in {"array", "object", "string"} :
  LET swapped == swap_contents(doc, t, m_value(other))
  IN /\ Call /\ m_type(other) = t
     /\ Small(swapped.v)
     /\ doc' = swapped.v /\ thrown' = (swapped.thrown # 0)
     /\ other' = (IF swapped.thrown # 0 THEN other ELSE doc) /\ other' \in Others \cup Leaves

Read ==
  \/ \E t \in {"json", "string", "array"} : Yields(get_to(doc, t, other))
  \/ /\ Alone
     /\ \/ \E i \in 0 .. 2 : Yields(at_index(doc, i))
        \/ \E k \in Names : Yields(at_key(doc, k)) \/ Yields(value(doc, k, null))
        \/ \E p \in Pointers : Yields(at_ptr(doc, p))
        \/ \E t \in {"string", "array"} : Yields(get_ref(doc, t))
        \/ Yields(get_binary(doc))
        \/ ~empty(doc) /\ (Yields(Ok(front(doc))) \/ Yields(Ok(back(doc))))
        \/ \E i, j \in begin(doc) .. end(doc), same \in BOOLEAN :
             i <= j /\ Yields(FromRange(doc, same, i, j))

WriteAt == \E p \in Pointers :
  LET reached == Reach(doc, p)
  IN Does([v |-> IF reached.thrown # 0 THEN reached.v ELSE Replaced(reached.v, reached.at, other),
           thrown |-> reached.thrown])

Write ==
  \/ \E i \in 0 .. 2 : Does(subscript_index(doc, i, other))
  \/ \E k \in Names : Does(subscript_key(doc, k, other))

Grow ==
  \/ Does(push_back(doc, other)) \/ Does(emplace_back(doc, other))
  \/ \E k \in Names :
       Does(push_back_pair(doc, k, other)) \/ Does(push_back_init(doc, <<Text(k), other>>))
         \/ Does(emplace(doc, k, other))

Places == begin(doc) .. end(doc)

Insert == \E mine \in BOOLEAN, pos \in Places :
  \/ Does(insert(doc, mine, pos, other))
  \/ Does(insert_count(doc, mine, pos, 2, other))
  \/ Does(insert_init(doc, mine, pos, <<other, other>>))
  \/ \E same, own \in BOOLEAN : is_array(other) /\
       Does(insert_range(doc, mine, pos, same, own, other, 1, end(other)))

InsertMembers == \E same \in BOOLEAN : Does(insert_members(doc, same, other, 1, end(other)))

Update == \E merge \in BOOLEAN : Does(update(doc, other, merge))

Erase ==
  /\ Alone
  /\ \/ \E mine \in BOOLEAN, pos \in Places :
          \/ (pos # end(doc) \/ ~is_structured(doc)) /\ Does(erase_pos(doc, mine, pos))
          \/ \E last \in pos .. end(doc) : Does(erase_range(doc, mine, pos, last))
     \/ \E k \in Names : Does(erase_key(doc, k))
     \/ \E i \in 0 .. 2 : Does(erase_index(doc, i))
     \/ Does(Ok(clear(doc)))

Patch ==
  \/ \E ops \in Patches : Alone /\ Does(patch(doc, ops))
  \/ Becomes(Ok(merge_patch(doc, other)))

-----------------------------------------------------------------------------
SweepBegin == Alone /\ LoopBegin /\ thrown' = FALSE /\ UNCHANGED stack

SweepNext == (LoopKeep \/ LoopErase) /\ UNCHANGED <<thrown, stack>>

SweepEnd == LoopEnd /\ UNCHANGED <<thrown, stack>>

\* json_value::destroy(): the top-level items are moved out to the stack.
DestroyBegin ==
  /\ mode = "calls" /\ other = null
  /\ mode' = "destroy" /\ thrown' = FALSE
  /\ stack' = IF is_structured(doc) THEN Items(doc) ELSE <<>>
  /\ doc' = null
  /\ UNCHANGED <<other, loopVars>>

\* Mutant of MovedOut: objects keep their members.
MovedOutOfArrays(v) == IF is_array(v) THEN Items(v) ELSE <<>>

\* What a round moves from current_item to the stack.
MovedOut(v) == IF is_structured(v) THEN Items(v) ELSE <<>>

\* A round: current_item is destroyed at its end, with what it still holds.
DestroyNext ==
  /\ mode = "destroy" /\ stack # <<>>
  /\ stack' = Front(stack) \o MovedOut(Last(stack))
  /\ UNCHANGED <<doc, other, thrown, mode, loopVars>>

DestroyEnd ==
  /\ mode = "destroy" /\ stack = <<>>
  /\ mode' = "calls"
  /\ UNCHANGED <<doc, other, thrown, loopVars, stack>>

Next ==
  \/ Assign \/ Choose \/ Move \/ Swap \/ SwapContents
  \/ Read \/ Write \/ WriteAt \/ Grow \/ Insert \/ InsertMembers \/ Update \/ Erase \/ Patch
  \/ SweepBegin \/ SweepNext \/ SweepEnd
  \/ DestroyBegin \/ DestroyNext \/ DestroyEnd

Spec == Init /\ [][Next]_docVars

-----------------------------------------------------------------------------
Types == DOMAIN TypeOrder

RECURSIVE WellFormed(_)
WellFormed(v) ==
  /\ m_type(v) \in Types /\ Sound(v)
  /\ is_string(v) => m_value(v) >= NoText
  /\ is_structured(v) => \A k \in DOMAIN m_value(v) : WellFormed(m_value(v)[k])

\* basic_json's class invariant (assert_invariant, at the end of every constructor and
\* wherever a value changes its type), in every value the program holds.
TypeOK ==
  /\ WellFormed(doc) /\ WellFormed(other)
  /\ thrown \in BOOLEAN /\ mode \in {"calls", "sweep", "destroy"}
  /\ \A i \in DOMAIN stack : WellFormed(stack[i])

\* w is v where some members, at any depth, have been given the values from has for them:
\* no member is lost, and none has a value that neither v nor from has at its place.
RECURSIVE PartlyUpdated(_, _, _)
PartlyUpdated(v, w, from) ==
  \/ w = v
  \/ is_null(v) /\ w = EmptyValue("object")
  \/ /\ is_object(v) /\ is_object(w) /\ is_object(from)
     /\ DOMAIN m_value(v) \subseteq DOMAIN m_value(w)
     /\ \A k \in DOMAIN m_value(w) :
          \/ contains(v, k) /\ m_value(w)[k] = m_value(v)[k]
          \/ contains(from, k) /\ m_value(w)[k] = m_value(from)[k]
          \/ /\ contains(v, k) /\ contains(from, k)
             /\ PartlyUpdated(m_value(v)[k], m_value(w)[k], m_value(from)[k])

\* A call that throws leaves the document as it was. patch() works on a copy; update() may
\* have changed a part, but no member is lost or torn; writing through a pointer may have
\* made members on its way.
ThrowChangesNothing ==
  [][thrown' =>
       \/ doc' = doc
       \/ Update /\ PartlyUpdated(doc, doc', other)
       \/ WriteAt]_docVars

RECURSIVE NodesIn(_)
NodesIn(s) == IF s = <<>> THEN 0 ELSE Nodes(s[1]) + NodesIn(Tail(s))

\* destroy() does not recurse: each round destroys exactly one value, so none is lost and
\* none has children left when its destructor runs, however deep the document.
EachRoundDestroysOne ==
  [][mode = "destroy" /\ stack # <<>> => NodesIn(stack') = NodesIn(stack) - 1]_docVars

\* diff() and patch() are inverse, where the removals of diff() shift the elements that
\* come after, and its additions depend on one another.
PatchOfDiff ==
  LET result == patch(doc, diff(doc, other, <<>>))
  IN result.thrown = 0 /\ Equal(result.v, other)

\* A merge patch leaves no null member it was given, takes every other one, an object into
\* the member that is there and anything else as it is, keeps the members it does not name
\* as they are, and changes nothing when it is applied again.
MergePatchSettles ==
  LET result == merge_patch(doc, other)
  IN /\ merge_patch(result, other) = result
     /\ IF is_object(other)
        THEN LET keys == DOMAIN m_value(other) \cup DOMAIN m_value(result)
                 stays == {k \in keys : ~contains(other, k)}
             IN /\ \A k \in keys : contains(result, k) <=>
                     IF k \in stays THEN contains(doc, k) ELSE ~is_null(m_value(other)[k])
                /\ \A k \in DOMAIN m_value(result) :
                     IF k \in stays THEN m_value(result)[k] = m_value(doc)[k]
                     ELSE IF is_object(m_value(other)[k]) THEN is_object(m_value(result)[k])
                     ELSE m_value(result)[k] = m_value(other)[k]
        ELSE result = other

\* No unsigned number beyond what number_integer_t holds, on which comparison with a
\* negative number goes wrong.
RECURSIVE Comparable(_)
Comparable(v) ==
  /\ m_type(v) = "unsigned" => m_value(v) < Half
  /\ is_structured(v) => \A k \in DOMAIN m_value(v) : Comparable(m_value(v)[k])

\* The six comparisons agree with one total order of all values, numbers of the three
\* types in one line, as sorting and std::map ask for.
OrderIsTotal ==
  Comparable(doc) /\ Comparable(other) =>
    /\ Cardinality({r \in 1 .. 3 : <<Less(doc, other), Equal(doc, other), Less(other, doc)>>[r]}) = 1
    /\ LessOrEqual(doc, other) <=> Less(doc, other) \/ Equal(doc, other)
    /\ Greater(doc, other) <=> Less(other, doc)
    /\ GreaterOrEqual(doc, other) <=> LessOrEqual(other, doc)
    /\ \A x \in Others : Comparable(x) /\ Less(doc, other) => Less(doc, x) \/ Less(x, other)
=============================================================================
