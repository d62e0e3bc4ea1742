---------------------------- MODULE JsonProgram ----------------------------
(***************************************************************************)
(* A program with two basic_json values, doc and other. It goes through    *)
(* doc with an iterator and erases on the way, step by step; whatever else *)
(* it does between two such loops is one step, Elsewhere, that leaves any  *)
(* sound values. JsonDocument makes the calls behind that step.            *)
(***************************************************************************)
EXTENDS ServerMessages

VARIABLES
  doc, other,
  mode,        \* "sweep" in the loop
  it,          \* the loop's iterator
  kept, todo   \* history: the items passed over, and those still to visit

loopVars == <<it, kept, todo>>
programVars == <<doc, other, mode, loopVars>>

\* What assert_invariant() leaves to the types of json_value's members: an array is a
\* std::vector, an object a std::map, null is one value. Only a parser's callback sees
\* "discarded".
Sound(v) ==
  /\ m_type(v) # "discarded"
  /\ is_null(v) => v = null
  /\ is_array(v) => m_value(v) \in Seq(Range(m_value(v)))
  /\ is_object(v) => IsFiniteSet(DOMAIN m_value(v)) /\ DOMAIN m_value(v) \subseteq Int

ProgramInit ==
  /\ Sound(doc) /\ mode = "calls"
  /\ it = 0 /\ kept = <<>> /\ todo = <<>>

Elsewhere ==
  /\ mode # "sweep" /\ mode' # "sweep"
  /\ Sound(doc')
  /\ UNCHANGED loopVars

-----------------------------------------------------------------------------
\* for (it = doc.begin(); it != doc.end(); ) it = ... ? doc.erase(it) : ++it;
LoopBegin ==
  /\ mode = "calls" /\ mode' = "sweep"
  /\ it' = begin(doc)
  /\ kept' = <<>> /\ todo' = Items(doc)
  /\ UNCHANGED <<doc, other>>

LoopKeep ==
  /\ mode = "sweep" /\ it # end(doc)
  /\ it' = it + 1
  /\ kept' = Append(kept, Items(doc)[it]) /\ todo' = Tail(todo)
  /\ UNCHANGED <<doc, other, mode>>

LoopErase ==
  LET erased == erase_pos(doc, TRUE, it)
  IN /\ mode = "sweep" /\ it # end(doc)
     /\ doc' = erased.v /\ it' = erased.it
     /\ todo' = Tail(todo)
     /\ UNCHANGED <<other, mode, kept>>

LoopEnd ==
  /\ mode = "sweep" /\ it = end(doc)
  /\ mode' = "calls"
  /\ it' = 0 /\ kept' = <<>> /\ todo' = <<>>
  /\ UNCHANGED <<doc, other>>

ProgramNext == Elsewhere \/ LoopBegin \/ LoopKeep \/ LoopErase \/ LoopEnd

ProgramSpec == ProgramInit /\ [][ProgramNext]_programVars

-----------------------------------------------------------------------------
\* Erasing while iterating: the items kept stand before the iterator, those not visited
\* yet from it on, none skipped or visited twice, and so up to the end.
SweepIsExact ==
  mode = "sweep" => /\ Items(doc) = kept \o todo
                    /\ doc # null => it = Len(kept) + 1

\* on_message(): see TakenWhole, on frames made of the two values.
FramesTakenWhole ==
  \A payload \in {doc, other, Object((Name.data :> doc) @@ (Name.uid :> other)),
                  Object((Name.data :> Object(Name.audio :> other)) @@ (Name.uid :> doc))} :
    TakenWhole(payload)

\* build_vad_response(): see ReplyReadable, on texts the two values may be.
RepliesReadable ==
  is_string(doc) /\ is_string(other) =>
    \A t \in [1 .. 6 -> {doc, other}] : ReplyReadable(t[1], t[2], t[3], t[4], t[5], t[6])
=============================================================================
