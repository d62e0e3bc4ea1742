------------------------------- MODULE MCJson -------------------------------
EXTENDS JsonDocument

\* Half is 2: the integers of a number_integer_t are -2 .. 1, those of a
\* number_unsigned_t 0 .. 3. A float of 3 is 1.5.
Integer(n) == Json("integer", n)
Unsigned(n) == Json("unsigned", n)
Float(n) == Json("float", n)

MCLeaves == {null, Integer(-1), Text(NoText)}

MCNames == {Name.audio, Name.data}

Frame == (Name.data :> Object(Name.audio :> Text(NoText))) @@ (Name.uid :> Text(20))

\* Every type; numbers of the three types, equal and not, beyond number_integer_t too;
\* containers that differ in an element, a key, their length; an object that update() may
\* fail to merge with its first member taken; frames for on_message().
MCOthers ==
  MCLeaves \cup
  { Text(Name.vad_state), Unsigned(1), Unsigned(3), Float(2), Float(3),
    Array(<<>>), Array(<<Integer(-1), null>>),
    Array(<<Array(<<>>), Integer(1), Text(NoText)>>),
    Object(EmptyMap), Object(Name.audio :> null), Object(Name.audio :> Integer(-1)),
    Object((Name.audio :> Object(Name.data :> null)) @@ (Name.data :> Json("boolean", FALSE))),
    Object(Name.data :> Array(<<null, Unsigned(1)>>)),
    Object((Name.audio :> Integer(-1)) @@ (Name.data :> Object(EmptyMap))),
    Object(Frame), Object((Name.uid :> Integer(1)) @@ Frame) }

MCPointers ==
  {<<>>, <<0>>, <<1>>, <<Dash>>, <<Name.audio>>, <<Name.data, Name.audio>>, <<0, 0>>,
   <<Name.audio, 0>>, <<Dash, Dash>>}

Ops(x) ==
  {AddOp(p, x) : p \in MCPointers} \cup {RemoveOp(p) : p \in MCPointers}
    \cup {ReplaceOp(p, x) : p \in {<<>>, <<0>>, <<Name.audio>>}}
    \cup {[op |-> o, path |-> p, from |-> f] :
            o \in {"move", "copy"}, p \in {<<0>>, <<Dash>>, <<Name.audio>>}, f \in {<<1>>, <<Name.data>>}}
    \cup {[op |-> "test", path |-> p, value |-> x] : p \in {<<0>>, <<Name.audio>>, <<Name.data, Dash>>}}

\* Each operation alone, some pairs, and objects that are no operation.
MCPatches ==
  {<<o>> : o \in Ops(Integer(-1))}
    \cup {<<AddOp(<<0>>, null), RemoveOp(p)>> : p \in MCPointers}
    \cup {<<[path |-> <<>>]>>, <<[op |-> "merge", path |-> <<>>]>>, <<[op |-> "add", path |-> <<>>]>>, <<>>}
=============================================================================
