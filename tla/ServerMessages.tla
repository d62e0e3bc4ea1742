--------------------------- MODULE ServerMessages ---------------------------
(***************************************************************************)
(* The service's use of basic_json: how on_message() (src/server.cpp) gets *)
(* a task out of a text frame, and how build_vad_response()                *)
(* (src/session.cpp) makes the reply. AudioServer takes either as one step *)
(* and only tells frames that make a task from those that do not; here is  *)
(* which are which.                                                        *)
(***************************************************************************)
EXTENDS JsonValue

\* The member names, in the integers JsonValue has for strings.
Name == [audio |-> 10, connect_session |-> 11, current_session |-> 12, data |-> 13,
         new_session |-> 14, uid |-> 15, vad_audio |-> 16, vad_state |-> 17]

Text(n) == Json("string", n)

\* Mutant of Field: a field is read without asking whether it is there.
FieldUnasked(payload, name) == convert(at_key(payload, name).v, "string")

\* A task field that the frame names: an implicit conversion to std::string.
Field(payload, name) ==
  IF contains(payload, name) THEN convert(at_key(payload, name).v, "string")
  ELSE Ok(Text(NoText))

\* on_message() for the text frame payload, parsed: the outcome's value is what is pushed,
\* or null; an exception is caught and ends the handler there.
on_message(payload) ==
  LET data == at_key(payload, Name.data).v
      audio == convert(at_key(data, Name.audio).v, "string")
      fields == <<Field(payload, Name.uid), Field(payload, Name.connect_session),
                  Field(payload, Name.current_session)>>
      FirstThrow == SelectInSeq(<<audio>> \o fields, LAMBDA f : f.thrown # 0)
  IN IF ~contains(payload, Name.data) \/ ~contains(data, Name.audio) THEN Ok(null)
     ELSE IF FirstThrow # 0 THEN Throw(null, 302)
     ELSE Ok(Array(<<audio.v>> \o [i \in 1 .. 3 |-> fields[i].v]))

\* Mutant of Data: the two pairs in one pair of braces.
DataFlat(state, audio) ==
  FromInit(<<Text(Name.vad_state), state, Text(Name.vad_audio), audio>>, "deduced").v

\* Braces within braces: each list is deduced to be an array or an object.
Pair(name, x) == FromInit(<<Text(name), x>>, "deduced").v

Data(state, audio) ==
  FromInit(<<Pair(Name.vad_state, state), Pair(Name.vad_audio, audio)>>, "deduced").v

\* build_vad_response(): text arguments only; no member for an empty new_session.
build_vad_response(id, connect, current, state, audio, new_session) ==
  LET j == FromInit(<<Pair(Name.uid, id), Pair(Name.connect_session, connect),
                      Pair(Name.current_session, current),
                      Pair(Name.data, Data(state, audio))>>, "deduced").v
  IN IF new_session = Text(NoText) THEN j ELSE subscript_key(j, Name.new_session, new_session).v

-----------------------------------------------------------------------------
\* A frame is taken as a whole or not at all: it becomes a task if it has audio and
\* everything it names is text, whatever else it holds and in whatever order its members
\* are read; on the way the handler never reads a member that is not there.
IsText(payload, name) == contains(payload, name) => is_string(m_value(payload)[name])

TakenWhole(payload) ==
  LET taken == on_message(payload)
      wanted == /\ contains(payload, Name.data)
                /\ contains(m_value(payload)[Name.data], Name.audio)
                /\ IsText(m_value(payload)[Name.data], Name.audio)
                /\ \A name \in {Name.uid, Name.connect_session, Name.current_session} :
                     IsText(payload, name)
  IN (taken.v # null) <=> wanted

\* Whatever the texts in it are, those that look like member names included, a reply is
\* an object with an object for data, and each text under the name meant for it.
ReplyReadable(id, connect, current, state, audio, new_session) ==
  LET reply == build_vad_response(id, connect, current, state, audio, new_session)
      data == at_key(reply, Name.data).v
  IN /\ is_object(reply) /\ is_object(data)
     /\ at_key(reply, Name.uid).v = id
     /\ at_key(reply, Name.connect_session).v = connect
     /\ at_key(reply, Name.current_session).v = current
     /\ at_key(data, Name.vad_state).v = state /\ at_key(data, Name.vad_audio).v = audio
     /\ IF new_session = Text(NoText) THEN ~contains(reply, Name.new_session)
        ELSE at_key(reply, Name.new_session).v = new_session
=============================================================================
