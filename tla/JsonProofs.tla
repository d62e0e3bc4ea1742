----------------------------- MODULE JsonProofs -----------------------------
(***************************************************************************)
(* Theorems about basic_json (JsonValue) as JsonProgram and the service    *)
(* (ServerMessages) use it, for values of any size and depth: a frame is   *)
(* taken as a whole or not at all, a reply is readable, and a loop that    *)
(* erases while it iterates neither skips an item nor visits one twice.    *)
(***************************************************************************)
EXTENDS JsonProgram, SharedLemmas, FiniteSetTheorems, TLAPS

-----------------------------------------------------------------------------
(* The checks of an operation.                                               *)

\* Min returns an element that no other is below, when there is one.
LEMMA MinIsLeast ==
  ASSUME NEW S, S \subseteq Int, NEW m \in S, \A x \in S : m <= x
  PROVE  Min(S) = m
<1>1. \A y \in S : (\A x \in S : y <= x) => y = m
  OBVIOUS
<1>2. Min(S) = CHOOSE y \in S : \A x \in S : y <= x
  BY DEF Min
<1>3. QED
  BY <1>1, <1>2

\* A set of naturals that is not empty has such an element.
LEMMA MinOfSome ==
  ASSUME NEW S, S \subseteq Nat, S # {}
  PROVE  Min(S) \in S /\ \A x \in S : Min(S) <= x
<1>1. PICK m \in S : \A x \in S : m <= x
  BY LeastNatural
<1>2. S \subseteq Int
  OBVIOUS
<1>3. Min(S) = m
  BY <1>1, <1>2, MinIsLeast
<1>4. QED
  BY <1>1, <1>3

\* An operation whose only check fails throws, and otherwise does what it does.
LEMMA OneCheck ==
  ASSUME NEW v, NEW b \in BOOLEAN, NEW id, NEW outcome
  PROVE  Checked(v, <<<<b, id>>>>, outcome) = IF b THEN Throw(v, id) ELSE outcome
<1> DEFINE checks == <<<<b, id>>>>
           failing == {i \in DOMAIN checks : checks[i][1]}
<1>1. DOMAIN checks = {1} /\ checks[1][1] = b /\ checks[1][2] = id
  OBVIOUS
<1>2. CASE b
  <2>1. failing = {1}
    BY <1>1, <1>2
  <2>2. Min(failing) = 1
    BY <2>1, MinIsLeast
  <2>3. QED
    BY <1>1, <1>2, <2>1, <2>2 DEF Checked
<1>3. CASE ~b
  <2>1. failing = {}
    BY <1>1, <1>3
  <2>2. QED
    BY <1>3, <2>1 DEF Checked
<1>4. QED
  BY <1>2, <1>3

\* Of two checks, the first that fails counts.
LEMMA TwoChecks ==
  ASSUME NEW v, NEW b \in BOOLEAN, NEW c \in BOOLEAN, NEW id, NEW jd, NEW outcome
  PROVE  Checked(v, <<<<b, id>>, <<c, jd>>>>, outcome) =
           IF b THEN Throw(v, id) ELSE IF c THEN Throw(v, jd) ELSE outcome
<1> DEFINE checks == <<<<b, id>>, <<c, jd>>>>
           failing == {i \in DOMAIN checks : checks[i][1]}
<1>1. /\ DOMAIN checks = {1, 2}
      /\ checks[1][1] = b /\ checks[1][2] = id /\ checks[2][1] = c /\ checks[2][2] = jd
  OBVIOUS
<1>2. CASE b
  <2> failing \subseteq {1, 2} /\ 1 \in failing
    BY <1>1, <1>2
  <2> HIDE DEF failing
  <2>1. failing \subseteq Int /\ 1 \in failing /\ \A x \in failing : 1 <= x
    OBVIOUS
  <2> USE DEF failing
  <2>2. Min(failing) = 1
    <3> HIDE DEF failing
    <3> QED
      BY <2>1, MinIsLeast
  <2>3. failing # {}
    BY <2>1
  <2>4. QED
    BY <1>1, <1>2, <2>2, <2>3 DEF Checked
<1>3. CASE ~b /\ c
  <2>1. failing = {2}
    BY <1>1, <1>3
  <2>2. Min(failing) = 2
    BY <2>1, MinIsLeast
  <2>3. QED
    BY <1>1, <1>3, <2>1, <2>2 DEF Checked
<1>4. CASE ~b /\ ~c
  <2>1. failing = {}
    BY <1>1, <1>4
  <2>2. QED
    BY <1>4, <2>1 DEF Checked
<1>5. QED
  BY <1>2, <1>3, <1>4

\* Of any number, none fails.
LEMMA NoneFails ==
  ASSUME NEW v, NEW checks, NEW outcome, \A i \in DOMAIN checks : ~checks[i][1]
  PROVE  Checked(v, checks, outcome) = outcome
<1> DEFINE failing == {i \in DOMAIN checks : checks[i][1]}
<1>1. failing = {}
  OBVIOUS
<1>2. QED
  BY <1>1 DEF Checked

-----------------------------------------------------------------------------
(* A frame: on_message().                                                    *)

\* A member that is there is what at() returns, without throwing.
LEMMA AtKeyFinds ==
  ASSUME NEW v, NEW k, contains(v, k)
  PROVE  at_key(v, k) = Ok(m_value(v)[k])
<1> DEFINE b == ~is_object(v)
           c == is_object(v) /\ k \notin DOMAIN m_value(v)
<1>1. b \in BOOLEAN /\ c \in BOOLEAN /\ ~b /\ ~c
  BY DEF contains
<1>2. at_key(v, k) = Checked(v, <<<<b, 304>>, <<c, 403>>>>, Ok(m_value(v)[k]))
  BY DEF at_key
<1> HIDE DEF b, c
<1>3. QED
  BY <1>1, <1>2, TwoChecks

\* A conversion to std::string returns text and throws for anything else.
LEMMA Converts ==
  ASSUME NEW v
  PROVE  convert(v, "string") = IF is_string(v) THEN Ok(v) ELSE Throw(v, 302)
<1> DEFINE b == m_type(v) # "string"
<1>1. convert(v, "string") = Checked(v, <<<<b, 302>>>>, Ok(v))
  BY DEF convert, get, from_json
<1>2. b \in BOOLEAN /\ (b <=> ~is_string(v))
  BY DEF is_string
<1> HIDE DEF b
<1>3. Checked(v, <<<<b, 302>>>>, Ok(v)) = IF b THEN Throw(v, 302) ELSE Ok(v)
  BY <1>2, OneCheck
<1>4. QED
  BY <1>1, <1>2, <1>3

\* A task field throws only if the frame names it and it is no text.
LEMMA FieldThrows ==
  ASSUME NEW payload, NEW name
  PROVE  Field(payload, name).thrown # 0 <=> ~IsText(payload, name)
<1>1. CASE contains(payload, name)
  <2>1. Field(payload, name) = convert(m_value(payload)[name], "string")
    BY <1>1, AtKeyFinds DEF Field, Ok
  <2>2. QED
    BY <1>1, <2>1, Converts DEF IsText, Ok, Throw
<1>2. CASE ~contains(payload, name)
  BY <1>2 DEF Field, IsText, Ok
<1>3. QED
  BY <1>1, <1>2

\* SelectInSeq finds an outcome that throws among the four, if there is one.
LEMMA OneThrows ==
  ASSUME NEW a, NEW b, NEW c, NEW d
  PROVE  SelectInSeq(<<a>> \o <<b, c, d>>, LAMBDA f : f.thrown # 0) # 0 <=>
           a.thrown # 0 \/ b.thrown # 0 \/ c.thrown # 0 \/ d.thrown # 0
<1> DEFINE s == <<a>> \o <<b, c, d>>
           I == {i \in 1 .. Len(s) : s[i].thrown # 0}
<1>2. Len(s) = 4 /\ s[1] = a /\ s[2] = b /\ s[3] = c /\ s[4] = d
  OBVIOUS
<1>3. SelectInSeq(s, LAMBDA f : f.thrown # 0) = IF I # {} THEN Min(I) ELSE 0
  BY DEF SelectInSeq
<1>4. I # {} => Min(I) # 0
  <2> SUFFICES ASSUME I # {} PROVE Min(I) # 0
    OBVIOUS
  <2>1. I \subseteq Nat /\ 0 \notin I
    BY <1>2
  <2>2. Min(I) \in I
    <3> HIDE DEF I
    <3> QED
      BY <2>1, MinOfSome
  <2>3. QED
    BY <2>1, <2>2
<1>5. I # {} <=> a.thrown # 0 \/ b.thrown # 0 \/ c.thrown # 0 \/ d.thrown # 0
  <2>1. 1 .. Len(s) = {1, 2, 3, 4}
    BY <1>2
  <2>2. QED
    BY <1>2, <2>1
<1>6. QED
  BY <1>3, <1>4, <1>5

\* Every frame is taken as a whole or not at all.
LEMMA EveryFrameTakenWhole == \A payload : TakenWhole(payload)
<1> SUFFICES ASSUME NEW payload PROVE TakenWhole(payload)
  OBVIOUS
<1> DEFINE data == m_value(payload)[Name.data]
           uid == Field(payload, Name.uid)
           connect == Field(payload, Name.connect_session)
           current == Field(payload, Name.current_session)
           audio == convert(m_value(data)[Name.audio], "string")
           asked == contains(payload, Name.data) /\ contains(data, Name.audio)
           texts == /\ IsText(data, Name.audio)
                    /\ \A name \in {Name.uid, Name.connect_session, Name.current_session} :
                         IsText(payload, name)
<1>1. \A x : Ok(null).v = null /\ Throw(null, 302).v = null /\ Ok(Array(x)).v # null
  BY DEF Ok, Throw, Array, null, Json
<1>2. CASE ~asked
  <2>1. on_message(payload).v = null
    <3>1. CASE ~contains(payload, Name.data)
      BY <1>1, <3>1 DEF on_message
    <3>2. CASE contains(payload, Name.data) /\ ~contains(data, Name.audio)
      <4>1. at_key(payload, Name.data).v = data
        BY <3>2, AtKeyFinds DEF Ok
      <4>2. QED
        BY <1>1, <3>2, <4>1 DEF on_message
    <3>3. QED
      BY <1>2, <3>1, <3>2
  <2>2. QED
    BY <1>2, <2>1 DEF TakenWhole
<1>3. CASE asked
  <2>1. at_key(payload, Name.data).v = data /\ at_key(data, Name.audio).v = m_value(data)[Name.audio]
    BY <1>3, AtKeyFinds DEF Ok
  <2>2. LET first == SelectInSeq(<<audio>> \o <<uid, connect, current>>, LAMBDA f : f.thrown # 0)
        IN  on_message(payload) =
              IF first # 0 THEN Throw(null, 302)
              ELSE Ok(Array(<<audio.v>> \o [i \in 1 .. 3 |-> <<uid, connect, current>>[i].v]))
    BY <1>3, <2>1 DEF on_message
  <2>3. on_message(payload).v = null <=>
          audio.thrown # 0 \/ uid.thrown # 0 \/ connect.thrown # 0 \/ current.thrown # 0
    <3> HIDE DEF audio, uid, connect, current
    <3> QED
      BY <1>1, <2>2, OneThrows
  <2>4. audio.thrown # 0 <=> ~IsText(data, Name.audio)
    BY <1>3, Converts DEF IsText, Ok, Throw
  <2>5. (uid.thrown # 0 \/ connect.thrown # 0 \/ current.thrown # 0) <=>
          \E name \in {Name.uid, Name.connect_session, Name.current_session} : ~IsText(payload, name)
    BY FieldThrows
  <2>6. QED
    BY <1>3, <2>3, <2>4, <2>5 DEF TakenWhole
<1>4. QED
  BY <1>2, <1>3

-----------------------------------------------------------------------------
(* A reply: build_vad_response().                                            *)

\* A list in braces is an object if all of it is pairs, and an array otherwise.
LEMMA Deduced ==
  ASSUME NEW init
  PROVE  LET pairs == \A i \in DOMAIN init : IsPair(init[i])
             First(k) == Min({i \in DOMAIN init : m_value(m_value(init[i])[1]) = k})
         IN FromInit(init, "deduced").v =
              IF pairs
              THEN Object([k \in {m_value(m_value(init[i])[1]) : i \in DOMAIN init} |->
                             m_value(init[First(k)])[2]])
              ELSE Array(init)
<1> DEFINE pairs == \A i \in DOMAIN init : IsPair(init[i])
           First(k) == Min({i \in DOMAIN init : m_value(m_value(init[i])[1]) = k})
           b == "deduced" = "object" /\ ~pairs
           result == IF pairs /\ "deduced" # "array"
                     THEN Object([k \in {m_value(m_value(init[i])[1]) : i \in DOMAIN init} |->
                                    m_value(init[First(k)])[2]])
                     ELSE Array(init)
<1>1. b = FALSE
  OBVIOUS
<1>2. FromInit(init, "deduced") = Checked(null, <<<<b, 301>>>>, Ok(result))
  BY DEF FromInit
<1>3. "deduced" # "array"
  OBVIOUS
<1>4. FromInit(init, "deduced") = Ok(result)
  <2> HIDE DEF b, result
  <2> b \in BOOLEAN /\ ~b
    BY <1>1
  <2> QED
    BY <1>2, OneCheck
<1>5. FromInit(init, "deduced").v = result
  <2> HIDE DEF result
  <2> QED
    BY <1>4 DEF Ok
<1>6. QED
  BY <1>3, <1>5, Zenon

\* A name and a value in braces are an array, whatever the value is: text is no array.
LEMMA PairIsArray ==
  ASSUME NEW name, NEW x
  PROVE  Pair(name, x) = Array(<<Text(name), x>>)
<1> DEFINE init == <<Text(name), x>>
<1>1. 1 \in DOMAIN init /\ init[1] = Text(name)
  OBVIOUS
<1>2. ~IsPair(Text(name))
  BY DEF IsPair, is_array, m_type, Text, Json
<1> HIDE DEF init
<1>3. ~\A i \in DOMAIN init : IsPair(init[i])
  BY <1>1, <1>2
<1>4. FromInit(init, "deduced").v = Array(init)
  BY <1>3, Deduced
<1>5. QED
  BY <1>4 DEF Pair, init

\* Such an array is a pair, of its name and its value.
LEMMA PairIsPair ==
  ASSUME NEW name, NEW x
  PROVE  /\ IsPair(Pair(name, x))
         /\ m_value(m_value(Pair(name, x))[1]) = name
         /\ m_value(Pair(name, x))[2] = x
<1> DEFINE s == <<Text(name), x>>
<1>1. s[1] = Text(name) /\ s[2] = x /\ Len(s) = 2
  OBVIOUS
<1> HIDE DEF s
<1>2. m_type(Array(s)) = "array" /\ m_value(Array(s)) = s
  BY DEF Array, Json, m_type, m_value
<1>3. m_type(Text(name)) = "string" /\ m_value(Text(name)) = name
  BY DEF Text, Json, m_type, m_value
<1>4. Pair(name, x) = Array(s)
  BY PairIsArray DEF s
<1>5. IsPair(Array(s))
  BY <1>1, <1>2, <1>3 DEF IsPair, is_array, is_string, size, Items
<1>6. QED
  BY <1>1, <1>2, <1>3, <1>4, <1>5

\* The object o has just the n names, each with its value.
HasMembers(o, n, names, xs) ==
  /\ is_object(o)
  /\ \A i \in 1 .. n : names[i] \in DOMAIN m_value(o) /\ m_value(o)[names[i]] = xs[i]
  /\ \A k \in DOMAIN m_value(o) : \E i \in 1 .. n : k = names[i]

\* A list of pairs with names that differ is an object with each value under its name.
LEMMA PairsAreObject ==
  ASSUME NEW n \in Nat, NEW names, NEW xs, NEW init, DOMAIN init = 1 .. n,
         \A i \in 1 .. n : init[i] = Pair(names[i], xs[i]),
         \A i, j \in 1 .. n : names[i] = names[j] => i = j
  PROVE  HasMembers(FromInit(init, "deduced").v, n, names, xs)
<1> DEFINE First(k) == Min({i \in DOMAIN init : m_value(m_value(init[i])[1]) = k})
           f == [k \in {m_value(m_value(init[i])[1]) : i \in DOMAIN init} |->
                   m_value(init[First(k)])[2]]
<1>1. \A i \in 1 .. n : /\ IsPair(init[i])
                       /\ m_value(m_value(init[i])[1]) = names[i]
                       /\ m_value(init[i])[2] = xs[i]
  BY PairIsPair
<1>2. FromInit(init, "deduced").v = Object(f)
  BY <1>1, Deduced
<1>3. \A i \in 1 .. n : First(names[i]) = i
  <2> SUFFICES ASSUME NEW i \in 1 .. n PROVE First(names[i]) = i
    OBVIOUS
  <2> DEFINE S == {j \in DOMAIN init : m_value(m_value(init[j])[1]) = names[i]}
  <2>1. S = {i}
    BY <1>1
  <2>2. i \in Int /\ i <= i
    OBVIOUS
  <2>3. Min({i}) = i
    BY <2>2, MinIsLeast
  <2>4. QED
    BY <2>1, <2>3
<1>4. DOMAIN f = {names[i] : i \in 1 .. n}
  BY <1>1
<1>5. \A i \in 1 .. n : f[names[i]] = xs[i]
  <2> HIDE DEF First
  <2> QED
    BY <1>1, <1>3, <1>4
<1> HIDE DEF f
<1>6. is_object(Object(f)) /\ m_value(Object(f)) = f
  BY DEF is_object, Object, Json, m_type, m_value
<1>7. QED
  BY <1>2, <1>4, <1>5, <1>6 DEF HasMembers

\* The value under a reply's name for data is an object of the two values.
LEMMA DataIsObject ==
  ASSUME NEW state, NEW audio
  PROVE  LET o == Data(state, audio)
         IN /\ is_object(o)
            /\ contains(o, Name.vad_state) /\ m_value(o)[Name.vad_state] = state
            /\ contains(o, Name.vad_audio) /\ m_value(o)[Name.vad_audio] = audio
<1> DEFINE init == <<Pair(Name.vad_state, state), Pair(Name.vad_audio, audio)>>
           names == <<Name.vad_state, Name.vad_audio>>
           xs == <<state, audio>>
           o == FromInit(init, "deduced").v
<1>1. /\ DOMAIN init = 1 .. 2
      /\ names[1] = Name.vad_state /\ names[2] = Name.vad_audio /\ xs[1] = state /\ xs[2] = audio
      /\ init[1] = Pair(names[1], xs[1]) /\ init[2] = Pair(names[2], xs[2])
  OBVIOUS
<1>2. Name.vad_state = 17 /\ Name.vad_audio = 16
  BY DEF Name
<1>3. 2 \in Nat /\ 1 .. 2 = {1, 2}
  OBVIOUS
<1>4. o = Data(state, audio)
  BY DEF Data
<1> HIDE DEF init, names, xs
<1>5. \A i \in 1 .. 2 : init[i] = Pair(names[i], xs[i])
  BY <1>1, <1>3
<1>6. \A i, j \in 1 .. 2 : names[i] = names[j] => i = j
  BY <1>1, <1>2, <1>3
<1>7. HasMembers(o, 2, names, xs)
  BY <1>1, <1>3, <1>5, <1>6, PairsAreObject, Zenon
<1> HIDE DEF o
<1>8. QED
  BY <1>1, <1>3, <1>4, <1>7 DEF contains, HasMembers

\* Every reply is readable, whatever is in it.
LEMMA EveryReplyReadable ==
  \A id, connect, current, state, audio, new_session :
    ReplyReadable(id, connect, current, state, audio, new_session)
<1> SUFFICES ASSUME NEW id, NEW connect, NEW current, NEW state, NEW audio, NEW new_session
             PROVE  ReplyReadable(id, connect, current, state, audio, new_session)
  OBVIOUS
<1> DEFINE data == Data(state, audio)
           init == <<Pair(Name.uid, id), Pair(Name.connect_session, connect),
                     Pair(Name.current_session, current), Pair(Name.data, data)>>
           names == <<Name.uid, Name.connect_session, Name.current_session, Name.data>>
           xs == <<id, connect, current, data>>
           j == FromInit(init, "deduced").v
           reply == build_vad_response(id, connect, current, state, audio, new_session)
           Holds(o) == /\ is_object(o)
                       /\ contains(o, Name.uid) /\ m_value(o)[Name.uid] = id
                       /\ contains(o, Name.connect_session)
                       /\ m_value(o)[Name.connect_session] = connect
                       /\ contains(o, Name.current_session)
                       /\ m_value(o)[Name.current_session] = current
                       /\ contains(o, Name.data) /\ m_value(o)[Name.data] = data
<1>1. /\ DOMAIN init = 1 .. 4
      /\ names[1] = Name.uid /\ names[2] = Name.connect_session
      /\ names[3] = Name.current_session /\ names[4] = Name.data
      /\ xs[1] = id /\ xs[2] = connect /\ xs[3] = current /\ xs[4] = data
      /\ init[1] = Pair(names[1], xs[1]) /\ init[2] = Pair(names[2], xs[2])
      /\ init[3] = Pair(names[3], xs[3]) /\ init[4] = Pair(names[4], xs[4])
  <2> HIDE DEF data
  <2> QED
    OBVIOUS
<1>2. /\ Name.uid = 15 /\ Name.connect_session = 11 /\ Name.current_session = 12
      /\ Name.data = 13 /\ Name.new_session = 14
  BY DEF Name
<1>3. 4 \in Nat /\ 1 .. 4 = {1, 2, 3, 4}
  OBVIOUS
<1>4. reply = IF new_session = Text(NoText) THEN j
              ELSE subscript_key(j, Name.new_session, new_session).v
  BY DEF build_vad_response
<1> HIDE DEF init, names, xs, data, reply
<1>5. \A i \in 1 .. 4 : init[i] = Pair(names[i], xs[i])
  BY <1>1, <1>3
<1>6. \A i, k \in 1 .. 4 : names[i] = names[k] => i = k
  BY <1>1, <1>2, <1>3
<1>7. HasMembers(j, 4, names, xs)
  BY <1>1, <1>3, <1>5, <1>6, PairsAreObject, Zenon
<1> HIDE DEF j
<1>8. Holds(j) /\ ~contains(j, Name.new_session)
  BY <1>1, <1>2, <1>3, <1>7 DEF contains, HasMembers
<1>9. /\ Holds(reply)
      /\ IF new_session = Text(NoText) THEN ~contains(reply, Name.new_session)
         ELSE /\ contains(reply, Name.new_session)
              /\ m_value(reply)[Name.new_session] = new_session
  <2>1. CASE new_session = Text(NoText)
    BY <1>4, <1>8, <2>1
  <2>2. CASE new_session # Text(NoText)
    <3> DEFINE g == [k \in DOMAIN m_value(j) \cup {Name.new_session} |->
                      IF k = Name.new_session THEN new_session ELSE m_value(j)[k]]
               b == ~(is_null(j) \/ is_object(j))
    <3>1. b \in BOOLEAN /\ ~b /\ ~is_null(j)
      BY <1>7 DEF HasMembers, is_null, is_object
    <3>2. Members(j) = m_value(j)
      BY <3>1 DEF Members
    <3>3. subscript_key(j, Name.new_session, new_session) =
            Checked(j, <<<<b, 305>>>>, Ok(Object(g)))
      BY <3>2 DEF subscript_key
    <3>4. subscript_key(j, Name.new_session, new_session).v = Object(g)
      <4> HIDE DEF b, g
      <4> QED
        BY <3>1, <3>3, OneCheck DEF Ok
    <3>5. /\ DOMAIN g = DOMAIN m_value(j) \cup {Name.new_session}
          /\ \A k \in DOMAIN m_value(j) : k # Name.new_session => g[k] = m_value(j)[k]
          /\ g[Name.new_session] = new_session
      OBVIOUS
    <3> HIDE DEF g
    <3>6. is_object(Object(g)) /\ m_value(Object(g)) = g
      BY DEF is_object, Object, Json, m_type, m_value
    <3>7. /\ Holds(Object(g)) /\ contains(Object(g), Name.new_session)
          /\ m_value(Object(g))[Name.new_session] = new_session
      BY <1>2, <1>8, <3>5, <3>6 DEF contains
    <3>8. QED
      BY <1>4, <2>2, <3>4, <3>7
  <2>3. QED
    BY <2>1, <2>2
<1> HIDE DEF Holds
<1>10. /\ at_key(reply, Name.uid).v = id /\ at_key(reply, Name.connect_session).v = connect
       /\ at_key(reply, Name.current_session).v = current /\ at_key(reply, Name.data).v = data
       /\ is_object(reply)
       /\ IF new_session = Text(NoText) THEN ~contains(reply, Name.new_session)
          ELSE at_key(reply, Name.new_session).v = new_session
  BY <1>9, AtKeyFinds DEF Holds, Ok
<1>11. /\ is_object(data)
       /\ at_key(data, Name.vad_state).v = state /\ at_key(data, Name.vad_audio).v = audio
  BY DataIsObject, AtKeyFinds DEF data, Ok
<1>12. QED
  BY <1>9, <1>10, <1>11 DEF ReplyReadable, reply

-----------------------------------------------------------------------------
(* The order of an object's members.                                         *)

\* Larger keys stand later, and every place up to the number of keys is taken.
LEMMA KeysInOrder ==
  ASSUME NEW v, IsFiniteSet(DOMAIN m_value(v)), DOMAIN m_value(v) \subseteq Int
  PROVE  LET D == DOMAIN m_value(v)
             n == Cardinality(D)
         IN /\ n \in Nat
            /\ \A k \in D : Position(v, k) \in 1 .. n
            /\ \A j, k \in D : j < k => Position(v, j) < Position(v, k)
            /\ \A i \in 1 .. n : Keys(v)[i] \in D /\ Position(v, Keys(v)[i]) = i
<1> DEFINE D == DOMAIN m_value(v)
           n == Cardinality(D)
           Below(k) == {j \in D : j <= k}
           place == [k \in D |-> Position(v, k)]
<1>1. n \in Nat
  BY FS_CardinalityType
<1>2. \A k : Position(v, k) = Cardinality(Below(k))
  BY DEF Position
<1>3. \A k \in D : /\ IsFiniteSet(Below(k))
                  /\ Cardinality(Below(k)) \in Nat /\ Cardinality(Below(k)) <= n
  <2> TAKE k \in D
  <2>1. Below(k) \in SUBSET D
    OBVIOUS
  <2> HIDE DEF Below, D
  <2>2. QED
    BY <2>1, FS_Subset, FS_CardinalityType DEF D
<1>4. \A k \in D : Cardinality(Below(k)) # 0
  <2> TAKE k \in D
  <2>1. k \in Below(k)
    OBVIOUS
  <2> HIDE DEF Below, D
  <2>2. QED
    BY <1>3, <2>1, FS_EmptySet
<1>5. \A j, k \in D : j < k => Cardinality(Below(j)) < Cardinality(Below(k))
  <2> TAKE j, k \in D
  <2> HAVE j < k
  <2>1. Below(j) \in SUBSET Below(k) /\ k \in Below(k) /\ k \notin Below(j)
    OBVIOUS
  <2> HIDE DEF Below, D
  <2>2. /\ Cardinality(Below(j)) <= Cardinality(Below(k))
        /\ Cardinality(Below(j)) # Cardinality(Below(k))
    BY <1>3, <2>1, FS_Subset
  <2>3. QED
    BY <1>3, <2>2
<1>6. /\ \A k \in D : Position(v, k) \in 1 .. n
      /\ \A j, k \in D : j < k => Position(v, j) < Position(v, k)
  <2> HIDE DEF Below, D
  <2> QED
    BY <1>1, <1>2, <1>3, <1>4, <1>5
<1>7. place \in Surjection(D, 1 .. n)
  <2>1. place \in [D -> 1 .. n]
    <3> HIDE DEF D
    <3> QED
      BY <1>6
  <2>2. \A j, k \in D : j # k => place[j] # place[k]
    <3> TAKE j, k \in D
    <3> HAVE j # k
    <3>1. place[j] \in Int /\ place[k] \in Int /\ place[j] = Position(v, j) /\ place[k] = Position(v, k)
      BY <1>1, <2>1
    <3>2. j < k \/ k < j
      OBVIOUS
    <3>3. QED
      BY <1>6, <3>1, <3>2
  <2>3. place \in Injection(D, 1 .. n)
    <3> HIDE DEF D, place
    <3> QED
      BY <2>1, <2>2 DEF Injection, IsInjective
  <2>4. IsFiniteSet(1 .. n) /\ Cardinality(1 .. n) = n
    BY <1>1, FS_Interval
  <2>5. QED
    <3> HIDE DEF place
    <3> QED
      BY <2>3, <2>4, FS_Injection
<1>8. \A i \in 1 .. n : \E k \in D : Position(v, k) = i
  <2>1. \A i \in 1 .. n : \E k \in D : place[k] = i
    <3> HIDE DEF place, D
    <3> QED
      BY <1>7 DEF Surjection
  <2>2. QED
    BY <2>1
<1>9. \A i \in 1 .. n : Keys(v)[i] \in D /\ Position(v, Keys(v)[i]) = i
  BY <1>8 DEF Keys
<1>10. QED
  BY <1>1, <1>6, <1>9

\* Removing an element leaves those before it in place and moves up those after it.
LEMMA RemoveAtIs ==
  ASSUME NEW S, NEW s \in Seq(S), NEW p \in 1 .. Len(s)
  PROVE  RemoveAt(s, p) = [i \in 1 .. Len(s) - 1 |-> IF i < p THEN s[i] ELSE s[i + 1]]
<1> DEFINE a == SubSeq(s, 1, p - 1)
           b == SubSeq(s, p + 1, Len(s))
<1>1. Len(s) \in Nat /\ p \in Int /\ 1 <= p /\ p <= Len(s)
  OBVIOUS
<1>2. a \in Seq(S) /\ Len(a) = p - 1 /\ \A i \in 1 .. p - 1 : a[i] = s[i]
  BY <1>1
<1>3. b \in Seq(S) /\ Len(b) = Len(s) - p /\ \A i \in 1 .. Len(s) - p : b[i] = s[i + p]
  BY <1>1
<1>4. RemoveAt(s, p) = a \o b
  BY DEF RemoveAt
<1> HIDE DEF a, b
<1>5. /\ a \o b \in Seq(S)
      /\ Len(a \o b) = Len(s) - 1
      /\ \A i \in 1 .. Len(s) - 1 : (a \o b)[i] = IF i < p THEN s[i] ELSE s[i + 1]
  <2>1. a \o b \in Seq(S) /\ Len(a \o b) = Len(s) - 1
    BY <1>1, <1>2, <1>3
  <2>2. SUFFICES ASSUME NEW i \in 1 .. Len(s) - 1
                 PROVE  (a \o b)[i] = IF i < p THEN s[i] ELSE s[i + 1]
    BY <2>1
  <2>3. CASE i < p
    BY <1>1, <1>2, <1>3, <2>3
  <2>4. CASE ~(i < p)
    <3>1. i - (p - 1) \in 1 .. Len(s) - p /\ i - (p - 1) + p = i + 1
      BY <1>1, <2>4
    <3>2. (a \o b)[i] = b[i - (p - 1)]
      BY <1>1, <1>2, <1>3, <2>4
    <3>3. QED
      BY <1>3, <2>4, <3>1, <3>2
  <2>5. QED
    BY <2>3, <2>4
<1> DEFINE c == a \o b
<1>6. c = [i \in 1 .. Len(s) - 1 |-> c[i]]
  <2> c \in Seq(S) /\ Len(c) = Len(s) - 1
    BY <1>5
  <2> HIDE DEF c
  <2> QED
    OBVIOUS
<1>7. \A i \in 1 .. Len(s) - 1 : c[i] = IF i < p THEN s[i] ELSE s[i + 1]
  BY <1>5
<1> HIDE DEF c
<1>8. c = [i \in 1 .. Len(s) - 1 |-> IF i < p THEN s[i] ELSE s[i + 1]]
  BY <1>6, <1>7
<1>9. QED
  BY <1>4, <1>8 DEF c

\* A place's key is the one key that stands there.
LEMMA KeyAt ==
  ASSUME NEW v, IsFiniteSet(DOMAIN m_value(v)), DOMAIN m_value(v) \subseteq Int,
         NEW k \in DOMAIN m_value(v)
  PROVE  Keys(v)[Position(v, k)] = k
<1> DEFINE j == Keys(v)[Position(v, k)]
<1>1. Position(v, k) \in 1 .. Cardinality(DOMAIN m_value(v))
  BY KeysInOrder
<1>2. j \in DOMAIN m_value(v) /\ Position(v, j) = Position(v, k)
  BY <1>1, KeysInOrder
<1> HIDE DEF j
<1>3. Cardinality(DOMAIN m_value(v)) \in Nat
  BY KeysInOrder
<1>4. ~(j < k) /\ ~(k < j)
  BY <1>1, <1>2, <1>3, KeysInOrder
<1>5. QED
  BY <1>2, <1>4 DEF j

\* Without the key at place p, those before it keep their places and those after it move
\* up by one.
LEMMA KeysWithout ==
  ASSUME NEW v, IsFiniteSet(DOMAIN m_value(v)), DOMAIN m_value(v) \subseteq Int,
         NEW p \in 1 .. Cardinality(DOMAIN m_value(v)),
         NEW w, DOMAIN m_value(w) = DOMAIN m_value(v) \ {Keys(v)[p]}
  PROVE  LET n == Cardinality(DOMAIN m_value(v))
         IN /\ Cardinality(DOMAIN m_value(w)) = n - 1
            /\ \A i \in 1 .. n - 1 : Keys(w)[i] = IF i < p THEN Keys(v)[i] ELSE Keys(v)[i + 1]
<1> DEFINE D == DOMAIN m_value(v)
           E == DOMAIN m_value(w)
           n == Cardinality(D)
           q == Keys(v)[p]
<1>1. n \in Nat /\ q \in D /\ Position(v, q) = p
  BY KeysInOrder
<1>2. IsFiniteSet(E) /\ Cardinality(E) = n - 1 /\ E \subseteq Int
  <2>1. E = D \ {q} /\ IsFiniteSet(D) /\ D \subseteq Int
    OBVIOUS
  <2> HIDE DEF D, E, q
  <2>2. QED
    BY <1>1, <2>1, FS_RemoveElement
<1>3. \A k \in E : Position(w, k) = IF k < q THEN Position(v, k) ELSE Position(v, k) - 1
  <2> TAKE k \in E
  <2> DEFINE A == {j \in D : j <= k}
             B == {j \in E : j <= k}
  <2>1. k \in Int /\ q \in Int /\ k # q
    BY <1>1, <1>2
  <2>2. IsFiniteSet(A)
    <3>1. A \in SUBSET D
      OBVIOUS
    <3> HIDE DEF A
    <3>2. QED
      BY <3>1, FS_Subset
  <2>3. B = A \ {q} /\ (q \in A <=> ~(k < q))
    BY <1>1, <2>1
  <2>4. Position(v, k) = Cardinality(A) /\ Position(w, k) = Cardinality(B)
    BY DEF Position
  <2> HIDE DEF A, B
  <2>5. QED
    BY <2>2, <2>3, <2>4, FS_RemoveElement
<1>4. ASSUME NEW i \in 1 .. n - 1
      PROVE  Keys(w)[i] = IF i < p THEN Keys(v)[i] ELSE Keys(v)[i + 1]
  <2> DEFINE k == Keys(w)[i]
  <2>1. k \in E /\ Position(w, k) = i
    BY <1>2, KeysInOrder
  <2> HIDE DEF k
  <2>2. k \in D /\ k \in Int /\ q \in Int /\ k # q
    BY <1>1, <1>2, <2>1
  <2>3. Position(v, k) \in Int
    BY <1>1, <2>2, KeysInOrder
  <2>4. CASE k < q
    <3>1. Position(v, k) = i
      BY <1>3, <2>1, <2>4
    <3>2. Position(v, k) < p
      BY <1>1, <2>2, <2>4, KeysInOrder
    <3>3. Keys(v)[i] = k
      BY <2>2, <3>1, KeyAt
    <3>4. QED
      BY <3>1, <3>2, <3>3 DEF k
  <2>5. CASE q < k
    <3>1. Position(v, k) = i + 1
      <4>1. Position(w, k) = Position(v, k) - 1
        BY <1>3, <2>1, <2>2, <2>5
      <4>2. QED
        BY <2>1, <2>3, <4>1
    <3>2. p < Position(v, k)
      BY <1>1, <2>2, <2>5, KeysInOrder
    <3>3. Keys(v)[i + 1] = k
      BY <2>2, <3>1, KeyAt
    <3>4. QED
      BY <3>1, <3>2, <3>3 DEF k
  <2>6. QED
    BY <2>2, <2>4, <2>5
<1>5. QED
  BY <1>2, <1>4

-----------------------------------------------------------------------------
(* Items and their removal.                                                  *)

\* The items of a sound value are a sequence, which ends where end() says.
LEMMA ItemsOfSound ==
  ASSUME NEW v, Sound(v)
  PROVE  /\ Items(v) \in Seq(Range(Items(v)))
         /\ v # null => end(v) = Len(Items(v)) + 1
         /\ v = null => Items(v) = <<>> /\ end(v) = 2
         /\ ~is_structured(v) /\ v # null => Items(v) = <<v>>
<1>1. CASE is_array(v)
  <2>1. Items(v) = m_value(v) /\ m_value(v) \in Seq(Range(m_value(v)))
    BY <1>1 DEF Items, Sound
  <2>2. is_structured(v) /\ v # null
    BY <1>1 DEF is_structured, is_array, m_type, null, Json
  <2>3. end(v) = Len(Items(v)) + 1
    BY <2>2 DEF end, size
  <2>4. QED
    BY <2>1, <2>2, <2>3
<1>2. CASE is_object(v)
  <2> DEFINE n == Cardinality(DOMAIN m_value(v))
             s == [i \in 1 .. n |-> m_value(v)[Keys(v)[i]]]
  <2>1. n \in Nat
    BY <1>2, FS_CardinalityType DEF Sound
  <2>2. Items(v) = s
    BY <1>2 DEF Items, is_array, is_object
  <2> HIDE DEF n
  <2>3. s \in Seq(Range(s))
    BY <2>1 DEF Range
  <2>4. is_structured(v) /\ v # null
    BY <1>2 DEF is_structured, is_object, m_type, null, Json
  <2>5. end(v) = Len(Items(v)) + 1
    BY <2>4 DEF end, size
  <2>6. QED
    BY <2>2, <2>3, <2>4, <2>5
<1>3. CASE ~is_structured(v)
  <2>1. ~is_array(v) /\ ~is_object(v) /\ end(v) = 2
    BY <1>3 DEF is_structured, end
  <2>2. is_null(v) <=> v = null
    BY DEF Sound, is_null, m_type, null, Json
  <2>3. Items(v) = IF v = null THEN <<>> ELSE <<v>>
    BY <2>1, <2>2 DEF Items
  <2>4. <<>> \in Seq(Range(<<>>)) /\ <<v>> \in Seq(Range(<<v>>)) /\ Len(<<v>>) = 1
    BY DEF Range
  <2>5. CASE v = null
    BY <1>3, <2>1, <2>3, <2>4, <2>5
  <2>6. CASE v # null
    <3>1. Items(v) = <<v>> /\ Len(Items(v)) = 1 /\ Items(v) \in Seq(Range(Items(v)))
      BY <2>3, <2>4, <2>6
    <3>2. QED
      BY <1>3, <2>1, <2>6, <3>1
  <2>7. QED
    BY <2>5, <2>6
<1>4. QED
  BY <1>1, <1>2, <1>3 DEF is_structured

\* A sequence is one of its own elements.
LEMMA OfItsOwn ==
  ASSUME NEW S, NEW s \in Seq(S)
  PROVE  s \in Seq(Range(s))
<1>1. Len(s) \in Nat /\ s \in [1 .. Len(s) -> Range(s)]
  BY DEF Range
<1>2. QED
  BY <1>1

\* Erasing at a place removes that one item and leaves the others in their order.
LEMMA WithoutOne ==
  ASSUME NEW v, Sound(v), is_structured(v), NEW p \in 1 .. Len(Items(v))
  PROVE  LET w == Without(v, p, p + 1)
         IN /\ Sound(w) /\ w # null
            /\ Items(w) = RemoveAt(Items(v), p)
<1>1. CASE is_array(v)
  <2> DEFINE s == m_value(v)
             r == RemoveAt(s, p)
  <2>1. s \in Seq(Range(s)) /\ Items(v) = s
    BY <1>1 DEF Sound, Items
  <2>2. Without(v, p, p + 1) = Array(r)
    BY <1>1, <2>1 DEF Without, RemoveAt, size
  <2>3. r \in Seq(Range(s))
    <3>1. p \in Int /\ 1 <= p /\ p <= Len(s) /\ Len(s) \in Nat
      BY <2>1
    <3>2. SubSeq(s, 1, p - 1) \in Seq(Range(s)) /\ SubSeq(s, p + 1, Len(s)) \in Seq(Range(s))
      <4> HIDE DEF s
      <4> QED
        BY <2>1, <3>1
    <3>3. QED
      BY <3>2 DEF RemoveAt
  <2>4. r \in Seq(Range(r))
    <3> HIDE DEF r, s
    <3> QED
      BY <2>3, OfItsOwn
  <2> HIDE DEF r, s
  <2>5. m_type(Array(r)) = "array" /\ m_value(Array(r)) = r
    BY DEF Array, Json, m_type, m_value
  <2>6. Sound(Array(r)) /\ Array(r) # null /\ Items(Array(r)) = r
    BY <2>4, <2>5 DEF Sound, Items, is_array, is_object, is_null, null, Json, m_type
  <2>7. QED
    BY <2>1, <2>2, <2>6 DEF r
<1>2. CASE is_object(v)
  <2> DEFINE D == DOMAIN m_value(v)
             n == Cardinality(D)
             f == [k \in D \ {Keys(v)[p]} |-> m_value(v)[k]]
             w == Object(f)
             s == Items(v)
  <2>1. IsFiniteSet(D) /\ D \subseteq Int
    BY <1>2 DEF Sound
  <2>2. ~is_array(v)
    BY <1>2 DEF is_array, is_object
  <2>3. n \in Nat /\ s = [i \in 1 .. n |-> m_value(v)[Keys(v)[i]]]
    BY <1>2, <2>1, <2>2, FS_CardinalityType DEF Items
  <2>4. Len(s) = n /\ p \in 1 .. n
    <3> HIDE DEF n, s
    <3>1. Len(s) = n
      BY <2>3
    <3>2. QED
      BY <3>1 DEF s
  <2>5. Without(v, p, p + 1) = w
    <3>1. {Keys(v)[i] : i \in p .. (p + 1) - 1} = {Keys(v)[p]}
      <4>1. p .. (p + 1) - 1 = {p}
        BY <2>4
      <4>2. QED
        BY <4>1
    <3>2. QED
      BY <2>2, <3>1 DEF Without, Restrict
  <2>6. m_type(w) = "object" /\ m_value(w) = f /\ DOMAIN f = D \ {Keys(v)[p]}
    BY DEF Object, Json, m_type, m_value
  <2>7. /\ Cardinality(DOMAIN m_value(w)) = n - 1
        /\ \A i \in 1 .. n - 1 : Keys(w)[i] = IF i < p THEN Keys(v)[i] ELSE Keys(v)[i + 1]
    <3> DOMAIN m_value(w) = D \ {Keys(v)[p]}
      BY <2>6
    <3> HIDE DEF w
    <3> QED
      BY <2>1, <2>4, KeysWithout
  <2>8. IsFiniteSet(DOMAIN f) /\ DOMAIN f \subseteq Int
    BY <2>1, <2>6, FS_RemoveElement
  <2>9. Sound(w) /\ w # null /\ is_object(w) /\ ~is_array(w)
    <3> HIDE DEF f
    <3> QED
      BY <2>6, <2>8 DEF Sound, is_array, is_object, is_null, null, Json, m_type
  <2>10. Items(w) = [i \in 1 .. n - 1 |-> f[Keys(w)[i]]]
    <3> HIDE DEF w, f, n
    <3> QED
      BY <2>6, <2>7, <2>9 DEF Items
  <2>11. \A i \in 1 .. n - 1 : f[Keys(w)[i]] = IF i < p THEN s[i] ELSE s[i + 1]
    <3> TAKE i \in 1 .. n - 1
    <3>1. Keys(w)[i] \in DOMAIN f
      <4>1. IsFiniteSet(DOMAIN m_value(w)) /\ DOMAIN m_value(w) \subseteq Int
        BY <2>6, <2>8
      <4> HIDE DEF w, f
      <4>2. QED
        BY <2>6, <2>7, <4>1, KeysInOrder
    <3>2. f[Keys(w)[i]] = m_value(v)[Keys(w)[i]]
      BY <3>1
    <3>3. Keys(w)[i] = IF i < p THEN Keys(v)[i] ELSE Keys(v)[i + 1]
      BY <2>7
    <3>4. i \in 1 .. n /\ i + 1 \in 1 .. n
      BY <2>3
    <3> HIDE DEF f, w, n, s
    <3>5. QED
      BY <2>3, <3>2, <3>3, <3>4
  <2>12. RemoveAt(s, p) = [i \in 1 .. n - 1 |-> IF i < p THEN s[i] ELSE s[i + 1]]
    <3>1. s \in Seq(Range(s))
      BY ItemsOfSound
    <3> HIDE DEF n, s
    <3>2. p \in 1 .. Len(s)
      BY <2>4
    <3>3. QED
      BY <2>4, <3>1, <3>2, RemoveAtIs
  <2>13. Items(w) = RemoveAt(s, p)
    <3> HIDE DEF w, f, n, s
    <3> QED
      BY <2>10, <2>11, <2>12
  <2>14. QED
    BY <2>5, <2>9, <2>13
<1>3. QED
  BY <1>1, <1>2 DEF is_structured

-----------------------------------------------------------------------------
(* The loop that erases.                                                     *)

\* The inductive invariant: the iterator stands after the items kept, and everything from
\* there on is still to come; a document that is no container and has been erased is null,
\* whose only iterator is the end.
LoopInv ==
  /\ Sound(doc)
  /\ mode = "sweep" =>
       /\ \E S : kept \in Seq(S) /\ todo \in Seq(S)
       /\ Items(doc) = kept \o todo
       /\ doc # null => it = Len(kept) + 1
       /\ doc = null => it = end(doc)

\* Before its end the iterator designates the first item to come.
LEMMA AtTheNext ==
  ASSUME LoopInv, mode = "sweep", it # end(doc)
  PROVE  /\ doc # null /\ todo # <<>>
         /\ it = Len(kept) + 1 /\ it \in 1 .. Len(Items(doc))
         /\ Items(doc)[it] = todo[1]
<1>1. PICK S : kept \in Seq(S) /\ todo \in Seq(S)
  BY DEF LoopInv
<1>2. doc # null /\ it = Len(kept) + 1 /\ Items(doc) = kept \o todo
  BY DEF LoopInv
<1>3. end(doc) = Len(kept \o todo) + 1
  BY <1>2, ItemsOfSound DEF LoopInv
<1>4. Len(todo) \in Nat /\ Len(kept) \in Nat /\ Len(kept \o todo) = Len(kept) + Len(todo)
  BY <1>1
<1>5. Len(todo) # 0
  BY <1>2, <1>3, <1>4
<1>6. todo # <<>> /\ it \in 1 .. Len(kept \o todo)
  BY <1>1, <1>2, <1>4, <1>5
<1>7. (kept \o todo)[it] = todo[1]
  BY <1>1, <1>2, <1>4, <1>5
<1>8. QED
  BY <1>2, <1>6, <1>7

\* A step over the next item only moves it from those to come to those kept.
LEMMA KeepMoves ==
  ASSUME NEW S, NEW k \in Seq(S), NEW t \in Seq(S), t # <<>>
  PROVE  /\ Append(k, t[1]) \in Seq(S) /\ Tail(t) \in Seq(S)
         /\ Append(k, t[1]) \o Tail(t) = k \o t
         /\ Len(Append(k, t[1])) = Len(k) + 1
<1>1. Len(t) \in Nat /\ Len(t) >= 1 /\ t[1] \in S /\ Len(k) \in Nat
  OBVIOUS
<1>2. Tail(t) \in Seq(S) /\ Len(Tail(t)) = Len(t) - 1 /\ \A i \in 1 .. Len(t) - 1 : Tail(t)[i] = t[i + 1]
  BY <1>1
<1>3. Append(k, t[1]) \in Seq(S) /\ Len(Append(k, t[1])) = Len(k) + 1
  BY <1>1
<1> DEFINE a == Append(k, t[1]) \o Tail(t)
           b == k \o t
<1>4. a \in Seq(S) /\ b \in Seq(S) /\ Len(a) = Len(k) + Len(t) /\ Len(b) = Len(k) + Len(t)
  BY <1>1, <1>2, <1>3
<1>5. ASSUME NEW i \in 1 .. Len(k) + Len(t) PROVE a[i] = b[i]
  <2>1. CASE i <= Len(k)
    BY <1>1, <1>2, <1>3, <2>1
  <2>2. CASE i = Len(k) + 1
    BY <1>1, <1>2, <1>3, <2>2
  <2>3. CASE i > Len(k) + 1
    <3>1. a[i] = Tail(t)[i - (Len(k) + 1)]
      BY <1>1, <1>2, <1>3, <2>3
    <3>2. i - (Len(k) + 1) \in 1 .. Len(t) - 1
      BY <1>1, <2>3
    <3>3. Tail(t)[i - (Len(k) + 1)] = t[i - (Len(k) + 1) + 1]
      BY <1>2, <3>2
    <3>4. i - (Len(k) + 1) + 1 = i - Len(k)
      BY <1>1
    <3>5. b[i] = t[i - Len(k)]
      BY <1>1, <2>3
    <3>6. QED
      BY <3>1, <3>3, <3>4, <3>5
  <2>4. QED
    BY <1>1, <2>1, <2>2, <2>3
<1>6. a = b
  <2> HIDE DEF a, b
  <2> QED
    BY <1>1, <1>4, <1>5
<1>7. QED
  BY <1>2, <1>3, <1>6

\* Removing the next item leaves those kept and the others to come.
LEMMA EraseDrops ==
  ASSUME NEW S, NEW k \in Seq(S), NEW t \in Seq(S), t # <<>>
  PROVE  RemoveAt(k \o t, Len(k) + 1) = k \o Tail(t)
<1> DEFINE s == k \o t
           p == Len(k) + 1
           b == k \o Tail(t)
<1>1. Len(t) \in Nat /\ Len(t) >= 1 /\ Len(k) \in Nat
  OBVIOUS
<1>2. Tail(t) \in Seq(S) /\ Len(Tail(t)) = Len(t) - 1 /\ \A i \in 1 .. Len(t) - 1 : Tail(t)[i] = t[i + 1]
  BY <1>1
<1>3. s \in Seq(S) /\ Len(s) = Len(k) + Len(t) /\ p \in 1 .. Len(s)
  BY <1>1
<1>4. RemoveAt(s, p) = [i \in 1 .. Len(s) - 1 |-> IF i < p THEN s[i] ELSE s[i + 1]]
  <2> HIDE DEF s, p
  <2> QED
    BY <1>3, RemoveAtIs
<1>5. b \in Seq(S) /\ Len(b) = Len(s) - 1
  BY <1>1, <1>2, <1>3
<1>6. ASSUME NEW i \in 1 .. Len(s) - 1 PROVE b[i] = IF i < p THEN s[i] ELSE s[i + 1]
  <2>1. CASE i < p
    BY <1>1, <1>2, <1>3, <2>1
  <2>2. CASE ~(i < p)
    <3>1. b[i] = Tail(t)[i - Len(k)] /\ i - Len(k) \in 1 .. Len(t) - 1
      BY <1>1, <1>2, <1>3, <2>2
    <3>2. s[i + 1] = t[i + 1 - Len(k)] /\ i + 1 - Len(k) = i - Len(k) + 1
      BY <1>1, <1>3, <2>2
    <3>3. QED
      BY <1>2, <2>2, <3>1, <3>2
  <2>3. QED
    BY <2>1, <2>2
<1>7. b = [i \in 1 .. Len(s) - 1 |-> b[i]]
  <2> HIDE DEF b, s
  <2> QED
    BY <1>5
<1> HIDE DEF b, s, p
<1>8. b = [i \in 1 .. Len(s) - 1 |-> IF i < p THEN s[i] ELSE s[i + 1]]
  BY <1>6, <1>7
<1>9. QED
  BY <1>4, <1>8 DEF b, s, p

\* In the loop, erase() throws nothing: it removes the next item, or makes the document
\* null if it is no container.
LEMMA EraseInLoop ==
  ASSUME LoopInv, mode = "sweep", it # end(doc)
  PROVE  erase_pos(doc, TRUE, it) =
           IF is_structured(doc) THEN OkAt(Without(doc, it, it + 1), it) ELSE OkAt(null, end(doc))
<1> DEFINE b == ~TRUE
           c == is_null(doc) \/ m_type(doc) = "discarded"
           d == ~is_structured(doc) /\ it # begin(doc)
           result == IF is_structured(doc) THEN OkAt(Without(doc, it, it + 1), it)
                     ELSE OkAt(null, end(doc))
<1>1. doc # null /\ it \in 1 .. Len(Items(doc))
  BY AtTheNext
<1>2. Sound(doc)
  BY DEF LoopInv
<1>3. ~is_null(doc) /\ ~c
  BY <1>1, <1>2 DEF Sound
<1>4. ~d
  <2> SUFFICES ASSUME ~is_structured(doc) PROVE it = begin(doc)
    OBVIOUS
  <2>1. Items(doc) = <<doc>>
    BY <1>1, <1>2, ItemsOfSound
  <2>2. Len(Items(doc)) = 1
    BY <2>1
  <2>3. QED
    BY <1>1, <1>3, <2>2 DEF begin
<1>5. ~b
  OBVIOUS
<1>6. erase_pos(doc, TRUE, it) = Checked(doc, <<<<b, 202>>, <<c, 307>>, <<d, 205>>>>, result)
  BY DEF erase_pos
<1> HIDE DEF b, c, d, result
<1> DEFINE checks == <<<<b, 202>>, <<c, 307>>, <<d, 205>>>>
<1>7. DOMAIN checks = {1, 2, 3} /\ checks[1][1] = b /\ checks[2][1] = c /\ checks[3][1] = d
  OBVIOUS
<1> HIDE DEF checks
<1>8. \A i \in DOMAIN checks : ~checks[i][1]
  BY <1>3, <1>4, <1>5, <1>7
<1>9. Checked(doc, checks, result) = result
  BY <1>8, NoneFails
<1>10. QED
  BY <1>6, <1>9 DEF checks, result

\* The loop starts with everything still to come.
LEMMA BeginInv ==
  ASSUME LoopInv, LoopBegin
  PROVE  LoopInv'
<1>1. Sound(doc) /\ doc' = doc /\ kept' = <<>> /\ todo' = Items(doc) /\ it' = begin(doc)
  BY DEF LoopInv, LoopBegin
<1>2. /\ Items(doc) \in Seq(Range(Items(doc)))
      /\ doc = null => end(doc) = 2
  BY <1>1, ItemsOfSound
<1>3. kept' \in Seq(Range(Items(doc))) /\ todo' \in Seq(Range(Items(doc)))
  BY <1>1, <1>2
<1>4. Items(doc) = <<>> \o Items(doc) /\ Len(<<>>) = 0
  BY <1>2
<1>5. is_null(doc) <=> doc = null
  BY <1>1 DEF Sound, is_null, m_type, null, Json
<1>6. (doc # null => it' = 1) /\ (doc = null => it' = end(doc))
  BY <1>1, <1>5 DEF begin
<1>7. QED
  BY <1>1, <1>3, <1>4, <1>6 DEF LoopInv

\* ++it keeps the invariant.
LEMMA KeepInv ==
  ASSUME LoopInv, LoopKeep
  PROVE  LoopInv'
<1>1. /\ mode = "sweep" /\ it # end(doc) /\ doc' = doc /\ it' = it + 1
      /\ kept' = Append(kept, Items(doc)[it]) /\ todo' = Tail(todo)
  BY DEF LoopKeep
<1>2. PICK S : kept \in Seq(S) /\ todo \in Seq(S)
  BY <1>1 DEF LoopInv
<1>3. doc # null /\ todo # <<>> /\ it = Len(kept) + 1 /\ Items(doc)[it] = todo[1]
  BY <1>1, AtTheNext
<1>4. /\ kept' \in Seq(S) /\ todo' \in Seq(S)
      /\ kept' \o todo' = kept \o todo
      /\ Len(kept') = Len(kept) + 1
  BY <1>1, <1>2, <1>3, KeepMoves
<1>5. QED
  BY <1>1, <1>3, <1>4 DEF LoopInv

\* erase(it) keeps it.
LEMMA EraseInv ==
  ASSUME LoopInv, LoopErase
  PROVE  LoopInv'
<1> DEFINE w == Without(doc, it, it + 1)
           erased == erase_pos(doc, TRUE, it)
<1>1. /\ mode = "sweep" /\ mode' = mode /\ it # end(doc) /\ doc' = erased.v /\ it' = erased.it
      /\ kept' = kept /\ todo' = Tail(todo)
  BY DEF LoopErase
<1>2. PICK S : kept \in Seq(S) /\ todo \in Seq(S)
  BY <1>1 DEF LoopInv
<1>3. /\ doc # null /\ todo # <<>> /\ it = Len(kept) + 1
      /\ it \in 1 .. Len(Items(doc))
  BY <1>1, AtTheNext
<1>4. Sound(doc) /\ Items(doc) = kept \o todo
  BY <1>1 DEF LoopInv
<1>5. kept' \in Seq(S) /\ todo' \in Seq(S) /\ RemoveAt(Items(doc), it) = kept' \o todo'
  <2>1. RemoveAt(kept \o todo, Len(kept) + 1) = kept \o Tail(todo)
    BY <1>2, <1>3, EraseDrops
  <2>2. RemoveAt(Items(doc), it) = RemoveAt(kept \o todo, Len(kept) + 1)
    BY <1>3, <1>4
  <2>3. Tail(todo) \in Seq(S)
    BY <1>2, <1>3
  <2>4. QED
    BY <1>1, <1>2, <2>1, <2>2, <2>3
<1>6. CASE is_structured(doc)
  <2>1. doc' = w /\ it' = it
    <3>1. erased = OkAt(w, it)
      BY <1>1, <1>6, EraseInLoop
    <3> HIDE DEF erased, w
    <3>2. QED
      BY <1>1, <3>1 DEF OkAt
  <2>2. Sound(w) /\ w # null /\ Items(w) = RemoveAt(Items(doc), it)
    BY <1>3, <1>4, <1>6, WithoutOne
  <2> HIDE DEF w
  <2>3. QED
    BY <1>1, <1>3, <1>5, <2>1, <2>2 DEF LoopInv
<1>7. CASE ~is_structured(doc)
  <2>1. doc' = null /\ it' = end(doc)
    <3>1. erased = OkAt(null, end(doc))
      BY <1>1, <1>7, EraseInLoop
    <3> HIDE DEF erased
    <3>2. QED
      BY <1>1, <3>1 DEF OkAt
  <2>2. Sound(null) /\ Items(null) = <<>> /\ end(null) = 2 /\ end(doc) = 2
    <3>1. Sound(null)
      BY DEF Sound, null, Json, m_type, is_null, is_array, is_object
    <3>2. QED
      BY <1>7, <3>1, ItemsOfSound DEF end
  <2>3. Items(doc) = <<doc>>
    BY <1>3, <1>4, <1>7, ItemsOfSound
  <2>4. Len(kept) + Len(todo) = 1 /\ Len(kept) \in Nat /\ Len(todo) \in Nat /\ Len(todo) # 0
    <3>1. Len(kept \o todo) = 1
      BY <1>4, <2>3
    <3>2. Len(kept \o todo) = Len(kept) + Len(todo) /\ Len(kept) \in Nat /\ Len(todo) \in Nat
      BY <1>2
    <3>3. Len(todo) # 0
      BY <1>2, <1>3
    <3>4. QED
      BY <3>1, <3>2, <3>3
  <2>5. kept = <<>> /\ Tail(todo) = <<>>
    BY <1>2, <2>4
  <2>6. kept' \o todo' = <<>>
    BY <1>1, <2>5
  <2>7. QED
    BY <1>1, <1>5, <2>1, <2>2, <2>6 DEF LoopInv
<1>8. QED
  BY <1>6, <1>7

\* Everything the program does keeps the loop's invariant.
THEOREM Loop == ProgramSpec => []LoopInv
<1>1. ProgramInit => LoopInv
  BY DEF ProgramInit, LoopInv
<1>2. LoopInv /\ [ProgramNext]_programVars => LoopInv'
  <2> SUFFICES ASSUME LoopInv, [ProgramNext]_programVars PROVE LoopInv'
    OBVIOUS
  <2>1. CASE Elsewhere
    BY <2>1 DEF Elsewhere, LoopInv
  <2>2. CASE LoopBegin
    BY <2>2, BeginInv
  <2>3. CASE LoopKeep
    BY <2>3, KeepInv
  <2>4. CASE LoopErase
    BY <2>4, EraseInv
  <2>5. CASE LoopEnd
    BY <2>5 DEF LoopEnd, LoopInv
  <2>6. CASE UNCHANGED programVars
    BY <2>6 DEF programVars, loopVars, LoopInv
  <2>7. QED
    BY <2>1, <2>2, <2>3, <2>4, <2>5, <2>6 DEF ProgramNext
<1>3. QED
  BY <1>1, <1>2, PTL DEF ProgramSpec

\* A loop that erases while it iterates (erase() returns the iterator to go on with) visits
\* every item of the document exactly once and loses none of those it keeps, whatever the
\* document is and whichever items it erases.
THEOREM Sweep == ProgramSpec => []SweepIsExact
<1>1. LoopInv => SweepIsExact
  BY DEF LoopInv, SweepIsExact
<1>2. QED
  BY <1>1, Loop, PTL

\* on_message() takes a frame as a whole or not at all, and never reads a member that is
\* not there, whatever the frame holds.
THEOREM Frames == ProgramSpec => []FramesTakenWhole
<1>1. FramesTakenWhole
  BY EveryFrameTakenWhole, Zenon DEF FramesTakenWhole
<1>2. QED
  BY <1>1, PTL

\* build_vad_response()'s braces make objects, with each text under its own name, whatever
\* the texts are.
THEOREM Replies == ProgramSpec => []RepliesReadable
<1>1. RepliesReadable
  BY EveryReplyReadable, Zenon DEF RepliesReadable
<1>2. QED
  BY <1>1, PTL
=============================================================================
