----------------------------- MODULE SharedLemmas -----------------------------
(***************************************************************************)
(* What several proofs rest on: the least-number principle, stated for     *)
(* sets (a statement about all naturals follows from it by taking the set  *)
(* of those that refute it), what Max of FiniteSetsExt returns, and what   *)
(* Insert of VadReplies keeps and returns.                                 *)
(***************************************************************************)
EXTENDS FiniteSetsExt, VadReplies, WellFoundedInduction, TLAPS

\* A set of naturals that is not empty has a least element.
LEMMA LeastNatural ==
  ASSUME NEW T, T \subseteq Nat, T # {}
  PROVE  \E m \in T : \A n \in T : m <= n
<1> DEFINE Less == {ss \in Nat \X Nat : ss[1] < ss[2]}
<1>1. IsWellFoundedOn(Less, Nat)
  BY NatLessThanWellFounded DEF OpToRel
<1>2. PICK m \in T : \A n \in T : ~(<<n, m>> \in Less)
  <2> HIDE DEF Less
  <2> QED
    BY <1>1, WFMin
<1>3. ASSUME NEW n \in T PROVE m <= n
  <2>1. n \in Nat /\ m \in Nat /\ <<n, m>> \in Nat \X Nat
    OBVIOUS
  <2>2. ~(n < m)
    BY <1>2, <2>1
  <2>3. QED
    BY <2>1, <2>2
<1>4. QED
  BY <1>3

\* Max returns an element that bounds the others, when anything does.
LEMMA MaxIsGreatest ==
  ASSUME NEW S, S \subseteq Int, NEW m \in S, \A x \in S : m >= x
  PROVE  Max(S) = m
<1>1. \A y \in S : (\A x \in S : y >= x) => y = m
  OBVIOUS
<1>2. Max(S) \in S /\ \A x \in S : Max(S) >= x
  BY Zenon DEF Max
<1>3. QED
  BY <1>1, <1>2

\* A set of integers with an upper bound that is not empty has a greatest element,
\* and Max returns it.
LEMMA MaxOfBounded ==
  ASSUME NEW S, S \subseteq Int, S # {}, NEW k \in Int, \A x \in S : x <= k
  PROVE  Max(S) \in S /\ \A x \in S : Max(S) >= x
<1> DEFINE D == {k - x : x \in S}
<1>1. D \subseteq Nat
  OBVIOUS
<1>2. D # {}
  OBVIOUS
<1>3. \E d \in D : \A n \in D : d <= n
  <2> HIDE DEF D
  <2> QED
    BY <1>1, <1>2, LeastNatural
<1>4. PICK d \in D : \A n \in D : d <= n
  BY <1>3
<1>5. PICK m \in S : d = k - m
  BY <1>4
<1>6. \A x \in S : m >= x
  BY <1>4, <1>5
<1>7. QED
  BY <1>5, <1>6, MaxIsGreatest

\* A sequence is one of any wider type.
LEMMA WiderSequence ==
  ASSUME NEW S, NEW T, S \subseteq T, NEW s \in Seq(S)
  PROVE  s \in Seq(T)
<1>1. Len(s) \in Nat /\ s \in [1 .. Len(s) -> T]
  OBVIOUS
<1>2. QED
  BY <1>1

-----------------------------------------------------------------------------
(* The audio of VadSession and SherpaSession.                                *)

\* Inserting a message keeps a buffer of intervals one.
LEMMA InsertType ==
  ASSUME NEW audio \in Seq(Chunk), NEW c \in Chunk
  PROVE  Insert(audio, c) \in Seq(Chunk)
<1> DEFINE n == Len(audio)
<1>1. CASE n > 0 /\ audio[n].to = c.from
  <2>1. n \in 1 .. Len(audio) /\ audio[n] \in Chunk
    BY <1>1
  <2>2. [audio[n] EXCEPT !.to = c.to] \in Chunk
    BY <2>1 DEF Chunk
  <2>3. [audio EXCEPT ![n].to = c.to] \in Seq(Chunk)
    BY <2>1, <2>2
  <2>4. QED
    BY <1>1, <2>3 DEF Insert
<1>2. CASE ~(n > 0 /\ audio[n].to = c.from)
  BY <1>2 DEF Insert
<1>3. QED
  BY <1>1, <1>2

\* A message that continues the only interval of a buffer extends it.
LEMMA InsertContinues ==
  ASSUME NEW a \in Nat, NEW m \in Nat, NEW t \in Nat
  PROVE  Insert(<<[from |-> a, to |-> m]>>, [from |-> m, to |-> t])
           = <<[from |-> a, to |-> t]>>
<1> DEFINE audio == <<[from |-> a, to |-> m]>>
<1>1. Len(audio) = 1 /\ audio[1] = [from |-> a, to |-> m]
  OBVIOUS
<1>2. [audio EXCEPT ![1].to = t] = <<[from |-> a, to |-> t]>>
  OBVIOUS
<1>3. CASE m = t
  BY <1>3 DEF Insert
<1>4. CASE m # t
  BY <1>1, <1>2, <1>4 DEF Insert
<1>5. QED
  BY <1>3, <1>4

\* The first message with audio in it is the buffer.
LEMMA InsertFirst ==
  ASSUME NEW c \in Chunk, c.from # c.to
  PROVE  Insert(<<>>, c) = <<c>>
BY DEF Insert
=============================================================================
