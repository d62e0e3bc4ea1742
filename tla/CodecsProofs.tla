----------------------------- MODULE CodecsProofs -----------------------------
(***************************************************************************)
(* Theorems about Codecs. base64, for inputs of any length: the text of    *)
(* any bytes decodes to them, and decode() keeps exactly the whole bytes   *)
(* of the bit string that any text, cut short or not, spells. WavReader    *)
(* and WavWriter, for files with any number of chunks of any size and any  *)
(* number of samples: what Open() stores is the samples; its loop ends.    *)
(***************************************************************************)
EXTENDS Codecs, SharedLemmas, FiniteSetTheorems, TLAPS

-----------------------------------------------------------------------------
(* FlattenSeq. The recursive function in it is a choice, so that its equation *)
(* holds only once a function is known that satisfies it.                     *)

RunsTogether(seqs, n, f) ==
  f = [i \in 1 .. n |-> IF i = 1 THEN seqs[i] ELSE f[i - 1] \o seqs[i]]

\* The first n sequences can be joined one after the other.
LEMMA PrefixesExist ==
  ASSUME NEW seqs, NEW n \in Nat
  PROVE  \E f : RunsTogether(seqs, n, f)
<1> DEFINE Bad == {k \in 0 .. n : ~\E f : RunsTogether(seqs, k, f)}
<1> SUFFICES ASSUME Bad # {} PROVE FALSE
  OBVIOUS
<1>1. PICK k \in Bad : \A j \in Bad : k <= j
  <2>1. Bad \subseteq Nat
    OBVIOUS
  <2> HIDE DEF Bad
  <2>2. QED
    BY <2>1, LeastNatural
<1>2. k # 0
  <2>1. RunsTogether(seqs, 0, [i \in 1 .. 0 |-> seqs])
    BY DEF RunsTogether
  <2>2. QED
    BY <2>1
<1>3. PICK f : RunsTogether(seqs, k - 1, f)
  BY <1>1, <1>2
<1> DEFINE longer == [i \in 1 .. k |-> IF i < k THEN f[i]
                        ELSE IF i = 1 THEN seqs[i] ELSE f[i - 1] \o seqs[i]]
<1>4. RunsTogether(seqs, k, longer)
  <2>1. ASSUME NEW i \in 1 .. k
        PROVE  longer[i] = IF i = 1 THEN seqs[i] ELSE longer[i - 1] \o seqs[i]
    <3>1. i # 1 => i - 1 \in 1 .. k - 1
      OBVIOUS
    <3>2. i < k => f[i] = IF i = 1 THEN seqs[i] ELSE f[i - 1] \o seqs[i]
      <4>1. k \in Nat /\ (i < k => i \in 1 .. k - 1)
        OBVIOUS
      <4>2. \A j \in 1 .. k - 1 : f[j] = IF j = 1 THEN seqs[j] ELSE f[j - 1] \o seqs[j]
        BY <1>3 DEF RunsTogether
      <4>3. QED
        BY <4>1, <4>2
    <3>3. i # 1 => longer[i - 1] = f[i - 1]
      BY <3>1
    <3>4. longer[i] = IF i = 1 THEN seqs[i] ELSE f[i - 1] \o seqs[i]
      BY <3>2
    <3> HIDE DEF longer
    <3>5. QED
      BY <3>3, <3>4
  <2> HIDE DEF longer
  <2>2. DOMAIN longer = 1 .. k /\ longer = [i \in 1 .. k |-> longer[i]]
    BY DEF longer
  <2>3. QED
    BY <2>1, <2>2 DEF RunsTogether
<1>5. QED
  BY <1>1, <1>4

\* FlattenSeq joins them all.
LEMMA FlattenJoins ==
  ASSUME NEW seqs, Len(seqs) \in Nat \ {0}
  PROVE  \E f : RunsTogether(seqs, Len(seqs), f) /\ FlattenSeq(seqs) = f[Len(seqs)]
<1> DEFINE Step(g) == [i \in 1 .. Len(seqs) |-> IF i = 1 THEN seqs[i] ELSE g[i - 1] \o seqs[i]]
           h == CHOOSE g : g = Step(g)
<1>1. FlattenSeq(seqs) = h[Len(seqs)]
  BY DEF FlattenSeq
<1>2. h = Step(h)
  <2>1. \E g : g = Step(g)
    BY PrefixesExist DEF RunsTogether
  <2>2. QED
    BY <2>1, Zenon
<1>3. QED
  BY <1>1, <1>2 DEF RunsTogether

\* A function on the first n numbers is a sequence, and its first k elements are one.
LEMMA FunctionAsSequence ==
  ASSUME NEW S, NEW n \in Nat, NEW x \in [1 .. n -> S]
  PROVE  /\ x \in Seq(S) /\ Len(x) = n
         /\ \A k \in 0 .. n : /\ SubSeq(x, 1, k) \in Seq(S) /\ Len(SubSeq(x, 1, k)) = k
                              /\ \A m \in 1 .. k : SubSeq(x, 1, k)[m] = x[m]
<1>1. x \in Seq(S) /\ Len(x) = n
  OBVIOUS
<1>2. QED
  BY <1>1

\* Joining two sequences.
LEMMA Joined ==
  ASSUME NEW S, NEW s \in Seq(S), NEW t \in Seq(S)
  PROVE  /\ s \o t \in Seq(S) /\ Len(s \o t) = Len(s) + Len(t)
         /\ \A i \in 1 .. Len(s) : (s \o t)[i] = s[i]
         /\ \A i \in 1 .. Len(t) : (s \o t)[Len(s) + i] = t[i]
OBVIOUS

\* Counting in groups of size.
LEMMA Grouped ==
  ASSUME NEW size \in Nat
  PROVE  /\ \A k \in Nat : k * size \in Nat
         /\ \A k \in Nat : (k + 1) * size = k * size + size
         /\ \A j, k \in Nat : j <= k => j * size <= k * size
<1>1. \A k \in Nat : k * size \in Nat /\ (k + 1) * size = k * size + size
  OBVIOUS
<1>2. ASSUME NEW j \in Nat, NEW k \in Nat, j <= k
      PROVE  j * size <= k * size
  <2>1. PICK d \in Nat : k = j + d
    BY <1>2
  <2>2. (j + d) * size = j * size + d * size
    OBVIOUS
  <2>3. j * size \in Nat /\ d * size \in Nat
    BY <1>1
  <2>4. QED
    BY <2>1, <2>2, <2>3
<1>3. QED
  BY <1>1, <1>2

\* The m-th place of the n-th (from 0) group of size.
Place(n, size, m) == n * size + m

\* s is the first n of the sequences seqs, all of one length, size.
Spells(s, seqs, n, size) ==
  /\ Len(s) = Place(n, size, 0)
  /\ \A k \in 0 .. n - 1, m \in 1 .. size : s[Place(k, size, m)] = seqs[k + 1][m]

\* s is n whole groups and last, the beginning of one more.
SpellsAnd(s, seqs, n, size, last) ==
  /\ Len(s) = Place(n, size, Len(last))
  /\ \A k \in 0 .. n - 1, m \in 1 .. size : s[Place(k, size, m)] = seqs[k + 1][m]
  /\ \A m \in 1 .. Len(last) : s[Place(n, size, m)] = last[m]

\* Places are numbers, and those of the first n groups lie before the others.
Ordered(n, size) ==
  /\ Place(n, size, 0) \in Nat /\ Place(n + 1, size, 0) = Place(n, size, 0) + size
  /\ \A m \in Nat : Place(n, size, m) = Place(n, size, 0) + m
  /\ \A k \in 0 .. n - 1, m \in 1 .. size : Place(k, size, m) \in 1 .. Place(n, size, 0)

\* So they are for any size.
LEMMA PlacesInOrder ==
  ASSUME NEW size \in Nat, NEW n \in Nat
  PROVE  Ordered(n, size)
<1>1. PICK a \in Nat : a = n * size
  BY Grouped
<1>2. (n + 1) * size = a + size
  BY <1>1, Grouped
<1>3. ASSUME NEW k \in 0 .. n - 1, NEW m \in 1 .. size
      PROVE  k * size + m \in 1 .. a
  <2>1. k \in Nat /\ k + 1 \in Nat /\ k + 1 <= n
    OBVIOUS
  <2>2. (k + 1) * size = k * size + size /\ (k + 1) * size <= n * size /\ k * size \in Nat
    BY <2>1, Grouped
  <2>3. PICK b \in Nat : b = k * size /\ b + size <= a
    BY <1>1, <2>2
  <2>4. b + m \in 1 .. a
    BY <2>3
  <2>5. QED
    BY <2>3, <2>4
<1>4. QED
  BY <1>1, <1>2, <1>3 DEF Place, Ordered

\* Something put after whole groups leaves them where they are.
LEMMA SpellsOn ==
  ASSUME NEW S, NEW size \in Nat, NEW n \in Nat, NEW seqs,
         NEW q \in Seq(S), Spells(q, seqs, n, size), NEW last \in Seq(S)
  PROVE  q \o last \in Seq(S) /\ SpellsAnd(q \o last, seqs, n, size, last)
<1>0. Ordered(n, size)
  BY PlacesInOrder
<1>1. PICK a \in Nat : a = Place(n, size, 0) /\ \A m \in Nat : Place(n, size, m) = a + m
  BY <1>0 DEF Ordered
<1>2. Len(q) = a
  BY <1>1 DEF Spells
<1>3. /\ q \o last \in Seq(S) /\ Len(q \o last) = Len(q) + Len(last)
      /\ \A i \in 1 .. Len(q) : (q \o last)[i] = q[i]
      /\ \A i \in 1 .. Len(last) : (q \o last)[Len(q) + i] = last[i]
  BY Joined
<1>4. ASSUME NEW k \in 0 .. n - 1, NEW m \in 1 .. size
      PROVE  (q \o last)[Place(k, size, m)] = seqs[k + 1][m]
  <2>1. Place(k, size, m) \in 1 .. Len(q)
    BY <1>0, <1>1, <1>2 DEF Ordered
  <2>2. q[Place(k, size, m)] = seqs[k + 1][m]
    BY DEF Spells
  <2>3. QED
    BY <1>3, <2>1, <2>2, Zenon
<1>5. Len(last) \in Nat /\ \A m \in 1 .. Len(last) : m \in Nat
  OBVIOUS
<1>6. QED
  BY <1>1, <1>2, <1>3, <1>4, <1>5, Zenon DEF SpellsAnd

\* One more sequence.
LEMMA SpellsNext ==
  ASSUME NEW S, NEW size \in Nat, NEW seqs, NEW n \in Nat,
         NEW s \in Seq(S), Spells(s, seqs, n, size),
         NEW u \in Seq(S), Len(u) = size, seqs[n + 1] = u
  PROVE  s \o u \in Seq(S) /\ Spells(s \o u, seqs, n + 1, size)
<1>1. s \o u \in Seq(S) /\ SpellsAnd(s \o u, seqs, n, size, u)
  BY SpellsOn
<1>2. Place(n + 1, size, 0) = Place(n, size, size)
  BY PlacesInOrder DEF Ordered
<1>3. ASSUME NEW k \in 0 .. (n + 1) - 1, NEW m \in 1 .. size
      PROVE  (s \o u)[Place(k, size, m)] = seqs[k + 1][m]
  <2>1. k = n \/ k \in 0 .. n - 1
    OBVIOUS
  <2>2. QED
    BY <1>1, <2>1, Zenon DEF SpellsAnd
<1>4. QED
  BY <1>1, <1>2, <1>3, Zenon DEF Spells, SpellsAnd

\* Sequences of one length, size, are joined into one in which each is found again.
LEMMA FlattenGroups ==
  ASSUME NEW S, NEW size \in Nat, NEW n \in Nat, NEW seqs \in [1 .. n -> [1 .. size -> S]]
  PROVE  FlattenSeq(seqs) \in Seq(S) /\ Spells(FlattenSeq(seqs), seqs, n, size)
<1>1. seqs \in Seq([1 .. size -> S]) /\ Len(seqs) = n
  OBVIOUS
<1>2. CASE n = 0
  <2>1. seqs = <<>> /\ FlattenSeq(seqs) = <<>>
    BY <1>1, <1>2 DEF FlattenSeq
  <2>2. Place(n, size, 0) = 0 /\ 0 .. n - 1 = {}
    BY <1>2 DEF Place
  <2>3. <<>> \in Seq(S) /\ Len(<<>>) = 0
    OBVIOUS
  <2>4. QED
    BY <2>1, <2>2, <2>3 DEF Spells
<1>3. CASE n # 0
  <2>1. PICK f : RunsTogether(seqs, n, f) /\ FlattenSeq(seqs) = f[n]
    BY <1>1, <1>3, FlattenJoins
  <2> DEFINE Right(i) == f[i] \in Seq(S) /\ Spells(f[i], seqs, i, size)
             Wrong == {i \in 1 .. n : ~Right(i)}
  <2>2. \A i \in 1 .. n : seqs[i] \in Seq(S) /\ Len(seqs[i]) = size
    <3>1. \A u \in [1 .. size -> S] : u \in Seq(S) /\ Len(u) = size
      OBVIOUS
    <3>2. QED
      BY <3>1
  <2>3. \A i \in 1 .. n : f[i] = IF i = 1 THEN seqs[i] ELSE f[i - 1] \o seqs[i]
    BY <2>1 DEF RunsTogether
  <2>4. Right(1)
    <3>1. f[1] = seqs[1] /\ seqs[1] \in Seq(S) /\ Len(seqs[1]) = size
      BY <1>3, <2>2, <2>3
    <3>2. /\ Place(1, size, 0) = size /\ \A m \in 1 .. size : Place(0, size, m) = m
          /\ \A k \in 0 .. 1 - 1 : k = 0
      BY DEF Place
    <3>3. QED
      BY <3>1, <3>2 DEF Spells
  <2>5. ASSUME NEW i \in 1 .. n, i # 1, Right(i - 1)
        PROVE  Right(i)
    <3>1. PICK j \in Nat : i = j + 1 /\ i - 1 = j
      OBVIOUS
    <3>2. f[i] = f[j] \o seqs[i] /\ f[j] \in Seq(S)
      BY <2>3, <2>5, <3>1
    <3>3. f[j] \o seqs[i] \in Seq(S) /\ Spells(f[j] \o seqs[i], seqs, j + 1, size)
      BY <2>2, <2>5, <3>1, <3>2, SpellsNext
    <3>4. QED
      BY <3>1, <3>2, <3>3
  <2>6. Wrong = {}
    <3> SUFFICES ASSUME Wrong # {} PROVE FALSE
      OBVIOUS
    <3>1. Wrong \subseteq Nat /\ Wrong \subseteq 1 .. n
      OBVIOUS
    <3>2. PICK i \in Wrong : \A j \in Wrong : i <= j
      <4> HIDE DEF Wrong
      <4>1. QED
        BY <3>1, LeastNatural
    <3>3. i \in 1 .. n /\ i # 1 /\ ~Right(i)
      <4> HIDE DEF Right
      <4>1. QED
        BY <2>4
    <3>4. i - 1 \in 1 .. n /\ ~(i - 1 \in Wrong)
      <4> HIDE DEF Wrong
      <4>1. QED
        BY <3>2, <3>3
    <3>5. QED
      <4> HIDE DEF Right
      <4>1. QED
        BY <2>5, <3>3, <3>4
  <2>7. Right(n)
    <3> HIDE DEF Right
    <3>1. QED
      BY <1>3, <2>6
  <2>8. QED
    BY <2>1, <2>7
<1>4. QED
  BY <1>2, <1>3

-----------------------------------------------------------------------------
(* Groups.                                                                   *)

Sextet == 0 .. 63

\* Three bytes spell four characters of the alphabet.
LEMMA SextetsAreCharacters ==
  ASSUME NEW b \in [1 .. 3 -> Byte]
  PROVE  Sextets(b) \in [1 .. 4 -> Sextet]
<1>1. PICK x \in Byte, y \in Byte, z \in Byte : b[1] = x /\ b[2] = y /\ b[3] = z
  OBVIOUS
<1>2. Sextets(b) = << x \div 4, ((x % 4) * 16) + (y \div 16),
                      ((y % 16) * 4) + (z \div 64), z % 64 >>
  BY <1>1 DEF Sextets
<1>3. /\ x \div 4 \in Sextet /\ ((x % 4) * 16) + (y \div 16) \in Sextet
      /\ ((y % 16) * 4) + (z \div 64) \in Sextet /\ z % 64 \in Sextet
  BY DEF Byte, Sextet
<1>4. \A p, q, r, s \in Sextet : <<p, q, r, s>> \in [1 .. 4 -> Sextet]
  OBVIOUS
<1>5. QED
  BY <1>2, <1>3, <1>4

\* Each byte comes back from the characters as soon as those with its bits are there.
LEMMA BytesComeBack ==
  ASSUME NEW b \in [1 .. 3 -> Byte], NEW c \in [1 .. 4 -> Byte],
         c[1] = Sextets(b)[1], c[2] = Sextets(b)[2]
  PROVE  /\ Octets(c)[1] = b[1]
         /\ c[3] = Sextets(b)[3] => Octets(c)[2] = b[2]
         /\ c[3] = Sextets(b)[3] /\ c[4] = Sextets(b)[4] => Octets(c)[3] = b[3]
<1>1. PICK x \in Byte, y \in Byte, z \in Byte : b[1] = x /\ b[2] = y /\ b[3] = z
  OBVIOUS
<1>2. Sextets(b) = << x \div 4, ((x % 4) * 16) + (y \div 16),
                      ((y % 16) * 4) + (z \div 64), z % 64 >>
  BY <1>1 DEF Sextets
<1>5. /\ Octets(c)[1] = ((c[1] * 4) + ((c[2] \div 16) % 4)) % 256
      /\ Octets(c)[2] = (((c[2] % 16) * 16) + ((c[3] \div 4) % 16)) % 256
      /\ Octets(c)[3] = (((c[3] % 4) * 64) + c[4]) % 256
  BY DEF Octets
<1>6. Octets(c)[1] = x
  <2>1. c[1] = x \div 4 /\ c[2] = ((x % 4) * 16) + (y \div 16)
    BY <1>2
  <2>2. (((x \div 4) * 4) + (((((x % 4) * 16) + (y \div 16)) \div 16) % 4)) % 256 = x
    BY DEF Byte
  <2>3. QED
    BY <1>5, <2>1, <2>2
<1>7. c[3] = Sextets(b)[3] => Octets(c)[2] = y
  <2>1. c[3] = Sextets(b)[3] =>
          c[2] = ((x % 4) * 16) + (y \div 16) /\ c[3] = ((y % 16) * 4) + (z \div 64)
    BY <1>2
  <2>2. ((((((x % 4) * 16) + (y \div 16)) % 16) * 16)
          + (((((y % 16) * 4) + (z \div 64)) \div 4) % 16)) % 256 = y
    BY DEF Byte
  <2>3. QED
    BY <1>5, <2>1, <2>2
<1>8. c[3] = Sextets(b)[3] /\ c[4] = Sextets(b)[4] => Octets(c)[3] = z
  <2>1. c[3] = Sextets(b)[3] /\ c[4] = Sextets(b)[4] =>
          c[3] = ((y % 16) * 4) + (z \div 64) /\ c[4] = z % 64
    BY <1>2
  <2>2. ((((((y % 16) * 4) + (z \div 64)) % 4) * 64) + (z % 64)) % 256 = z
    BY DEF Byte
  <2>3. QED
    BY <1>5, <2>1, <2>2
<1>9. QED
  BY <1>1, <1>6, <1>7, <1>8

\* Four characters spell three bytes, whatever stands in for a missing one.
LEMMA OctetsAreBytes ==
  ASSUME NEW c \in [1 .. 4 -> Byte]
  PROVE  Octets(c) \in [1 .. 3 -> Byte]
<1>1. PICK p \in Byte, q \in Byte, r \in Byte, s \in Byte :
        c[1] = p /\ c[2] = q /\ c[3] = r /\ c[4] = s
  OBVIOUS
<1>2. \A n \in Nat : n % 256 \in Byte
  BY DEF Byte
<1>3. \A n, k \in Nat : k # 0 => n \div k \in Nat /\ n % k \in Nat
  OBVIOUS
<1>4. /\ (p * 4) + ((q \div 16) % 4) \in Nat
      /\ ((q % 16) * 16) + ((r \div 4) % 16) \in Nat /\ ((r % 4) * 64) + s \in Nat
  BY DEF Byte
<1>5. \A x, y, z \in Byte : <<x, y, z>> \in [1 .. 3 -> Byte]
  OBVIOUS
<1>6. QED
  BY <1>1, <1>2, <1>4, <1>5 DEF Octets

\* A group of a sequence is one of its elements' type and the fill's.
LEMMA GroupType ==
  ASSUME NEW S, NEW s \in Seq(S), NEW n \in Nat, NEW size \in Nat, NEW fill \in S
  PROVE  Group(s, n, size, fill) \in [1 .. size -> S]
<1>1. n * size \in Nat
  BY Grouped
<1>2. ASSUME NEW k \in 1 .. size
      PROVE  (IF n * size + k <= Len(s) THEN s[n * size + k] ELSE fill) \in S
  <2>1. PICK j \in Nat : j = n * size + k /\ j > 0
    BY <1>1
  <2>2. QED
    BY <2>1
<1>3. QED
  BY <1>2 DEF Group

-----------------------------------------------------------------------------
(* What encode() and decode() return, group by group.                        *)

\* Bytes as they come out of encode(): Filled is what stands at place m of group n.
LEMMA EncodeShape ==
  ASSUME NEW bytes \in Seq(Byte)
  PROVE  LET whole == Len(bytes) \div 3
             i == Len(bytes) % 3
             e == encode(bytes)
         IN /\ e \in Seq(0 .. Pad) /\ Len(e) = 4 * ((Len(bytes) + 2) \div 3)
            /\ \A n \in 0 .. whole - 1, m \in 1 .. 4 :
                 e[n * 4 + m] = Sextets(Group(bytes, n, 3, 0))[m]
            /\ i # 0 => \A m \in 1 .. 4 :
                 e[whole * 4 + m] = IF m <= i + 1 THEN Sextets(Group(bytes, whole, 3, 0))[m]
                                    ELSE Pad
<1> DEFINE whole == Len(bytes) \div 3
           i == Len(bytes) % 3
           Quad(n) == Sextets(Group(bytes, n, 3, 0))
           quads == [n \in 1 .. whole |-> Quad(n - 1)]
           last == SubSeq(Quad(whole), 1, i + 1) \o [k \in 1 .. 3 - i |-> Pad]
<1>1. whole \in Nat /\ i \in 0 .. 2 /\ Len(bytes) = 3 * whole + i
  OBVIOUS
<1>2. \A n \in Nat : Quad(n) \in [1 .. 4 -> Sextet]
  <2>1. 0 \in Byte /\ 3 \in Nat
    BY DEF Byte
  <2>2. QED
    BY <2>1, SextetsAreCharacters, GroupType
<1>3. \A n \in Nat : Quad(n) \in [1 .. 4 -> 0 .. Pad]
  <2> HIDE DEF Quad
  <2>1. \A x \in [1 .. 4 -> Sextet] : x \in [1 .. 4 -> 0 .. Pad]
    BY DEF Sextet, Pad
  <2>2. QED
    BY <1>2, <2>1
<1>4. encode(bytes) = IF i = 0 THEN FlattenSeq(quads)
                      ELSE FlattenSeq(quads) \o SubSeq(Quad(whole), 1, i + 1)
                             \o [k \in 1 .. 3 - i |-> Pad]
  BY DEF encode
<1> HIDE DEF whole, i, Quad
<1>5. quads \in [1 .. whole -> [1 .. 4 -> 0 .. Pad]]
  <2>1. \A n \in 1 .. whole : n - 1 \in Nat
    BY <1>1
  <2>2. QED
    BY <1>3, <2>1
<1>6. \A n \in 0 .. whole - 1 : n + 1 \in 1 .. whole /\ quads[n + 1] = Quad(n)
  BY <1>1
<1> HIDE DEF quads
<1>7. PICK q \in Seq(0 .. Pad) : q = FlattenSeq(quads) /\ Spells(q, quads, whole, 4)
  BY <1>1, <1>5, FlattenGroups
<1>8. CASE i = 0
  <2>1. encode(bytes) = q /\ Len(q) = whole * 4
    BY <1>1, <1>4, <1>7, <1>8 DEF Spells, Place
  <2>2. \A n \in 0 .. whole - 1, m \in 1 .. 4 : q[n * 4 + m] = quads[n + 1][m]
    BY <1>7 DEF Spells, Place
  <2>3. 4 * ((Len(bytes) + 2) \div 3) = whole * 4
    BY <1>1, <1>8
  <2>4. QED
    BY <1>6, <1>8, <2>1, <2>2, <2>3 DEF whole, i, Quad
<1>9. CASE i # 0
  <2>1. PICK s \in Seq(0 .. Pad) : /\ s = SubSeq(Quad(whole), 1, i + 1) /\ Len(s) = i + 1
                                  /\ \A m \in 1 .. i + 1 : s[m] = Quad(whole)[m]
    <3>1. PICK x \in [1 .. 4 -> 0 .. Pad] : x = Quad(whole)
      BY <1>1, <1>3, Zenon
    <3>2. i + 1 \in 0 .. 4 /\ 4 \in Nat
      BY <1>1
    <3>3. /\ SubSeq(x, 1, i + 1) \in Seq(0 .. Pad) /\ Len(SubSeq(x, 1, i + 1)) = i + 1
          /\ \A m \in 1 .. i + 1 : SubSeq(x, 1, i + 1)[m] = x[m]
      BY <3>2, FunctionAsSequence
    <3>4. QED
      BY <3>1, <3>3, Zenon
  <2>2. PICK pads \in Seq(0 .. Pad) : /\ pads = [k \in 1 .. 3 - i |-> Pad] /\ Len(pads) = 3 - i
                                     /\ \A m \in 1 .. 3 - i : pads[m] = Pad
    <3>1. [k \in 1 .. 3 - i |-> Pad] \in [1 .. 3 - i -> 0 .. Pad]
      BY DEF Pad
    <3>2. 3 - i \in Nat
      BY <1>1
    <3>3. /\ [k \in 1 .. 3 - i |-> Pad] \in Seq(0 .. Pad)
          /\ Len([k \in 1 .. 3 - i |-> Pad]) = 3 - i
      BY <3>1, <3>2, FunctionAsSequence
    <3>4. QED
      BY <3>3, Zenon
  <2>3. /\ q \o s \in Seq(0 .. Pad) /\ Len(q \o s) = whole * 4 + (i + 1)
        /\ \A n \in 0 .. whole - 1, m \in 1 .. 4 : (q \o s)[n * 4 + m] = quads[n + 1][m]
        /\ \A m \in 1 .. i + 1 : (q \o s)[whole * 4 + m] = Quad(whole)[m]
    <3>1. 4 \in Nat /\ whole \in Nat
      BY <1>1
    <3>2. q \o s \in Seq(0 .. Pad) /\ SpellsAnd(q \o s, quads, whole, 4, s)
      BY <1>7, <3>1, SpellsOn
    <3>5. /\ q \o s \in Seq(0 .. Pad) /\ Len(q \o s) = whole * 4 + Len(s)
          /\ \A n \in 0 .. whole - 1, m \in 1 .. 4 : (q \o s)[n * 4 + m] = quads[n + 1][m]
          /\ \A m \in 1 .. Len(s) : (q \o s)[whole * 4 + m] = s[m]
      BY <3>2, Zenon DEF SpellsAnd, Place
    <3>6. QED
      BY <2>1, <3>5, Zenon
  <2>4. PICK r \in Seq(0 .. Pad) : r = q \o s
    BY <2>3
  <2>5. /\ r \o pads \in Seq(0 .. Pad) /\ Len(r \o pads) = whole * 4 + 4
        /\ \A j \in 1 .. whole * 4 + (i + 1) : (r \o pads)[j] = r[j]
        /\ \A j \in 1 .. 3 - i : (r \o pads)[whole * 4 + (i + 1) + j] = Pad
    <3>1. Len(r) = whole * 4 + (i + 1)
      BY <2>3, <2>4
    <3>2. /\ r \o pads \in Seq(0 .. Pad) /\ Len(r \o pads) = Len(r) + Len(pads)
          /\ \A j \in 1 .. Len(r) : (r \o pads)[j] = r[j]
          /\ \A j \in 1 .. Len(pads) : (r \o pads)[Len(r) + j] = pads[j]
      BY Joined
    <3>3. Len(r) + Len(pads) = whole * 4 + 4
      BY <1>1, <2>2, <3>1
    <3>4. \A j \in 1 .. 3 - i : (r \o pads)[Len(r) + j] = Pad
      BY <2>2, <3>2, Zenon
    <3>5. QED
      BY <3>1, <3>2, <3>3, <3>4, Zenon
  <2>6. encode(bytes) = r \o pads
    BY <1>4, <1>7, <1>9, <2>1, <2>2, <2>4
  <2>7. 4 * ((Len(bytes) + 2) \div 3) = whole * 4 + 4
    BY <1>1, <1>9
  <2>8. ASSUME NEW n \in 0 .. whole - 1, NEW m \in 1 .. 4
        PROVE  (r \o pads)[n * 4 + m] = Quad(n)[m]
    <3>1. n * 4 + m \in 1 .. whole * 4 + (i + 1)
      BY <1>1
    <3>2. r[n * 4 + m] = Quad(n)[m]
      BY <1>6, <2>3, <2>4
    <3>3. QED
      BY <2>5, <3>1, <3>2
  <2>9. ASSUME NEW m \in 1 .. 4
        PROVE  (r \o pads)[whole * 4 + m] = IF m <= i + 1 THEN Quad(whole)[m] ELSE Pad
    <3>1. CASE m <= i + 1
      <4>1. m \in 1 .. i + 1 /\ whole * 4 + m \in 1 .. whole * 4 + (i + 1)
        BY <1>1, <3>1
      <4>2. QED
        BY <2>3, <2>4, <2>5, <3>1, <4>1
    <3>2. CASE ~(m <= i + 1)
      <4>1. PICK j \in 1 .. 3 - i : m = i + 1 + j
        BY <1>1, <3>2
      <4>2. whole * 4 + m = whole * 4 + (i + 1) + j
        BY <1>1, <4>1
      <4>3. QED
        BY <2>5, <3>2, <4>2
    <3>3. QED
      BY <3>1, <3>2
  <2>10. QED
    BY <2>5, <2>6, <2>7, <2>8, <2>9 DEF whole, i, Quad
<1>10. QED
  BY <1>8, <1>9

\* d is what decode() makes of chars: three bytes per whole group of four characters,
\* and one byte less than there are characters in a last incomplete one.
Decoded(d, chars) ==
  LET whole == Len(chars) \div 4
      i == Len(chars) % 4
  IN /\ d \in Seq(Byte) /\ Len(d) = 3 * whole + (IF i = 0 THEN 0 ELSE i - 1)
     /\ \A n \in 0 .. whole - 1, m \in 1 .. 3 :
          d[n * 3 + m] = Octets(Group(chars, n, 4, Missing))[m]
     /\ i # 0 => \A m \in 1 .. i - 1 :
          d[whole * 3 + m] = Octets(Group(chars, whole, 4, Missing))[m]

\* The bytes of decode(), given the characters it reads.
LEMMA DecodeShape ==
  ASSUME NEW text, NEW chars \in Seq(Sextet), chars = Readable(text)
  PROVE  Decoded(decode(text), chars)
<1> DEFINE whole == Len(chars) \div 4
           i == Len(chars) % 4
           Triple(n) == Octets(Group(chars, n, 4, Missing))
           triples == [n \in 1 .. whole |-> Triple(n - 1)]
<1>1. whole \in Nat /\ i \in 0 .. 3
  OBVIOUS
<1>2. \A n \in Nat : Triple(n) \in [1 .. 3 -> Byte]
  <2>1. Missing \in Byte /\ 4 \in Nat
    BY DEF Missing, Byte
  <2>2. chars \in Seq(Byte)
    BY DEF Sextet, Byte
  <2>3. QED
    BY <2>1, <2>2, OctetsAreBytes, GroupType
<1>3. decode(text) = IF i = 0 THEN FlattenSeq(triples)
                     ELSE FlattenSeq(triples) \o SubSeq(Triple(whole), 1, i - 1)
  BY DEF decode
<1> HIDE DEF whole, i, Triple
<1>4. triples \in [1 .. whole -> [1 .. 3 -> Byte]]
  <2>1. \A n \in 1 .. whole : n - 1 \in Nat
    BY <1>1
  <2>2. QED
    BY <1>2, <2>1
<1>5. \A n \in 0 .. whole - 1 : n + 1 \in 1 .. whole /\ triples[n + 1] = Triple(n)
  BY <1>1
<1> HIDE DEF triples
<1>6. PICK q \in Seq(Byte) : q = FlattenSeq(triples) /\ Spells(q, triples, whole, 3)
  BY <1>1, <1>4, FlattenGroups
<1>7. CASE i = 0
  <2>1. decode(text) = q /\ Len(q) = whole * 3
    BY <1>1, <1>3, <1>6, <1>7 DEF Spells, Place
  <2>2. \A n \in 0 .. whole - 1, m \in 1 .. 3 : q[n * 3 + m] = triples[n + 1][m]
    BY <1>6 DEF Spells, Place
  <2>3. QED
    BY <1>1, <1>5, <1>7, <2>1, <2>2 DEF whole, i, Triple, Decoded
<1>8. CASE i # 0
  <2>1. PICK s \in Seq(Byte) : /\ s = SubSeq(Triple(whole), 1, i - 1) /\ Len(s) = i - 1
                               /\ \A m \in 1 .. i - 1 : s[m] = Triple(whole)[m]
    <3>1. PICK x \in [1 .. 3 -> Byte] : x = Triple(whole)
      BY <1>1, <1>2, Zenon
    <3>2. i - 1 \in 0 .. 3 /\ 3 \in Nat
      BY <1>1, <1>8
    <3>3. /\ SubSeq(x, 1, i - 1) \in Seq(Byte) /\ Len(SubSeq(x, 1, i - 1)) = i - 1
          /\ \A m \in 1 .. i - 1 : SubSeq(x, 1, i - 1)[m] = x[m]
      BY <3>2, FunctionAsSequence
    <3>4. QED
      BY <3>1, <3>3, Zenon
  <2>2. q \o s \in Seq(Byte) /\ SpellsAnd(q \o s, triples, whole, 3, s)
    <3>1. 3 \in Nat /\ whole \in Nat
      BY <1>1
    <3>2. QED
      BY <1>6, <3>1, SpellsOn
  <2>3. /\ q \o s \in Seq(Byte) /\ Len(q \o s) = whole * 3 + (i - 1)
        /\ \A n \in 0 .. whole - 1, m \in 1 .. 3 : (q \o s)[n * 3 + m] = triples[n + 1][m]
        /\ \A m \in 1 .. i - 1 : (q \o s)[whole * 3 + m] = Triple(whole)[m]
    BY <2>1, <2>2, Zenon DEF SpellsAnd, Place
  <2>4. decode(text) = q \o s
    BY <1>3, <1>6, <1>8, <2>1
  <2>5. Len(q \o s) = 3 * whole + (IF i = 0 THEN 0 ELSE i - 1)
    BY <1>1, <1>8, <2>3
  <2>6. \A n \in 0 .. whole - 1, m \in 1 .. 3 : (q \o s)[n * 3 + m] = Triple(n)[m]
    BY <1>5, <2>3
  <2>7. /\ decode(text) \in Seq(Byte)
        /\ Len(decode(text)) = 3 * whole + (IF i = 0 THEN 0 ELSE i - 1)
        /\ \A n \in 0 .. whole - 1, m \in 1 .. 3 : decode(text)[n * 3 + m] = Triple(n)[m]
        /\ \A m \in 1 .. i - 1 : decode(text)[whole * 3 + m] = Triple(whole)[m]
    BY <2>3, <2>4, <2>5, <2>6, Zenon
  <2>8. QED
    BY <2>7, Zenon DEF whole, i, Triple, Decoded
<1>9. QED
  BY <1>7, <1>8

\* decode() reads the characters up to the first that is none of the alphabet's.
LEMMA ReadableIs ==
  ASSUME NEW text \in Seq(Nat), NEW n \in 0 .. Len(text),
         \A j \in 1 .. n : text[j] < 64, n < Len(text) => text[n + 1] >= 64
  PROVE  /\ Readable(text) \in Seq(Sextet) /\ Len(Readable(text)) = n
         /\ \A j \in 1 .. n : Readable(text)[j] = text[j]
<1> DEFINE Foreign == {j \in 1 .. Len(text) : ~is_base64(text[j])}
           stop == IF Foreign # {} THEN Min(Foreign) ELSE 0
<1>1. Readable(text) = IF stop = 0 THEN text ELSE SubSeq(text, 1, stop - 1)
  BY DEF Readable, SelectInSeq
<1>2. Readable(text) = SubSeq(text, 1, n)
  <2>1. CASE n = Len(text)
    <3>1. Foreign = {}
      BY <2>1 DEF is_base64
    <3>2. text = SubSeq(text, 1, Len(text))
      OBVIOUS
    <3>3. QED
      BY <1>1, <2>1, <3>1, <3>2
  <2>2. CASE n < Len(text)
    <3>1. n + 1 \in Foreign /\ \A j \in Foreign : n + 1 <= j
      BY <2>2 DEF is_base64
    <3>2. Foreign \subseteq Int
      OBVIOUS
    <3>3. Min(Foreign) = n + 1
      <4> HIDE DEF Foreign
      <4>1. \A y \in Foreign : (\A x \in Foreign : y <= x) => y = n + 1
        BY <3>1, <3>2
      <4>2. Min(Foreign) \in Foreign /\ \A x \in Foreign : Min(Foreign) <= x
        BY <3>1, Zenon DEF Min
      <4>3. QED
        BY <4>1, <4>2
    <3>4. stop = n + 1 /\ stop # 0 /\ stop - 1 = n
      <4> HIDE DEF Foreign
      <4>1. QED
        BY <3>1, <3>3
    <3>5. QED
      BY <1>1, <3>4, Zenon
  <2>3. QED
    BY <2>1, <2>2
<1>3. ASSUME NEW j \in 1 .. n PROVE text[j] \in Sextet
  <2>1. j \in 1 .. Len(text) /\ text[j] \in Nat /\ text[j] < 64
    OBVIOUS
  <2>2. \A x \in Nat : x < 64 => x \in Sextet
    BY DEF Sextet
  <2>3. QED
    BY <2>1, <2>2
<1>4. QED
  BY <1>2, <1>3

-----------------------------------------------------------------------------
(* The round trip.                                                           *)

\* The characters decode() reads of the text of some bytes: all but the padding.
LEMMA EncodeReadable ==
  ASSUME NEW bytes \in Seq(Byte)
  PROVE  LET whole == Len(bytes) \div 3
             i == Len(bytes) % 3
             chars == Readable(encode(bytes))
         IN /\ chars \in Seq(Sextet) /\ Len(chars) = 4 * whole + (IF i = 0 THEN 0 ELSE i + 1)
            /\ \A n \in 0 .. whole, m \in 1 .. 4 : n * 4 + m <= Len(chars) =>
                 chars[n * 4 + m] = Sextets(Group(bytes, n, 3, 0))[m]
<1> DEFINE whole == Len(bytes) \div 3
           i == Len(bytes) % 3
           Quad(n) == Sextets(Group(bytes, n, 3, 0))
           size == 4 * whole + (IF i = 0 THEN 0 ELSE i + 1)
<1>1. /\ encode(bytes) \in Seq(0 .. Pad) /\ Len(encode(bytes)) = 4 * ((Len(bytes) + 2) \div 3)
      /\ \A n \in 0 .. whole - 1, m \in 1 .. 4 : encode(bytes)[n * 4 + m] = Quad(n)[m]
      /\ i # 0 => \A m \in 1 .. 4 :
           encode(bytes)[whole * 4 + m] = IF m <= i + 1 THEN Quad(whole)[m] ELSE Pad
  BY EncodeShape
<1>2. /\ whole \in Nat /\ i \in 0 .. 2 /\ Len(bytes) = 3 * whole + i /\ size \in Nat
      /\ 4 * ((Len(bytes) + 2) \div 3) = 4 * whole + (IF i = 0 THEN 0 ELSE 4)
      /\ i = 0 => size = 4 * whole
      /\ i # 0 => size = 4 * whole + (i + 1)
  <2>1. /\ whole \in Nat /\ i \in 0 .. 2 /\ Len(bytes) = 3 * whole + i
    OBVIOUS
  <2>2. \A w \in Nat : /\ (3 * w + 0 + 2) \div 3 = w
                       /\ (3 * w + 1 + 2) \div 3 = w + 1 /\ (3 * w + 2 + 2) \div 3 = w + 1
    OBVIOUS
  <2> HIDE DEF whole, i
  <2>3. CASE i = 0
    BY <2>1, <2>2, <2>3
  <2>4. CASE i = 1
    BY <2>1, <2>2, <2>4
  <2>5. CASE i = 2
    BY <2>1, <2>2, <2>5
  <2>6. QED
    BY <2>1, <2>3, <2>4, <2>5
<1>3. \A n \in Nat, m \in 1 .. 4 : Quad(n)[m] \in Sextet
  <2>1. 0 \in Byte /\ 3 \in Nat
    BY DEF Byte
  <2>2. \A n \in Nat : Quad(n) \in [1 .. 4 -> Sextet]
    BY <2>1, SextetsAreCharacters, GroupType
  <2> HIDE DEF Quad
  <2>3. QED
    BY <2>2
<1> HIDE DEF whole, i, Quad, size
<1>4. PICK e \in Seq(Nat) : e = encode(bytes) /\ Len(e) = 4 * whole + (IF i = 0 THEN 0 ELSE 4)
  <2>1. \A s \in Seq(0 .. Pad) : s \in Seq(Nat)
    <3>1. 0 .. Pad \subseteq Nat
      BY DEF Pad
    <3>2. QED
      BY <3>1, WiderSequence
  <2>2. QED
    BY <1>1, <1>2, <2>1, Zenon
<1>5. ASSUME NEW n \in 0 .. whole, NEW m \in 1 .. 4, n * 4 + m <= size
      PROVE  e[n * 4 + m] = Quad(n)[m]
  <2>1. CASE n = whole
    <3>1. i # 0 /\ m <= i + 1
      BY <1>2, <1>5, <2>1 DEF size
    <3>2. QED
      BY <1>1, <1>4, <2>1, <3>1
  <2>2. CASE n # whole
    <3>1. n \in 0 .. whole - 1
      BY <1>2, <2>2
    <3>2. QED
      BY <1>1, <1>4, <3>1, Zenon
  <2>3. QED
    BY <2>1, <2>2
<1>6. ASSUME NEW j \in 1 .. size
      PROVE  e[j] < 64
  <2>1. PICK n \in 0 .. whole, m \in 1 .. 4 : j = n * 4 + m
    <3>1. (j - 1) \div 4 \in 0 .. whole /\ ((j - 1) % 4) + 1 \in 1 .. 4
          /\ j = ((j - 1) \div 4) * 4 + (((j - 1) % 4) + 1)
      BY <1>2 DEF size
    <3>2. QED
      BY <3>1
  <2>2. n \in Nat /\ e[j] = Quad(n)[m]
    <3>1. n \in Nat /\ n * 4 + m <= size
      BY <1>2, <2>1
    <3>2. QED
      BY <1>5, <2>1, <3>1, Zenon
  <2>3. e[j] \in Sextet
    BY <1>3, <2>2, Zenon
  <2>4. \A x \in Sextet : x < 64
    BY DEF Sextet
  <2>5. QED
    BY <2>3, <2>4
<1>7. size \in 0 .. Len(e)
  BY <1>2, <1>4 DEF size
<1>8. size < Len(e) => e[size + 1] >= 64
  <2> SUFFICES ASSUME size < Len(e) PROVE e[size + 1] >= 64
    OBVIOUS
  <2>1. i # 0 /\ i + 2 \in 1 .. 4 /\ ~(i + 2 <= i + 1) /\ size + 1 = whole * 4 + (i + 2)
    BY <1>2, <1>4 DEF size
  <2>2. e[size + 1] = Pad
    BY <1>1, <1>4, <2>1
  <2>3. QED
    BY <2>2 DEF Pad
<1>9. /\ Readable(e) \in Seq(Sextet) /\ Len(Readable(e)) = size
      /\ \A j \in 1 .. size : Readable(e)[j] = e[j]
  BY <1>6, <1>7, <1>8, ReadableIs
<1>10. \A n \in 0 .. whole, m \in 1 .. 4 : n * 4 + m <= size =>
         Readable(e)[n * 4 + m] = Quad(n)[m]
  <2>1. \A n \in 0 .. whole, m \in 1 .. 4 : n * 4 + m <= size => n * 4 + m \in 1 .. size
    BY <1>2
  <2>2. QED
    BY <1>5, <1>9, <2>1
<1>11. QED
  BY <1>4, <1>9, <1>10, Zenon DEF whole, i, Quad, size

\* Any bytes come back from their text.
LEMMA DecodeOfEncode ==
  ASSUME NEW bytes \in Seq(Byte)
  PROVE  decode(encode(bytes)) = bytes
<1> DEFINE whole == Len(bytes) \div 3
           i == Len(bytes) % 3
           Three(n) == Group(bytes, n, 3, 0)
<1>1. PICK chars \in Seq(Sextet) :
        /\ chars = Readable(encode(bytes))
        /\ Len(chars) = 4 * whole + (IF i = 0 THEN 0 ELSE i + 1)
        /\ \A n \in 0 .. whole, m \in 1 .. 4 : n * 4 + m <= Len(chars) =>
             chars[n * 4 + m] = Sextets(Three(n))[m]
  BY EncodeReadable, Zenon
<1> DEFINE Four(n) == Group(chars, n, 4, Missing)
           d == decode(encode(bytes))
<1>2. /\ whole \in Nat /\ i \in 0 .. 2 /\ Len(bytes) = 3 * whole + i
      /\ Len(chars) \div 4 = whole /\ Len(chars) % 4 = IF i = 0 THEN 0 ELSE i + 1
  <2>1. whole \in Nat /\ i \in 0 .. 2 /\ Len(bytes) = 3 * whole + i
    OBVIOUS
  <2>2. \A w \in Nat, k \in 0 .. 3 : (4 * w + k) \div 4 = w /\ (4 * w + k) % 4 = k
    OBVIOUS
  <2>3. PICK k \in 0 .. 3 : k = (IF i = 0 THEN 0 ELSE i + 1)
    BY <2>1
  <2> HIDE DEF whole, i
  <2>4. Len(chars) = 4 * whole + k
    BY <1>1, <2>3
  <2>5. QED
    BY <2>1, <2>2, <2>3, <2>4
<1>3. /\ d \in Seq(Byte)
      /\ Len(d) = 3 * (Len(chars) \div 4)
                    + (IF Len(chars) % 4 = 0 THEN 0 ELSE (Len(chars) % 4) - 1)
      /\ \A n \in 0 .. (Len(chars) \div 4) - 1, m \in 1 .. 3 : d[n * 3 + m] = Octets(Four(n))[m]
      /\ Len(chars) % 4 # 0 => \A m \in 1 .. (Len(chars) % 4) - 1 :
           d[(Len(chars) \div 4) * 3 + m] = Octets(Four(Len(chars) \div 4))[m]
  <2>1. Decoded(d, chars)
    BY <1>1, DecodeShape
  <2>2. QED
    BY <2>1, Zenon DEF Decoded
<1>4. \A n \in Nat : Three(n) \in [1 .. 3 -> Byte] /\ Four(n) \in [1 .. 4 -> Byte]
  <2>1. 0 \in Byte /\ Missing \in Byte /\ 3 \in Nat /\ 4 \in Nat
    BY DEF Byte, Missing
  <2>2. chars \in Seq(Byte)
    BY DEF Sextet, Byte
  <2>3. QED
    BY <2>1, <2>2, GroupType
<1>5. \A n \in 0 .. whole, m \in 1 .. 4 : n * 4 + m <= Len(chars) =>
        Four(n)[m] = Sextets(Three(n))[m]
  BY <1>1 DEF Group
<1>6. \A n \in 0 .. whole, m \in 1 .. 3 : n * 3 + m <= Len(bytes) =>
        Three(n)[m] = bytes[n * 3 + m]
  BY DEF Group
<1> HIDE DEF whole, i, Three, Four, d
<1>7. Len(d) = Len(bytes)
  <2>1. CASE i = 0
    BY <1>2, <1>3, <2>1
  <2>2. CASE i # 0
    <3>1. Len(chars) % 4 = i + 1 /\ i + 1 # 0 /\ i + 1 - 1 = i
      BY <1>2, <2>2
    <3>2. Len(d) = 3 * whole + i
      <4>1. Len(d) = 3 * (Len(chars) \div 4) + ((Len(chars) % 4) - 1)
        BY <1>3, <3>1
      <4>2. (Len(chars) % 4) - 1 = i
        BY <1>2, <3>1
      <4>3. QED
        BY <1>2, <4>1, <4>2, Zenon
    <3>3. QED
      BY <1>2, <3>2
  <2>3. QED
    BY <2>1, <2>2
<1>8. ASSUME NEW n \in 0 .. whole, NEW m \in 1 .. 3, n * 3 + m <= Len(bytes)
      PROVE  d[n * 3 + m] = bytes[n * 3 + m]
  <2>1. n \in Nat /\ (n = whole => i # 0 /\ m <= i)
    BY <1>2, <1>8
  <2>2. \A k \in 1 .. m + 1 : Four(n)[k] = Sextets(Three(n))[k]
    <3>1. \A k \in 1 .. m + 1 : k \in 1 .. 4 /\ n * 4 + k <= Len(chars)
      BY <1>1, <1>2, <2>1
    <3>2. QED
      BY <1>5, <3>1
  <2>3. Octets(Four(n))[m] = Three(n)[m]
    <3>1. PICK b \in [1 .. 3 -> Byte], c \in [1 .. 4 -> Byte] : b = Three(n) /\ c = Four(n)
      BY <1>4, <2>1, Zenon
    <3>2. \A k \in 1 .. m + 1 : c[k] = Sextets(b)[k]
      BY <2>2, <3>1, Zenon
    <3>3. c[1] = Sextets(b)[1] /\ c[2] = Sextets(b)[2]
          /\ (m >= 2 => c[3] = Sextets(b)[3]) /\ (m = 3 => c[4] = Sextets(b)[4])
      BY <3>2
    <3>4. Octets(c)[m] = b[m]
      BY <3>3, BytesComeBack
    <3>5. QED
      BY <3>1, <3>4
  <2>4. d[n * 3 + m] = Octets(Four(n))[m]
    <3>1. CASE n = whole
      <4>1. Len(chars) % 4 # 0 /\ m \in 1 .. (Len(chars) % 4) - 1 /\ Len(chars) \div 4 = n
        BY <1>2, <2>1, <3>1
      <4>2. QED
        BY <1>3, <4>1
    <3>2. CASE n # whole
      <4>1. n \in 0 .. (Len(chars) \div 4) - 1
        BY <1>2, <3>2
      <4>2. QED
        BY <1>3, <4>1, Zenon
    <3>3. QED
      BY <3>1, <3>2
  <2>5. QED
    BY <1>6, <1>8, <2>3, <2>4
<1>9. ASSUME NEW j \in 1 .. Len(bytes)
      PROVE  d[j] = bytes[j]
  <2>1. PICK n \in 0 .. whole, m \in 1 .. 3 : j = n * 3 + m
    <3>1. (j - 1) \div 3 \in 0 .. whole /\ ((j - 1) % 3) + 1 \in 1 .. 3
          /\ j = ((j - 1) \div 3) * 3 + (((j - 1) % 3) + 1)
      BY <1>2
    <3>2. QED
      BY <3>1
  <2>2. QED
    BY <1>8, <2>1
<1>10. \A s, t \in Seq(Byte) : Len(s) = Len(t) /\ (\A j \in 1 .. Len(t) : s[j] = t[j]) => s = t
  OBVIOUS
<1>11. d = bytes
  BY <1>3, <1>7, <1>9, <1>10
<1>12. QED
  BY <1>11 DEF d

\* The input is of what it grows by.
InputTyped == input \in Seq(Items)

\* Only Grow touches it, and adds one item.
LEMMA InputInvariant == Spec => []InputTyped
<1>1. Init => InputTyped
  BY DEF Init, InputTyped
<1>2. InputTyped /\ [Next]_codecVars => InputTyped'
  BY DEF InputTyped, Next, Grow, codecVars
<1>3. QED
  BY <1>1, <1>2, PTL DEF Spec

\* Whatever bytes a reply's audio consists of, and however many, the client's library
\* reads whole groups of the alphabet, and decode() of that text gives the bytes.
THEOREM BytesRoundTrip == Spec => []RoundTrip
<1>1. InputTyped => RoundTrip
  <2> SUFFICES ASSUME InputTyped, \A i \in DOMAIN input : input[i] \in Byte
               PROVE  /\ decode(encode(input)) = input
                      /\ Len(encode(input)) = 4 * ((Len(input) + 2) \div 3)
                      /\ \A i \in DOMAIN encode(input) : encode(input)[i] \in 0 .. Pad
    BY DEF RoundTrip
  <2>1. input \in Seq(Byte)
    BY DEF InputTyped
  <2>2. PICK e \in Seq(0 .. Pad) : /\ e = encode(input)
                                  /\ Len(e) = 4 * ((Len(input) + 2) \div 3)
    BY <2>1, EncodeShape
  <2>3. \A i \in DOMAIN e : e[i] \in 0 .. Pad
    <3>1. \A S : \A s \in Seq(S) : \A i \in DOMAIN s : s[i] \in S
      OBVIOUS
    <3>2. QED
      BY <3>1, Zenon
  <2>4. QED
    BY <2>1, <2>2, <2>3, DecodeOfEncode
<1>2. QED
  BY <1>1, InputInvariant, PTL

-----------------------------------------------------------------------------
(* The bits.                                                                 *)

\* Bit in numbers.
LEMMA BitIs ==
  ASSUME NEW x \in Nat
  PROVE  /\ Bit(x, 0) = (x \div 128) % 2 /\ Bit(x, 1) = (x \div 64) % 2
         /\ Bit(x, 2) = (x \div 32) % 2 /\ Bit(x, 3) = (x \div 16) % 2
         /\ Bit(x, 4) = (x \div 8) % 2 /\ Bit(x, 5) = (x \div 4) % 2
         /\ Bit(x, 6) = (x \div 2) % 2 /\ Bit(x, 7) = x % 2
<1>1. /\ 2 ^ 7 = 128 /\ 2 ^ 6 = 64 /\ 2 ^ 5 = 32 /\ 2 ^ 4 = 16
      /\ 2 ^ 3 = 8 /\ 2 ^ 2 = 4 /\ 2 ^ 1 = 2 /\ 2 ^ 0 = 1
  OBVIOUS
<1>2. /\ 7 - 0 = 7 /\ 7 - 1 = 6 /\ 7 - 2 = 5 /\ 7 - 3 = 4
      /\ 7 - 4 = 3 /\ 7 - 5 = 2 /\ 7 - 6 = 1 /\ 7 - 7 = 0
  OBVIOUS
<1>3. x \div 1 = x
  OBVIOUS
<1>4. QED
  BY <1>1, <1>2, <1>3, Zenon DEF Bit

\* The bits of the first byte are the six of the first character and two of the second.
LEMMA FirstOctet ==
  ASSUME NEW c \in [1 .. 4 -> Byte], c[1] \in Sextet, c[2] \in Sextet
  PROVE  LET o == Octets(c)[1] IN
         /\ Bit(o, 0) = Bit(c[1], 2) /\ Bit(o, 1) = Bit(c[1], 3) /\ Bit(o, 2) = Bit(c[1], 4)
         /\ Bit(o, 3) = Bit(c[1], 5) /\ Bit(o, 4) = Bit(c[1], 6) /\ Bit(o, 5) = Bit(c[1], 7)
         /\ Bit(o, 6) = Bit(c[2], 2) /\ Bit(o, 7) = Bit(c[2], 3)
<1>1. PICK x \in Sextet, y \in Sextet : x = c[1] /\ y = c[2]
  OBVIOUS
<1> DEFINE o == ((x * 4) + ((y \div 16) % 4)) % 256
<1>2. Octets(c)[1] = o /\ o \in Nat /\ x \in Nat /\ y \in Nat
  BY <1>1 DEF Octets, Sextet
<1>3. /\ (o \div 128) % 2 = (x \div 32) % 2 /\ (o \div 64) % 2 = (x \div 16) % 2
      /\ (o \div 32) % 2 = (x \div 8) % 2 /\ (o \div 16) % 2 = (x \div 4) % 2
      /\ (o \div 8) % 2 = (x \div 2) % 2 /\ (o \div 4) % 2 = x % 2
      /\ (o \div 2) % 2 = (y \div 32) % 2 /\ o % 2 = (y \div 16) % 2
  <2>1. (o \div 128) % 2 = (x \div 32) % 2
    BY DEF Sextet
  <2>2. (o \div 64) % 2 = (x \div 16) % 2
    BY DEF Sextet
  <2>3. (o \div 32) % 2 = (x \div 8) % 2
    BY DEF Sextet
  <2>4. (o \div 16) % 2 = (x \div 4) % 2
    BY DEF Sextet
  <2>5. (o \div 8) % 2 = (x \div 2) % 2
    BY DEF Sextet
  <2>6. (o \div 4) % 2 = x % 2
    BY DEF Sextet
  <2>7. (o \div 2) % 2 = (y \div 32) % 2
    BY DEF Sextet
  <2>8. o % 2 = (y \div 16) % 2
    BY DEF Sextet
  <2> HIDE DEF o
  <2>9. QED
    BY <2>1, <2>2, <2>3, <2>4, <2>5, <2>6, <2>7, <2>8, Zenon
<1> HIDE DEF o
<1>4. /\ Bit(o, 0) = (o \div 128) % 2 /\ Bit(o, 1) = (o \div 64) % 2
      /\ Bit(o, 2) = (o \div 32) % 2 /\ Bit(o, 3) = (o \div 16) % 2
      /\ Bit(o, 4) = (o \div 8) % 2 /\ Bit(o, 5) = (o \div 4) % 2
      /\ Bit(o, 6) = (o \div 2) % 2 /\ Bit(o, 7) = o % 2
  BY <1>2, BitIs, Zenon
<1>5. /\ Bit(x, 2) = (x \div 32) % 2 /\ Bit(x, 3) = (x \div 16) % 2 /\ Bit(x, 4) = (x \div 8) % 2
      /\ Bit(x, 5) = (x \div 4) % 2 /\ Bit(x, 6) = (x \div 2) % 2 /\ Bit(x, 7) = x % 2
      /\ Bit(y, 2) = (y \div 32) % 2 /\ Bit(y, 3) = (y \div 16) % 2 /\ Bit(y, 4) = (y \div 8) % 2
      /\ Bit(y, 5) = (y \div 4) % 2 /\ Bit(y, 6) = (y \div 2) % 2 /\ Bit(y, 7) = y % 2
  BY <1>2, BitIs, Zenon
<1>6. QED
  BY <1>1, <1>2, <1>3, <1>4, <1>5

\* Those of the second byte: four of the second character and four of the third.
LEMMA SecondOctet ==
  ASSUME NEW c \in [1 .. 4 -> Byte], c[2] \in Sextet, c[3] \in Sextet
  PROVE  LET o == Octets(c)[2] IN
         /\ Bit(o, 0) = Bit(c[2], 4) /\ Bit(o, 1) = Bit(c[2], 5) /\ Bit(o, 2) = Bit(c[2], 6)
         /\ Bit(o, 3) = Bit(c[2], 7) /\ Bit(o, 4) = Bit(c[3], 2) /\ Bit(o, 5) = Bit(c[3], 3)
         /\ Bit(o, 6) = Bit(c[3], 4) /\ Bit(o, 7) = Bit(c[3], 5)
<1>1. PICK x \in Sextet, y \in Sextet : x = c[2] /\ y = c[3]
  OBVIOUS
<1> DEFINE o == (((x % 16) * 16) + ((y \div 4) % 16)) % 256
<1>2. Octets(c)[2] = o /\ o \in Nat /\ x \in Nat /\ y \in Nat
  BY <1>1 DEF Octets, Sextet
<1>3. /\ (o \div 128) % 2 = (x \div 8) % 2 /\ (o \div 64) % 2 = (x \div 4) % 2
      /\ (o \div 32) % 2 = (x \div 2) % 2 /\ (o \div 16) % 2 = x % 2
      /\ (o \div 8) % 2 = (y \div 32) % 2 /\ (o \div 4) % 2 = (y \div 16) % 2
      /\ (o \div 2) % 2 = (y \div 8) % 2 /\ o % 2 = (y \div 4) % 2
  <2>1. (o \div 128) % 2 = (x \div 8) % 2
    BY DEF Sextet
  <2>2. (o \div 64) % 2 = (x \div 4) % 2
    BY DEF Sextet
  <2>3. (o \div 32) % 2 = (x \div 2) % 2
    BY DEF Sextet
  <2>4. (o \div 16) % 2 = x % 2
    BY DEF Sextet
  <2>5. (o \div 8) % 2 = (y \div 32) % 2
    BY DEF Sextet
  <2>6. (o \div 4) % 2 = (y \div 16) % 2
    BY DEF Sextet
  <2>7. (o \div 2) % 2 = (y \div 8) % 2
    BY DEF Sextet
  <2>8. o % 2 = (y \div 4) % 2
    BY DEF Sextet
  <2> HIDE DEF o
  <2>9. QED
    BY <2>1, <2>2, <2>3, <2>4, <2>5, <2>6, <2>7, <2>8, Zenon
<1> HIDE DEF o
<1>4. /\ Bit(o, 0) = (o \div 128) % 2 /\ Bit(o, 1) = (o \div 64) % 2
      /\ Bit(o, 2) = (o \div 32) % 2 /\ Bit(o, 3) = (o \div 16) % 2
      /\ Bit(o, 4) = (o \div 8) % 2 /\ Bit(o, 5) = (o \div 4) % 2
      /\ Bit(o, 6) = (o \div 2) % 2 /\ Bit(o, 7) = o % 2
  BY <1>2, BitIs, Zenon
<1>5. /\ Bit(x, 2) = (x \div 32) % 2 /\ Bit(x, 3) = (x \div 16) % 2 /\ Bit(x, 4) = (x \div 8) % 2
      /\ Bit(x, 5) = (x \div 4) % 2 /\ Bit(x, 6) = (x \div 2) % 2 /\ Bit(x, 7) = x % 2
      /\ Bit(y, 2) = (y \div 32) % 2 /\ Bit(y, 3) = (y \div 16) % 2 /\ Bit(y, 4) = (y \div 8) % 2
      /\ Bit(y, 5) = (y \div 4) % 2 /\ Bit(y, 6) = (y \div 2) % 2 /\ Bit(y, 7) = y % 2
  BY <1>2, BitIs, Zenon
<1>6. QED
  BY <1>1, <1>2, <1>3, <1>4, <1>5

\* Those of the third byte: two of the third character and the six of the fourth.
LEMMA ThirdOctet ==
  ASSUME NEW c \in [1 .. 4 -> Byte], c[3] \in Sextet, c[4] \in Sextet
  PROVE  LET o == Octets(c)[3] IN
         /\ Bit(o, 0) = Bit(c[3], 6) /\ Bit(o, 1) = Bit(c[3], 7) /\ Bit(o, 2) = Bit(c[4], 2)
         /\ Bit(o, 3) = Bit(c[4], 3) /\ Bit(o, 4) = Bit(c[4], 4) /\ Bit(o, 5) = Bit(c[4], 5)
         /\ Bit(o, 6) = Bit(c[4], 6) /\ Bit(o, 7) = Bit(c[4], 7)
<1>1. PICK x \in Sextet, y \in Sextet : x = c[3] /\ y = c[4]
  OBVIOUS
<1> DEFINE o == (((x % 4) * 64) + y) % 256
<1>2. Octets(c)[3] = o /\ o \in Nat /\ x \in Nat /\ y \in Nat
  BY <1>1 DEF Octets, Sextet
<1>3. /\ (o \div 128) % 2 = (x \div 2) % 2 /\ (o \div 64) % 2 = x % 2
      /\ (o \div 32) % 2 = (y \div 32) % 2 /\ (o \div 16) % 2 = (y \div 16) % 2
      /\ (o \div 8) % 2 = (y \div 8) % 2 /\ (o \div 4) % 2 = (y \div 4) % 2
      /\ (o \div 2) % 2 = (y \div 2) % 2 /\ o % 2 = y % 2
  <2>1. (o \div 128) % 2 = (x \div 2) % 2
    BY DEF Sextet
  <2>2. (o \div 64) % 2 = x % 2
    BY DEF Sextet
  <2>3. (o \div 32) % 2 = (y \div 32) % 2
    BY DEF Sextet
  <2>4. (o \div 16) % 2 = (y \div 16) % 2
    BY DEF Sextet
  <2>5. (o \div 8) % 2 = (y \div 8) % 2
    BY DEF Sextet
  <2>6. (o \div 4) % 2 = (y \div 4) % 2
    BY DEF Sextet
  <2>7. (o \div 2) % 2 = (y \div 2) % 2
    BY DEF Sextet
  <2>8. o % 2 = y % 2
    BY DEF Sextet
  <2> HIDE DEF o
  <2>9. QED
    BY <2>1, <2>2, <2>3, <2>4, <2>5, <2>6, <2>7, <2>8, Zenon
<1> HIDE DEF o
<1>4. /\ Bit(o, 0) = (o \div 128) % 2 /\ Bit(o, 1) = (o \div 64) % 2
      /\ Bit(o, 2) = (o \div 32) % 2 /\ Bit(o, 3) = (o \div 16) % 2
      /\ Bit(o, 4) = (o \div 8) % 2 /\ Bit(o, 5) = (o \div 4) % 2
      /\ Bit(o, 6) = (o \div 2) % 2 /\ Bit(o, 7) = o % 2
  BY <1>2, BitIs, Zenon
<1>5. /\ Bit(x, 2) = (x \div 32) % 2 /\ Bit(x, 3) = (x \div 16) % 2 /\ Bit(x, 4) = (x \div 8) % 2
      /\ Bit(x, 5) = (x \div 4) % 2 /\ Bit(x, 6) = (x \div 2) % 2 /\ Bit(x, 7) = x % 2
      /\ Bit(y, 2) = (y \div 32) % 2 /\ Bit(y, 3) = (y \div 16) % 2 /\ Bit(y, 4) = (y \div 8) % 2
      /\ Bit(y, 5) = (y \div 4) % 2 /\ Bit(y, 6) = (y \div 2) % 2 /\ Bit(y, 7) = y % 2
  BY <1>2, BitIs, Zenon
<1>6. QED
  BY <1>1, <1>2, <1>3, <1>4, <1>5

\* So bit t (from 0) of a group's three bytes is bit t of its four characters.
LEMMA OctetBits ==
  ASSUME NEW c \in [1 .. 4 -> Byte], NEW m \in 1 .. 3, NEW i \in 1 .. 8,
         c[m] \in Sextet, c[m + 1] \in Sextet
  PROVE  LET t == 8 * (m - 1) + (i - 1)
         IN Bit(Octets(c)[m], i - 1) = Bit(c[(t \div 6) + 1], (t % 6) + 2)
<1> DEFINE t == 8 * (m - 1) + (i - 1)
<1>1. /\ i = 1 \/ i = 2 \/ i = 3 \/ i = 4 \/ i = 5 \/ i = 6 \/ i = 7 \/ i = 8
      /\ 1 - 1 = 0 /\ 2 - 1 = 1 /\ 3 - 1 = 2 /\ 4 - 1 = 3
      /\ 5 - 1 = 4 /\ 6 - 1 = 5 /\ 7 - 1 = 6 /\ 8 - 1 = 7
  OBVIOUS
<1>2. CASE m = 1
  <2>1. /\ i <= 6 => (t \div 6) + 1 = 1 /\ (t % 6) + 2 = i + 1
        /\ i > 6 => (t \div 6) + 1 = 2 /\ (t % 6) + 2 = i - 5
    BY <1>2
  <2> HIDE DEF t
  <2>2. QED
    BY <1>1, <1>2, <2>1, FirstOctet DEF t
<1>3. CASE m = 2
  <2>1. /\ i <= 4 => (t \div 6) + 1 = 2 /\ (t % 6) + 2 = i + 3
        /\ i > 4 => (t \div 6) + 1 = 3 /\ (t % 6) + 2 = i - 3
    BY <1>3
  <2> HIDE DEF t
  <2>2. QED
    BY <1>1, <1>3, <2>1, SecondOctet DEF t
<1>4. CASE m = 3
  <2>1. /\ i <= 2 => (t \div 6) + 1 = 3 /\ (t % 6) + 2 = i + 5
        /\ i > 2 => (t \div 6) + 1 = 4 /\ (t % 6) + 2 = i - 1
    BY <1>4
  <2> HIDE DEF t
  <2>2. QED
    BY <1>1, <1>4, <2>1, ThirdOctet DEF t
<1>5. QED
  BY <1>2, <1>3, <1>4

\* decode() reads letters of the alphabet only.
LEMMA ReadableType ==
  ASSUME NEW text \in Seq(Nat)
  PROVE  Readable(text) \in Seq(Sextet)
<1> DEFINE Foreign == {j \in 1 .. Len(text) : text[j] >= 64}
<1>1. CASE Foreign = {}
  <2>1. Len(text) \in 0 .. Len(text) /\ \A j \in 1 .. Len(text) : text[j] < 64
    BY <1>1
  <2>2. QED
    BY <2>1, ReadableIs
<1>2. CASE Foreign # {}
  <2>1. PICK j \in Foreign : \A k \in Foreign : j <= k
    <3>1. Foreign \subseteq Nat
      OBVIOUS
    <3> HIDE DEF Foreign
    <3>2. QED
      BY <1>2, <3>1, LeastNatural
  <2>2. PICK n \in 0 .. Len(text) : j = n + 1
    OBVIOUS
  <2>3. text[n + 1] >= 64 /\ \A k \in 1 .. n : text[k] < 64
    BY <2>1, <2>2
  <2> HIDE DEF Foreign
  <2>4. QED
    BY <2>3, ReadableIs
<1>3. QED
  BY <1>1, <1>2

\* The bit string some characters spell.
Spelled(chars) ==
  FlattenSeq([k \in DOMAIN chars |-> [i \in 1 .. 6 |-> Bit(chars[k], i + 1)]])

\* It has six bits of each character.
LEMMA SpelledShape ==
  ASSUME NEW chars \in Seq(Sextet)
  PROVE  /\ Len(Spelled(chars)) = 6 * Len(chars)
         /\ \A k \in 0 .. Len(chars) - 1, r \in 0 .. 5 :
              Spelled(chars)[k * 6 + (r + 1)] = Bit(chars[k + 1], r + 2)
<1> DEFINE Of(x) == {Bit(x, i) : i \in 2 .. 7}
           S == UNION {Of(x) : x \in Sextet}
           six == [k \in 1 .. Len(chars) |-> [i \in 1 .. 6 |-> Bit(chars[k], i + 1)]]
<1>1. Len(chars) \in Nat /\ DOMAIN chars = 1 .. Len(chars) /\ 6 \in Nat
  OBVIOUS
<1>2. six \in [1 .. Len(chars) -> [1 .. 6 -> S]]
  <2>1. ASSUME NEW k \in 1 .. Len(chars), NEW i \in 1 .. 6
        PROVE  Bit(chars[k], i + 1) \in S
    <3>1. PICK x \in Sextet, j \in 2 .. 7 : x = chars[k] /\ j = i + 1
      OBVIOUS
    <3>2. Bit(x, j) \in Of(x) /\ Of(x) \in {Of(y) : y \in Sextet}
      BY Zenon
    <3>3. QED
      BY <3>1, <3>2, Zenon
  <2> HIDE DEF S, Of
  <2>2. QED
    BY <2>1
<1>3. Spelled(chars) = FlattenSeq(six)
  BY <1>1 DEF Spelled
<1>4. \A k \in 0 .. Len(chars) - 1, r \in 0 .. 5 : six[k + 1][r + 1] = Bit(chars[k + 1], r + 2)
  OBVIOUS
<1> HIDE DEF S, six
<1>5. Spells(Spelled(chars), six, Len(chars), 6)
  BY <1>1, <1>2, <1>3, FlattenGroups
<1>6. Len(Spelled(chars)) = 6 * Len(chars)
  BY <1>1, <1>5 DEF Spells, Place
<1>7. \A k \in 0 .. Len(chars) - 1, m \in 1 .. 6 : Spelled(chars)[k * 6 + m] = six[k + 1][m]
  BY <1>5, Zenon DEF Spells, Place
<1>8. \A r \in 0 .. 5 : r + 1 \in 1 .. 6
  OBVIOUS
<1>9. QED
  BY <1>4, <1>6, <1>7, <1>8, Zenon

\* Byte n * 3 + m of what decode() returns lies in the characters of its group.
LEMMA ByteBits ==
  ASSUME NEW chars \in Seq(Sextet), NEW d, Decoded(d, chars),
         NEW n \in Nat, NEW m \in 1 .. 3, n * 3 + m <= Len(d), NEW i \in 1 .. 8
  PROVE  Bit(d[n * 3 + m], i - 1) = Spelled(chars)[8 * (n * 3 + m - 1) + i]
<1> DEFINE whole == Len(chars) \div 4
           left == Len(chars) % 4
           c == Group(chars, n, 4, Missing)
           t == 8 * (m - 1) + (i - 1)
<1>1. whole \in Nat /\ left \in 0 .. 3 /\ Len(chars) = 4 * whole + left
  OBVIOUS
<1>2. /\ Len(d) = 3 * whole + (IF left = 0 THEN 0 ELSE left - 1)
      /\ n \in 0 .. whole - 1 => d[n * 3 + m] = Octets(c)[m]
      /\ left # 0 /\ n = whole /\ m \in 1 .. left - 1 => d[n * 3 + m] = Octets(c)[m]
  BY DEF Decoded
<1>3. PICK q \in 0 .. 3, r \in 0 .. 5 : q = t \div 6 /\ r = t % 6 /\ t = 6 * q + r /\ q <= m
  <2>1. m = 1 \/ m = 2 \/ m = 3
    OBVIOUS
  <2>2. QED
    BY <2>1
<1> HIDE DEF whole, left
<1>4. /\ \/ n \in 0 .. whole - 1
         \/ left # 0 /\ n = whole /\ m \in 1 .. left - 1
      /\ n * 4 + (m + 1) <= Len(chars)
  <2>1. CASE left = 0
    BY <1>1, <1>2, <2>1
  <2>2. CASE left # 0
    <3>1. Len(d) = 3 * whole + (left - 1)
      BY <1>2, <2>2
    <3>2. n * 3 + m <= 3 * whole + (left - 1)
      BY <3>1
    <3>3. QED
      BY <1>1, <2>2, <3>2
  <2>3. QED
    BY <2>1, <2>2
<1>5. d[n * 3 + m] = Octets(c)[m]
  BY <1>2, <1>4
<1>6. \A j \in 1 .. m + 1 : c[j] = chars[n * 4 + j] /\ c[j] \in Sextet
  <2>1. ASSUME NEW j \in 1 .. m + 1
        PROVE  n * 4 + j \in 1 .. Len(chars) /\ j \in 1 .. 4
    BY <1>4
  <2>2. \A j \in 1 .. m + 1 : c[j] = chars[n * 4 + j]
    BY <2>1 DEF Group
  <2>3. \A j \in 1 .. Len(chars) : chars[j] \in Sextet
    OBVIOUS
  <2> HIDE DEF c
  <2>4. QED
    BY <2>1, <2>2, <2>3
<1>7. c \in [1 .. 4 -> Byte]
  <2>1. Missing \in Byte /\ 4 \in Nat
    BY DEF Byte, Missing
  <2>2. chars \in Seq(Byte)
    BY DEF Sextet, Byte
  <2>3. QED
    BY <2>1, <2>2, GroupType
<1> HIDE DEF c
<1>8. Bit(Octets(c)[m], i - 1) = Bit(c[q + 1], r + 2)
  <2>1. c[m] \in Sextet /\ c[m + 1] \in Sextet
    BY <1>6
  <2>2. Bit(Octets(c)[m], i - 1) = Bit(c[(t \div 6) + 1], (t % 6) + 2)
    BY <1>7, <2>1, OctetBits
  <2>3. QED
    BY <1>3, <2>2, Zenon
<1>9. /\ n * 4 + q \in 0 .. Len(chars) - 1
      /\ 8 * (n * 3 + m - 1) + i = (n * 4 + q) * 6 + (r + 1)
      /\ n * 4 + q + 1 = n * 4 + (q + 1) /\ q + 1 \in 1 .. m + 1
  BY <1>3, <1>4
<1>10. Spelled(chars)[(n * 4 + q) * 6 + (r + 1)] = Bit(chars[n * 4 + q + 1], r + 2)
  BY <1>9, SpelledShape
<1>11. QED
  BY <1>5, <1>6, <1>8, <1>9, <1>10, Zenon

\* Whatever text a client sends as audio, complete or cut short, decode() returns the
\* whole bytes of the bit string its readable characters spell.
THEOREM BitsDecoded == Spec => []DecodesTheBits
<1>1. InputTyped => DecodesTheBits
  <2> SUFFICES ASSUME InputTyped PROVE DecodesTheBits
    OBVIOUS
  <2>1. input \in Seq(Nat)
    <3>1. Items \subseteq Nat
      BY CodecsAssumption DEF Byte
    <3>2. QED
      BY <3>1, WiderSequence DEF InputTyped
  <2>2. PICK chars \in Seq(Sextet) : chars = Readable(input)
    BY <2>1, ReadableType
  <2>3. PICK d : d = decode(input)
    OBVIOUS
  <2>4. Decoded(d, chars)
    BY <2>2, <2>3, DecodeShape
  <2>5. Len(d) \in Nat /\ DOMAIN d = 1 .. Len(d)
    <3>1. d \in Seq(Byte)
      BY <2>4, Zenon DEF Decoded
    <3>2. \A s \in Seq(Byte) : Len(s) \in Nat /\ DOMAIN s = 1 .. Len(s)
      OBVIOUS
    <3>3. QED
      BY <3>1, <3>2, Zenon
  <2>6. Len(d) = Len(Spelled(chars)) \div 8
    <3>1. PICK w \in Nat, k \in 0 .. 3 :
            /\ w = Len(chars) \div 4 /\ k = Len(chars) % 4 /\ Len(chars) = 4 * w + k
      OBVIOUS
    <3>2. Len(d) = 3 * w + (IF k = 0 THEN 0 ELSE k - 1)
      BY <2>4, <3>1 DEF Decoded
    <3>3. Len(Spelled(chars)) = 6 * (4 * w + k)
      BY <3>1, SpelledShape
    <3>4. (6 * (4 * w + k)) \div 8 = 3 * w + (IF k = 0 THEN 0 ELSE k - 1)
      <4>1. k = 0 \/ k = 1 \/ k = 2 \/ k = 3
        OBVIOUS
      <4>2. QED
        BY <4>1
    <3>5. QED
      BY <3>2, <3>3, <3>4
  <2>7. ASSUME NEW k \in DOMAIN d, NEW i \in 1 .. 8
        PROVE  Bit(d[k], i - 1) = Spelled(chars)[8 * (k - 1) + i]
    <3>1. PICK n \in Nat, m \in 1 .. 3 : k = n * 3 + m
      <4>1. (k - 1) \div 3 \in Nat /\ ((k - 1) % 3) + 1 \in 1 .. 3
            /\ k = ((k - 1) \div 3) * 3 + (((k - 1) % 3) + 1)
        BY <2>5
      <4>2. QED
        BY <4>1
    <3>2. n * 3 + m <= Len(d)
      BY <2>5, <3>1
    <3>3. Bit(d[n * 3 + m], i - 1) = Spelled(chars)[8 * (n * 3 + m - 1) + i]
      BY <2>4, <3>2, ByteBits
    <3>4. /\ Bit(d[n * 3 + m], i - 1) = Bit(d[k], i - 1)
          /\ Spelled(chars)[8 * (n * 3 + m - 1) + i] = Spelled(chars)[8 * (k - 1) + i]
      BY <3>1
    <3>5. QED
      BY <3>3, <3>4, Zenon
  <2>8. QED
    BY <2>2, <2>3, <2>6, <2>7, Zenon DEF DecodesTheBits, Spelled
<1>2. QED
  BY <1>1, InputInvariant, PTL

-----------------------------------------------------------------------------
(* FoldSet over the chunks of a file. Like FlattenSeq it chooses a recursive *)
(* function, on the subsets of what it folds over.                           *)

Pick(s) == CHOOSE x \in s : TRUE

\* What is left when the picked index has been folded in.
Rest(s) == s \ {Pick(s)}

\* g folds the sets of indices up to n: h[x] is what index x does to a value.
FoldsUpTo(g, n, base, h) ==
  \A s \in SUBSET (1 .. n) : g[s] = IF s = {} THEN base ELSE h[Pick(s)][g[Rest(s)]]

\* Removing an index from a set makes it smaller by one.
LEMMA Smaller ==
  ASSUME NEW n \in Nat, NEW s \in SUBSET (1 .. n)
  PROVE  /\ Cardinality(s) \in 0 .. n /\ Cardinality(s) \in Nat
         /\ Cardinality(s) = 0 <=> s = {}
         /\ \A x \in s : /\ s \ {x} \in SUBSET (1 .. n)
                         /\ Cardinality(s \ {x}) = Cardinality(s) - 1
         /\ s # {} => Pick(s) \in s
<1>1. IsFiniteSet(1 .. n) /\ Cardinality(1 .. n) = n
  BY FS_Interval
<1>2. IsFiniteSet(s) /\ Cardinality(s) \in Nat /\ Cardinality(s) <= n
  BY <1>1, FS_Subset, FS_CardinalityType
<1>3. \A x \in s : Cardinality(s \ {x}) = Cardinality(s) - 1
  BY <1>2, FS_RemoveElement
<1>4. Cardinality(s) = 0 <=> s = {}
  BY <1>2, FS_EmptySet
<1>5. s # {} => Pick(s) \in s
  BY Zenon DEF Pick
<1>6. QED
  BY <1>2, <1>3, <1>4, <1>5

\* There is such a function, with values of the type that base has and h keeps.
LEMMA FoldExists ==
  ASSUME NEW V, NEW n \in Nat, NEW base \in V, NEW h \in [1 .. n -> [V -> V]]
  PROVE  \E g \in [SUBSET (1 .. n) -> V] : FoldsUpTo(g, n, base, h)
<1> DEFINE Of(g, s) == IF s = {} THEN base ELSE h[Pick(s)][g[Rest(s)]]
           Good(g, k) == \A s \in SUBSET (1 .. n) : Cardinality(s) <= k => g[s] = Of(g, s)
           Bad == {k \in 0 .. n : ~\E g \in [SUBSET (1 .. n) -> V] : Good(g, k)}
<1>1. ASSUME NEW g \in [SUBSET (1 .. n) -> V], NEW s \in SUBSET (1 .. n)
      PROVE  Of(g, s) \in V
  <2>1. CASE s # {}
    <3>1. Pick(s) \in 1 .. n /\ Rest(s) \in SUBSET (1 .. n)
      BY <2>1, Smaller DEF Rest
    <3>2. h[Pick(s)] \in [V -> V] /\ g[Rest(s)] \in V
      BY <3>1
    <3>3. h[Pick(s)][g[Rest(s)]] \in V
      BY <3>2
    <3>4. QED
      BY <2>1, <3>3
  <2>2. QED
    BY <2>1
<1>2. SUFFICES Bad = {}
  <2>1. n \in 0 .. n /\ \A s \in SUBSET (1 .. n) : Cardinality(s) <= n
    BY Smaller
  <2>2. ASSUME Bad = {} PROVE \E g \in [SUBSET (1 .. n) -> V] : Good(g, n)
    <3> HIDE DEF Good
    <3> QED
      BY <2>1, <2>2
  <2>3. ASSUME NEW g, Good(g, n) PROVE FoldsUpTo(g, n, base, h)
    BY <2>1, <2>3, Zenon DEF FoldsUpTo
  <2> HIDE DEF Good, Bad
  <2>4. QED
    BY <2>2, <2>3
<1>3. SUFFICES ASSUME Bad # {} PROVE FALSE
  OBVIOUS
<1>4. PICK k \in Bad : \A j \in Bad : k <= j
  <2>1. Bad \subseteq Nat
    OBVIOUS
  <2> HIDE DEF Bad
  <2>2. QED
    BY <1>3, <2>1, LeastNatural
<1>5. k # 0
  <2>1. Good([s \in SUBSET (1 .. n) |-> base], 0)
    <3>1. \A s \in SUBSET (1 .. n) : Cardinality(s) <= 0 => s = {}
      BY Smaller
    <3>2. QED
      BY <3>1
  <2>2. [s \in SUBSET (1 .. n) |-> base] \in [SUBSET (1 .. n) -> V]
    OBVIOUS
  <2> HIDE DEF Good
  <2>3. QED
    BY <2>1, <2>2
<1>6. PICK g \in [SUBSET (1 .. n) -> V] : Good(g, k - 1)
  <2> HIDE DEF Good
  <2>1. k \in 0 .. n /\ k - 1 \in 0 .. n /\ ~(k <= k - 1)
    BY <1>5
  <2>2. ~(k - 1 \in Bad)
    <3> HIDE DEF Bad
    <3> QED
      BY <1>4, <2>1
  <2>3. QED
    BY <2>1, <2>2
<1> DEFINE wider == [s \in SUBSET (1 .. n) |-> IF Cardinality(s) <= k - 1 THEN g[s] ELSE Of(g, s)]
<1>7. wider \in [SUBSET (1 .. n) -> V]
  <2> HIDE DEF Of
  <2> QED
    BY <1>1
<1>8. Good(wider, k)
  <2> SUFFICES ASSUME NEW s \in SUBSET (1 .. n), Cardinality(s) <= k
               PROVE  wider[s] = Of(wider, s)
    OBVIOUS
  <2>1. wider[s] = Of(g, s)
    <3>1. Cardinality(s) <= k - 1 => g[s] = Of(g, s)
      BY <1>6
    <3> HIDE DEF Of, Good
    <3>2. QED
      BY <3>1
  <2>2. s # {} => wider[Rest(s)] = g[Rest(s)]
    <3>1. ASSUME s # {}
          PROVE Rest(s) \in SUBSET (1 .. n) /\ Cardinality(Rest(s)) <= k - 1
      <4>1. Pick(s) \in s
        BY <3>1, Smaller
      <4>2. Rest(s) \in SUBSET (1 .. n) /\ Cardinality(Rest(s)) = Cardinality(s) - 1
        BY <4>1, Smaller, Zenon DEF Rest
      <4>3. Cardinality(s) \in Nat
        BY Smaller
      <4>4. QED
        BY <4>2, <4>3
    <3> HIDE DEF Of, Good
    <3>2. QED
      BY <3>1
  <2> HIDE DEF wider, Good
  <2>3. QED
    BY <2>1, <2>2
<1> HIDE DEF Good, wider
<1>9. QED
  BY <1>4, <1>7, <1>8

\* What holds of the empty set, and of a set if of all that lack one of its elements,
\* holds of every set of indices.
LEMMA SetInduction ==
  ASSUME NEW n \in Nat, NEW T, {} \in T,
         \A s \in SUBSET (1 .. n) : s # {} /\ (\A x \in s : s \ {x} \in T) => s \in T
  PROVE  \A s \in SUBSET (1 .. n) : s \in T
<1> DEFINE Bad == {Cardinality(s) : s \in {t \in SUBSET (1 .. n) : t \notin T}}
<1> SUFFICES ASSUME Bad # {} PROVE FALSE
  OBVIOUS
<1>1. Bad \subseteq Nat
  <2>1. \A s \in SUBSET (1 .. n) : Cardinality(s) \in Nat
    BY Smaller, Zenon
  <2>2. QED
    BY <2>1
<1>2. PICK k \in Bad : \A j \in Bad : k <= j
  <2> HIDE DEF Bad
  <2>1. QED
    BY <1>1, LeastNatural
<1>3. PICK s \in SUBSET (1 .. n) : s \notin T /\ k = Cardinality(s)
  BY <1>2
<1>4. ASSUME NEW x \in s PROVE s \ {x} \in T
  <2>1. /\ s \ {x} \in SUBSET (1 .. n) /\ Cardinality(s \ {x}) = Cardinality(s) - 1
        /\ Cardinality(s) \in Nat
    BY Smaller, Zenon
  <2>2. ~(k <= Cardinality(s \ {x}))
    BY <1>3, <2>1
  <2>3. s \ {x} \notin T => Cardinality(s \ {x}) \in Bad
    BY <2>1
  <2> HIDE DEF Bad
  <2>4. QED
    BY <1>2, <2>2, <2>3
<1>5. QED
  BY <1>3, <1>4

-----------------------------------------------------------------------------
(* Where chunks start.                                                       *)

\* A chunk; the provers do not know that "data" is a string.
AnyChunk == [id : STRING \cup {"data"}, size : Nat, bytes : Nat, samples : Seq(Int)]

WavFile == {f \in [fmt_size : Nat, format : Nat, channels : Nat \ {0}, bit : Nat \ (0 .. 7),
                   chunks : Seq(AnyChunk)] : WholeSamples(f)}

\* The fields of a file and of its chunks.
LEMMA ChunkTypes ==
  ASSUME NEW f \in WavFile
  PROVE  /\ f.fmt_size \in Nat /\ Len(f.chunks) \in Nat
         /\ DOMAIN f.chunks = 1 .. Len(f.chunks)
         /\ \A k \in 1 .. Len(f.chunks) :
              /\ f.chunks[k] \in AnyChunk
              /\ f.chunks[k].bytes \in Nat /\ f.chunks[k].size \in Nat
              /\ f.chunks[k].samples \in Seq(Int)
<1>1. f.fmt_size \in Nat /\ f.chunks \in Seq(AnyChunk)
  BY DEF WavFile
<1>2. /\ Len(f.chunks) \in Nat /\ DOMAIN f.chunks = 1 .. Len(f.chunks)
      /\ \A k \in 1 .. Len(f.chunks) : f.chunks[k] \in AnyChunk
  BY <1>1
<1>3. \A c \in AnyChunk : c.bytes \in Nat /\ c.size \in Nat /\ c.samples \in Seq(Int)
  BY DEF AnyChunk
<1>4. QED
  BY <1>1, <1>2, <1>3

\* g[s] is the size of the chunks s of f, headers included.
Sizes(f, n, g) ==
  \A s \in SUBSET (1 .. n) :
    g[s] = IF s = {} THEN 0 ELSE g[Rest(s)] + 8 + f.chunks[Pick(s)].bytes

\* ChunkStart adds up the sizes of the chunks before.
LEMMA StartAddsUp ==
  ASSUME NEW f \in WavFile, NEW n \in 0 .. Len(f.chunks)
  PROVE  \E g : /\ g \in [SUBSET (1 .. n) -> Nat] /\ Sizes(f, n, g)
                /\ ChunkStart(f, n + 1) = 20 + f.fmt_size + g[1 .. n]
<1> DEFINE Step(g) == [s \in SUBSET (1 .. n) |->
             IF s = {} THEN 0 ELSE g[s \ {CHOOSE x \in s : TRUE}]
                                     + 8 + f.chunks[CHOOSE x \in s : TRUE].bytes]
           h == CHOOSE g : g = Step(g)
           add == [x \in 1 .. n |-> [v \in Nat |-> v + 8 + f.chunks[x].bytes]]
<1>1. \A x \in 1 .. n : f.chunks[x].bytes \in Nat
  <2>1. 1 .. n \subseteq 1 .. Len(f.chunks)
    BY ChunkTypes
  <2>2. QED
    BY <2>1, ChunkTypes
<1>2. add \in [1 .. n -> [Nat -> Nat]]
  BY <1>1
<1>3. PICK g \in [SUBSET (1 .. n) -> Nat] : FoldsUpTo(g, n, 0, add)
  <2> HIDE DEF add
  <2>1. n \in Nat /\ 0 \in Nat
    OBVIOUS
  <2>2. QED
    BY <1>2, <2>1, FoldExists, Zenon
<1>4. Sizes(f, n, g)
  <2> SUFFICES ASSUME NEW s \in SUBSET (1 .. n), s # {}
               PROVE  add[Pick(s)][g[Rest(s)]] = g[Rest(s)] + 8 + f.chunks[Pick(s)].bytes
    BY <1>3 DEF FoldsUpTo, Sizes
  <2>1. Pick(s) \in 1 .. n /\ Rest(s) \in SUBSET (1 .. n)
    <3>1. n \in Nat /\ Pick(s) \in s
      BY Smaller
    <3>2. QED
      BY <3>1 DEF Rest
  <2>2. g[Rest(s)] \in Nat
    BY <2>1
  <2>3. QED
    BY <2>1, <2>2
<1> HIDE DEF add
<1>5. g = Step(g)
  BY <1>4 DEF Sizes, Rest, Pick
<1>6. h = Step(h)
  BY <1>5, Zenon
<1>7. ChunkStart(f, n + 1) = 20 + f.fmt_size + h[1 .. n]
  <2>1. FoldSet(LAMBDA j, sum : sum + 8 + f.chunks[j].bytes, 0, 1 .. n) = h[1 .. n]
    BY Zenon DEF FoldSet, MapThenFoldSet
  <2>2. (n + 1) - 1 = n
    OBVIOUS
  <2>3. QED
    BY <2>1, <2>2, Zenon DEF ChunkStart
<1>8. \A s \in SUBSET (1 .. n) : s \in {t \in SUBSET (1 .. n) : g[t] = h[t]}
  <2> DEFINE Same == {t \in SUBSET (1 .. n) : g[t] = h[t]}
  <2>1. {} \in Same
    BY <1>5, <1>6
  <2>2. ASSUME NEW s \in SUBSET (1 .. n), s # {}, \A x \in s : s \ {x} \in Same
        PROVE  s \in Same
    <3>1. Pick(s) \in s
      BY <2>2, Smaller
    <3>2. g[Rest(s)] = h[Rest(s)]
      BY <2>2, <3>1 DEF Rest
    <3>3. g[s] = g[Rest(s)] + 8 + f.chunks[Pick(s)].bytes
      BY <1>4, <2>2 DEF Sizes
    <3>4. h[s] = h[Rest(s)] + 8 + f.chunks[Pick(s)].bytes
      <4>1. h[s] = Step(h)[s]
        BY <1>6, Zenon
      <4> HIDE DEF h
      <4>2. QED
        BY <2>2, <4>1 DEF Rest, Pick
    <3>5. QED
      BY <3>2, <3>3, <3>4
  <2> HIDE DEF Same, h
  <2>3. n \in Nat
    OBVIOUS
  <2>4. \A s \in SUBSET (1 .. n) : s \in Same
    BY <2>1, <2>2, <2>3, SetInduction
  <2>5. QED
    BY <2>4, Zenon DEF Same
<1>9. g[1 .. n] = h[1 .. n]
  BY <1>8
<1>10. QED
  BY <1>3, <1>4, <1>7, <1>9

\* The order in which the sizes are added does not matter.
LEMMA OrderFree ==
  ASSUME NEW f \in WavFile, NEW n \in 0 .. Len(f.chunks),
         NEW g \in [SUBSET (1 .. n) -> Nat], Sizes(f, n, g)
  PROVE  \A s \in SUBSET (1 .. n) : \A x \in s : g[s] = g[s \ {x}] + 8 + f.chunks[x].bytes
<1> DEFINE T == {s \in SUBSET (1 .. n) :
                   \A x \in s : g[s] = g[s \ {x}] + 8 + f.chunks[x].bytes}
<1>1. \A x \in 1 .. n : f.chunks[x].bytes \in Nat
  <2>1. 1 .. n \subseteq 1 .. Len(f.chunks)
    BY ChunkTypes
  <2>2. QED
    BY <2>1, ChunkTypes
<1>2. {} \in T
  OBVIOUS
<1>3. ASSUME NEW s \in SUBSET (1 .. n), s # {}, \A x \in s : s \ {x} \in T
      PROVE  s \in T
  <2>1. n \in Nat /\ Pick(s) \in s
    BY <1>3, Smaller
  <2>2. g[s] = g[s \ {Pick(s)}] + 8 + f.chunks[Pick(s)].bytes
    BY <1>3 DEF Sizes, Rest
  <2>3. PICK y \in s : y = Pick(s)
    BY <2>1
  <2>4. ASSUME NEW x \in s, x # y
        PROVE  g[s] = g[s \ {x}] + 8 + f.chunks[x].bytes
    <3>1. x \in s \ {y} /\ y \in s \ {x} /\ (s \ {y}) \ {x} = (s \ {x}) \ {y}
      BY <2>4
    <3>2. g[s \ {y}] = g[(s \ {y}) \ {x}] + 8 + f.chunks[x].bytes
      BY <1>3, <3>1
    <3>3. g[s \ {x}] = g[(s \ {x}) \ {y}] + 8 + f.chunks[y].bytes
      BY <1>3, <3>1
    <3>4. g[s] = g[s \ {y}] + 8 + f.chunks[y].bytes
      BY <2>2, <2>3
    <3>5. PICK v \in Nat, b \in Nat, c \in Nat :
            v = g[(s \ {y}) \ {x}] /\ b = f.chunks[x].bytes /\ c = f.chunks[y].bytes
      <4>1. (s \ {y}) \ {x} \in SUBSET (1 .. n) /\ x \in 1 .. n /\ y \in 1 .. n
        OBVIOUS
      <4>2. g[(s \ {y}) \ {x}] \in Nat
        BY <4>1
      <4>3. QED
        BY <1>1, <4>1, <4>2
    <3>6. g[s \ {y}] = v + 8 + b /\ g[s \ {x}] = v + 8 + c
      BY <3>1, <3>2, <3>3, <3>5, Zenon
    <3>7. g[s] = v + 8 + b + 8 + c
      BY <3>4, <3>5, <3>6
    <3>8. g[s \ {x}] + 8 + f.chunks[x].bytes = v + 8 + c + 8 + b
      BY <3>5, <3>6
    <3>9. v + 8 + b + 8 + c = v + 8 + c + 8 + b
      OBVIOUS
    <3>10. QED
      BY <3>7, <3>8, <3>9
  <2>5. QED
    BY <2>2, <2>3, <2>4
<1> HIDE DEF T
<1>4. n \in Nat
  OBVIOUS
<1>5. \A s \in SUBSET (1 .. n) : s \in T
  BY <1>2, <1>3, <1>4, SetInduction
<1>6. QED
  BY <1>5, Zenon DEF T

\* Adding up more chunks does not change the sizes of the first ones.
LEMMA SizesAgree ==
  ASSUME NEW f \in WavFile, NEW n \in Nat, NEW g, NEW h,
         Sizes(f, n, g), Sizes(f, n + 1, h)
  PROVE  g[1 .. n] = h[1 .. n]
<1> DEFINE T == {s \in SUBSET (1 .. n) : g[s] = h[s]}
<1>1. \A s \in SUBSET (1 .. n) : s \in SUBSET (1 .. n + 1)
  OBVIOUS
<1>2. {} \in T
  BY <1>1 DEF Sizes
<1>3. ASSUME NEW s \in SUBSET (1 .. n), s # {}, \A x \in s : s \ {x} \in T
      PROVE  s \in T
  <2>1. Pick(s) \in s
    BY <1>3, Smaller
  <2>2. g[Rest(s)] = h[Rest(s)]
    BY <1>3, <2>1 DEF Rest
  <2>3. /\ g[s] = g[Rest(s)] + 8 + f.chunks[Pick(s)].bytes
        /\ h[s] = h[Rest(s)] + 8 + f.chunks[Pick(s)].bytes
    BY <1>1, <1>3, Zenon DEF Sizes
  <2>4. QED
    BY <2>2, <2>3
<1> HIDE DEF T
<1>4. \A s \in SUBSET (1 .. n) : s \in T
  BY <1>2, <1>3, SetInduction
<1>5. QED
  BY <1>4 DEF T

\* The first chunk follows the format, and each one the chunk before it.
LEMMA NextStart ==
  ASSUME NEW f \in WavFile
  PROVE  /\ ChunkStart(f, 1) = 20 + f.fmt_size
         /\ \A k \in 1 .. Len(f.chunks) + 1 : ChunkStart(f, k) \in Nat
         /\ \A k \in 1 .. Len(f.chunks) :
              ChunkStart(f, k + 1) = ChunkStart(f, k) + 8 + f.chunks[k].bytes
<1>1. f.fmt_size \in Nat /\ Len(f.chunks) \in Nat
  BY ChunkTypes
<1>2. ChunkStart(f, 1) = 20 + f.fmt_size
  <2>1. 0 \in 0 .. Len(f.chunks) /\ 0 + 1 = 1
    BY <1>1
  <2>2. PICK g : Sizes(f, 0, g) /\ ChunkStart(f, 1) = 20 + f.fmt_size + g[1 .. 0]
    BY <2>1, StartAddsUp
  <2>3. g[1 .. 0] = 0
    <3>1. 1 .. 0 = {} /\ 1 .. 0 \in SUBSET (1 .. 0)
      OBVIOUS
    <3>2. QED
      BY <2>2, <3>1, Zenon DEF Sizes
  <2>4. QED
    BY <1>1, <2>2, <2>3
<1>3. ASSUME NEW k \in 1 .. Len(f.chunks) + 1
      PROVE  ChunkStart(f, k) \in Nat
  <2>1. PICK n \in 0 .. Len(f.chunks) : k = n + 1
    BY <1>1
  <2>2. PICK g : g \in [SUBSET (1 .. n) -> Nat] /\ ChunkStart(f, k) = 20 + f.fmt_size + g[1 .. n]
    BY <2>1, StartAddsUp
  <2>3. g[1 .. n] \in Nat
    BY <2>2
  <2>4. QED
    BY <1>1, <2>2, <2>3
<1>4. ASSUME NEW k \in 1 .. Len(f.chunks)
      PROVE  ChunkStart(f, k + 1) = ChunkStart(f, k) + 8 + f.chunks[k].bytes
  <2>1. PICK n \in Nat : k = n + 1
    BY <1>1
  <2>2. n \in 0 .. Len(f.chunks) /\ k \in 0 .. Len(f.chunks)
    BY <1>1, <2>1
  <2>3. PICK g : /\ g \in [SUBSET (1 .. n) -> Nat] /\ Sizes(f, n, g)
                 /\ ChunkStart(f, k) = 20 + f.fmt_size + g[1 .. n]
    BY <2>1, <2>2, StartAddsUp
  <2>4. PICK h : /\ h \in [SUBSET (1 .. k) -> Nat] /\ Sizes(f, k, h)
                 /\ ChunkStart(f, k + 1) = 20 + f.fmt_size + h[1 .. k]
    BY <2>2, StartAddsUp
  <2>5. g[1 .. n] = h[1 .. n]
    BY <2>1, <2>3, <2>4, SizesAgree
  <2>6. h[1 .. k] = h[1 .. n] + 8 + f.chunks[k].bytes
    <3>1. k \in 1 .. k /\ (1 .. k) \ {k} = 1 .. n /\ 1 .. k \in SUBSET (1 .. k)
      BY <1>1, <2>1
    <3>2. \A s \in SUBSET (1 .. k) : \A x \in s : h[s] = h[s \ {x}] + 8 + f.chunks[x].bytes
      BY <2>2, <2>4, OrderFree
    <3>3. QED
      BY <3>1, <3>2, Zenon
  <2>7. g[1 .. n] \in Nat /\ h[1 .. k] \in Nat /\ f.chunks[k].bytes \in Nat
    BY <2>3, <2>4, ChunkTypes
  <2>8. \A p, a, b, c, d \in Nat : b = a + 8 + c /\ d = 20 + p + a => 20 + p + b = d + 8 + c
    OBVIOUS
  <2>9. ChunkStart(f, k) \in Nat
    BY <1>3, <2>2, <1>1
  <2>10. h[1 .. k] = g[1 .. n] + 8 + f.chunks[k].bytes
    BY <2>5, <2>6, Zenon
  <2>11. 20 + f.fmt_size + h[1 .. k] = ChunkStart(f, k) + 8 + f.chunks[k].bytes
    <3>1. PICK p \in Nat, a \in Nat, b \in Nat, c \in Nat, d \in Nat :
            /\ p = f.fmt_size /\ a = g[1 .. n] /\ b = h[1 .. k]
            /\ c = f.chunks[k].bytes /\ d = ChunkStart(f, k)
      BY <1>1, <2>7, <2>9
    <3>2. b = a + 8 + c /\ d = 20 + p + a
      BY <2>3, <2>10, <3>1, Zenon
    <3>3. 20 + p + b = d + 8 + c
      BY <2>8, <3>2
    <3>4. QED
      BY <3>1, <3>3, Zenon
  <2>12. QED
    BY <2>4, <2>11, Zenon
<1>5. QED
  BY <1>2, <1>3, <1>4

\* Intervals that follow one another do not overlap.
LEMMA OneAfterAnother ==
  ASSUME NEW l \in Nat, NEW at \in [1 .. l + 1 -> Nat], NEW size \in [1 .. l -> Nat],
         \A k \in 1 .. l : at[k + 1] = at[k] + 8 + size[k]
  PROVE  \A j \in 1 .. l : \A k \in j + 1 .. l + 1 : at[j] + 8 + size[j] <= at[k]
<1> SUFFICES ASSUME NEW j \in 1 .. l
             PROVE  \A k \in j + 1 .. l + 1 : at[j] + 8 + size[j] <= at[k]
  OBVIOUS
<1> DEFINE Bad == {k \in j + 1 .. l + 1 : ~(at[j] + 8 + size[j] <= at[k])}
<1> SUFFICES ASSUME Bad # {} PROVE FALSE
  OBVIOUS
<1>1. PICK i \in Bad : \A h \in Bad : i <= h
  <2>1. Bad \subseteq Nat
    OBVIOUS
  <2> HIDE DEF Bad
  <2>2. QED
    BY <2>1, LeastNatural
<1>2. i \in j + 1 .. l + 1 /\ ~(at[j] + 8 + size[j] <= at[i])
  OBVIOUS
<1>3. PICK e \in Nat : e = at[j] + 8 + size[j]
  <2>1. at[j] \in Nat /\ size[j] \in Nat
    OBVIOUS
  <2>2. QED
    BY <2>1
<1> HIDE DEF Bad
<1>4. i # j + 1
  <2>1. at[j + 1] = e
    BY <1>3
  <2>2. QED
    BY <1>2, <1>3, <2>1
<1>5. PICK p \in j + 1 .. l : i = p + 1
  BY <1>2, <1>4
<1>6. at[p + 1] = at[p] + 8 + size[p] /\ at[p] \in Nat /\ size[p] \in Nat
  <2>1. p \in 1 .. l /\ p \in 1 .. l + 1
    OBVIOUS
  <2>2. QED
    BY <2>1
<1>7. ~(e <= at[p])
  <2>1. ~(e <= at[p] + 8 + size[p])
    BY <1>2, <1>3, <1>5, <1>6
  <2>2. \A a, b \in Nat : ~(e <= a + 8 + b) => ~(e <= a)
    OBVIOUS
  <2>3. QED
    BY <1>6, <2>1, <2>2
<1>8. p \in Bad
  <2>1. p \in j + 1 .. l + 1
    OBVIOUS
  <2>2. QED
    BY <1>3, <1>7, <2>1 DEF Bad
<1>9. ~(i <= p)
  BY <1>5
<1>10. QED
  BY <1>1, <1>8, <1>9

\* So chunks lie behind one another, headers and all.
LEMMA StartsIncrease ==
  ASSUME NEW f \in WavFile, NEW j \in 1 .. Len(f.chunks), NEW k \in 1 .. Len(f.chunks) + 1, j < k
  PROVE  ChunkStart(f, j) + 8 + f.chunks[j].bytes <= ChunkStart(f, k)
<1>1. PICK l \in Nat : l = Len(f.chunks)
  BY ChunkTypes
<1> DEFINE at == [i \in 1 .. l + 1 |-> ChunkStart(f, i)]
           size == [i \in 1 .. l |-> f.chunks[i].bytes]
<1>2. at \in [1 .. l + 1 -> Nat] /\ size \in [1 .. l -> Nat]
  BY <1>1, NextStart, ChunkTypes
<1>3. ASSUME NEW i \in 1 .. l PROVE at[i + 1] = at[i] + 8 + size[i]
  <2>1. ChunkStart(f, i + 1) = ChunkStart(f, i) + 8 + f.chunks[i].bytes
    BY <1>1, NextStart
  <2>2. i \in 1 .. l + 1 /\ i + 1 \in 1 .. l + 1
    OBVIOUS
  <2>3. QED
    BY <2>1, <2>2
<1>4. /\ j \in 1 .. l /\ k \in j + 1 .. l + 1 /\ k \in 1 .. l + 1 /\ j \in 1 .. l + 1
      /\ at[j] = ChunkStart(f, j) /\ at[k] = ChunkStart(f, k) /\ size[j] = f.chunks[j].bytes
  BY <1>1
<1> HIDE DEF at, size
<1>5. at[j] + 8 + size[j] <= at[k]
  BY <1>2, <1>3, <1>4, OneAfterAnother
<1>6. QED
  BY <1>4, <1>5, Zenon

-----------------------------------------------------------------------------
(* What Open() finds there.                                                  *)

\* A chunk's header is read at its start, and nowhere else.
LEMMA HeaderOfChunk ==
  ASSUME file \in WavFile, NEW k \in 1 .. Len(file.chunks)
  PROVE  /\ HeaderAt(ChunkStart(file, k)) = [id |-> file.chunks[k].id, size |-> file.chunks[k].size]
         /\ \A j \in 1 .. Len(file.chunks) : ChunkStart(file, j) = ChunkStart(file, k) => j = k
<1>1. ASSUME NEW j \in 1 .. Len(file.chunks), ChunkStart(file, j) = ChunkStart(file, k)
      PROVE  j = k
  <2>1. Len(file.chunks) \in Nat /\ ChunkStart(file, j) \in Nat /\ ChunkStart(file, k) \in Nat
        /\ file.chunks[j].bytes \in Nat /\ file.chunks[k].bytes \in Nat
    BY ChunkTypes, NextStart
  <2>2. j < k => ChunkStart(file, j) + 8 + file.chunks[j].bytes <= ChunkStart(file, k)
    BY <2>1, StartsIncrease
  <2>3. k < j => ChunkStart(file, k) + 8 + file.chunks[k].bytes <= ChunkStart(file, j)
    BY <2>1, StartsIncrease
  <2>4. \A a, b \in Nat : ~(a + 8 + b <= a)
    OBVIOUS
  <2>5. ~(j < k) /\ ~(k < j)
    BY <1>1, <2>1, <2>2, <2>3, <2>4
  <2>6. QED
    BY <2>1, <2>5
<1>2. {j \in DOMAIN file.chunks : ChunkStart(file, j) = ChunkStart(file, k)} = {k}
  BY <1>1, ChunkTypes
<1>3. Min({k}) = k
  <2>1. \A x \in {k} : x = k /\ k <= k
    BY ChunkTypes
  <2>2. QED
    BY <2>1, Zenon DEF Min
<1>4. QED
  BY <1>1, <1>2, <1>3, Zenon DEF HeaderAt

\* The fold in SampleAt finds the samples of the chunk at pos.
LEMMA SamplesOfChunk ==
  ASSUME file \in WavFile, NEW k \in 1 .. Len(file.chunks), pos = ChunkStart(file, k) + 8
  PROVE  FoldSet(LAMBDA j, s : IF ChunkStart(file, j) + 8 = pos
                               THEN file.chunks[j].samples ELSE s,
                 <<>>, DOMAIN file.chunks) = file.chunks[k].samples
<1> DEFINE n == Len(file.chunks)
           Step(g) == [s \in SUBSET DOMAIN file.chunks |->
             IF s = {} THEN <<>>
             ELSE IF ChunkStart(file, CHOOSE x \in s : TRUE) + 8 = pos
                  THEN file.chunks[CHOOSE x \in s : TRUE].samples
                  ELSE g[s \ {CHOOSE x \in s : TRUE}]]
           h == CHOOSE g : g = Step(g)
           f == [s \in SUBSET DOMAIN file.chunks |-> IF k \in s THEN file.chunks[k].samples ELSE <<>>]
<1>1. n \in Nat /\ DOMAIN file.chunks = 1 .. n
  BY ChunkTypes
<1>2. \A j \in 1 .. n : ChunkStart(file, j) + 8 = pos <=> j = k
  <2>1. ChunkStart(file, k) \in Nat
    BY <1>1, NextStart
  <2>2. ASSUME NEW j \in 1 .. n, ChunkStart(file, j) + 8 = pos PROVE j = k
    <3>1. ChunkStart(file, j) \in Nat
      BY <1>1, NextStart
    <3>2. ChunkStart(file, j) = ChunkStart(file, k)
      BY <2>1, <2>2, <3>1
    <3>3. QED
      BY <3>2, HeaderOfChunk
  <2>3. QED
    BY <2>2
<1>3. ASSUME NEW s \in SUBSET (1 .. n), s # {}
      PROVE  Pick(s) \in s /\ Pick(s) \in 1 .. n /\ Rest(s) \in SUBSET (1 .. n)
             /\ (Pick(s) # k => (k \in s <=> k \in Rest(s)))
  <2>1. Pick(s) \in s
    BY <1>1, <1>3, Smaller
  <2>2. QED
    BY <2>1 DEF Rest
<1>4. ASSUME NEW s \in SUBSET (1 .. n)
      PROVE  f[s] = Step(f)[s]
  <2>1. CASE s = {}
    BY <1>1, <2>1
  <2>2. CASE s # {}
    <3>1. Step(f)[s] = IF ChunkStart(file, Pick(s)) + 8 = pos THEN file.chunks[Pick(s)].samples
                       ELSE f[Rest(s)]
      <4> HIDE DEF f
      <4> QED
        BY <1>1, <2>2 DEF Pick, Rest
    <3>2. CASE Pick(s) = k
      <4>1. k \in s
        BY <1>3, <2>2, <3>2
      <4>2. Step(f)[s] = file.chunks[k].samples
        BY <1>2, <3>1, <3>2
      <4>3. QED
        BY <1>1, <4>1, <4>2
    <3>3. CASE Pick(s) # k
      <4>1. ChunkStart(file, Pick(s)) + 8 # pos
        BY <1>2, <1>3, <2>2, <3>3
      <4>2. Step(f)[s] = f[Rest(s)]
        BY <3>1, <4>1, Zenon
      <4>3. f[Rest(s)] = f[s]
        BY <1>1, <1>3, <2>2, <3>3
      <4>4. QED
        BY <4>2, <4>3, Zenon
    <3>4. QED
      BY <3>2, <3>3
  <2>3. QED
    BY <2>1, <2>2
<1>5. f = Step(f)
  <2>1. DOMAIN f = SUBSET (1 .. n) /\ f = [s \in SUBSET (1 .. n) |-> f[s]]
    BY <1>1
  <2>2. Step(f) = [s \in SUBSET (1 .. n) |-> Step(f)[s]]
    BY <1>1
  <2> HIDE DEF f, Step
  <2>3. QED
    BY <1>4, <2>1, <2>2
<1>6. h = Step(h)
  <2> HIDE DEF f
  <2> QED
    BY <1>5, Zenon
<1>7. \A s \in SUBSET (1 .. n) : s \in {t \in SUBSET (1 .. n) : f[t] = h[t]}
  <2> DEFINE Same == {t \in SUBSET (1 .. n) : f[t] = h[t]}
  <2> HIDE DEF h, f
  <2>1. {} \in Same
    BY <1>1, <1>5, <1>6
  <2>2. ASSUME NEW s \in SUBSET (1 .. n), s # {}, \A x \in s : s \ {x} \in Same
        PROVE  s \in Same
    <3>1. f[Rest(s)] = h[Rest(s)]
      BY <1>3, <2>2 DEF Rest
    <3>2. f[s] = IF ChunkStart(file, Pick(s)) + 8 = pos THEN file.chunks[Pick(s)].samples
                 ELSE f[Rest(s)]
      <4>1. f[s] = Step(f)[s]
        BY <1>5, Zenon
      <4>2. QED
        BY <1>1, <2>2, <4>1 DEF Pick, Rest
    <3>3. h[s] = IF ChunkStart(file, Pick(s)) + 8 = pos THEN file.chunks[Pick(s)].samples
                 ELSE h[Rest(s)]
      <4>1. h[s] = Step(h)[s]
        BY <1>6, Zenon
      <4>2. QED
        BY <1>1, <2>2, <4>1 DEF Pick, Rest
    <3>4. QED
      BY <3>1, <3>2, <3>3
  <2> HIDE DEF Same
  <2>3. \A s \in SUBSET (1 .. n) : s \in Same
    BY <1>1, <2>1, <2>2, SetInduction
  <2>4. QED
    BY <2>3, Zenon DEF Same
<1>8. h[1 .. n] = file.chunks[k].samples
  <2>1. f[1 .. n] = h[1 .. n]
    BY <1>7
  <2>2. f[1 .. n] = file.chunks[k].samples
    BY <1>1
  <2>3. QED
    BY <2>1, <2>2
<1>9. QED
  BY <1>1, <1>8, Zenon DEF FoldSet, MapThenFoldSet

-----------------------------------------------------------------------------
(* Open() on a file another program, or WavWriter, has written.              *)

\* A sound file has a first data chunk.
LEMMA FirstDataFound ==
  ASSUME NEW f \in WavFile, Sound(f)
  PROVE  /\ FirstData(f) \in 1 .. Len(f.chunks) /\ f.chunks[FirstData(f)].id = "data"
         /\ \A j \in 1 .. FirstData(f) - 1 : f.chunks[j].id # "data"
<1> DEFINE Datas == {k \in 1 .. Len(f.chunks) : f.chunks[k].id = "data"}
<1>1. DOMAIN f.chunks = 1 .. Len(f.chunks) /\ Len(f.chunks) \in Nat
  BY ChunkTypes
<1>2. PICK k \in Datas : \A j \in Datas : k <= j
  <2>1. Datas # {} /\ Datas \subseteq Nat
    BY <1>1 DEF Sound
  <2> HIDE DEF Datas
  <2>2. QED
    BY <2>1, LeastNatural
<1>3. \A j \in 1 .. k - 1 : f.chunks[j].id # "data"
  BY <1>1, <1>2
<1>4. \E i \in DOMAIN f.chunks : f.chunks[i].id = "data" /\ \A j \in 1 .. i - 1 : f.chunks[j].id # "data"
  BY <1>1, <1>3
<1>5. QED
  BY <1>1, <1>4, Zenon DEF FirstData

\* header describes chunk k, and pos is behind that header.
AtChunk(k) ==
  /\ k \in 1 .. Len(file.chunks) /\ pos = ChunkStart(file, k) + 8
  /\ header = [id |-> file.chunks[k].id, size |-> file.chunks[k].size]

\* Reading a header where a chunk starts.
LEMMA ReadsHeader ==
  ASSUME file \in WavFile, file' = file, NEW k \in 1 .. Len(file.chunks),
         SeekAndRead(ChunkStart(file, k))
  PROVE  AtChunk(k)'
<1>1. Len(file.chunks) \in Nat /\ ChunkStart(file, k) \in Nat /\ file.chunks[k].bytes \in Nat
  BY ChunkTypes, NextStart
<1>2. ChunkStart(file, k) + 8 + file.chunks[k].bytes <= Length(file) /\ Length(file) \in Nat
  <2>1. Len(file.chunks) + 1 \in 1 .. Len(file.chunks) + 1 /\ k < Len(file.chunks) + 1
    BY <1>1
  <2>2. QED
    BY <2>1, StartsIncrease, NextStart DEF Length
<1>3. PICK p \in Nat, l \in Nat : p = ChunkStart(file, k) + 8 /\ l = Length(file) /\ p <= l
  <2>1. \A a, b, l \in Nat : a + 8 + b <= l => a + 8 <= l /\ a + 8 \in Nat
    OBVIOUS
  <2>2. QED
    BY <1>1, <1>2, <2>1
<1>4. Min({p, l}) = p
  <2>1. \A x \in {p, l} : (\A y \in {p, l} : x <= y) <=> x = p
    BY <1>3
  <2>2. QED
    BY <2>1, Zenon DEF Min
<1>5. header' = [id |-> file.chunks[k].id, size |-> file.chunks[k].size]
  BY HeaderOfChunk DEF SeekAndRead
<1>6. pos' = ChunkStart(file, k) + 8
  BY <1>3, <1>4 DEF SeekAndRead
<1>7. QED
  BY <1>5, <1>6 DEF AtChunk

\* Whether Open() is among the chunks before the samples, and then at the samples.
ReaderInv ==
  /\ file \in WavFile
  /\ recording # NoRecording => recording \in Recordings /\ file \in Written(recording)
  /\ Sound(file) =>
       /\ pc = "skip" => \E k \in 1 .. FirstData(file) : AtChunk(k)
       /\ pc = "size" => LET k == FirstData(file) IN
            /\ pos = ChunkStart(file, k) + 8
            /\ header.size = file.chunks[k].bytes
  /\ FindsTheSamples

\* Division of natural numbers.
LEMMA Quotient ==
  ASSUME NEW x \in Nat, NEW d \in Nat \ {0}
  PROVE  /\ x \div d \in Nat /\ 0 <= (x \div d) * d
         /\ (x \div d) * d <= x /\ x < (x \div d) * d + d
OBVIOUS

\* The cast gives the whole part of a float.
LEMMA TruncatedIsWhole ==
  ASSUME NEW x \in Int
  PROVE  Truncated(x) \in Int /\ NextToZero(Truncated(x), x)
<1>1. Parts \in Nat \ {0}
  BY WavAssumption
<1>2. CASE x >= 0
  BY <1>1, <1>2, Quotient DEF Truncated, NextToZero
<1>3. CASE x < 0
  <2>1. -x \in Nat
    BY <1>3
  <2>2. PICK q \in Nat : /\ q = (-x) \div Parts /\ 0 <= q * Parts
                         /\ q * Parts <= -x /\ -x < q * Parts + Parts
    BY <1>1, <2>1, Quotient
  <2>3. Truncated(x) = -q
    BY <1>3, <2>2 DEF Truncated
  <2>4. PICK p \in Nat : p = q * Parts /\ (-q) * Parts = -p
    BY <1>1
  <2>5. QED
    BY <1>1, <2>2, <2>3, <2>4 DEF NextToZero
<1>4. QED
  BY <1>2, <1>3

\* What WavWriter stores is an integer.
LEMMA StoredIsInteger ==
  ASSUME NEW r \in Recording, NEW n \in Nat, NEW i \in 1 .. n,
         NEW wild \in [1 .. n -> {m \in Outcomes : Fits(m, r.bit)}]
  PROVE  Stored(r, i, wild) \in Int
<1>1. wild[i] \in Int
  BY WavAssumption DEF Exact
<1>2. i \in DOMAIN r.data => Truncated(r.data[i]) \in Int
  <2>1. r.data \in Seq(Int)
    BY DEF Recording
  <2>2. i \in DOMAIN r.data => r.data[i] \in Int
    BY <2>1
  <2>3. QED
    BY <2>2, TruncatedIsWhole, Zenon
<1>3. QED
  BY <1>1, <1>2 DEF Stored

\* A data chunk of a file, built from its parts.
LEMMA ChunkBuilt ==
  ASSUME NEW n \in Nat, NEW m \in Nat, NEW s \in Seq(Int)
  PROVE  [id |-> "data", size |-> n, bytes |-> m, samples |-> s] \in AnyChunk
<1>1. "data" \in STRING \cup {"data"}
  OBVIOUS
<1>2. \A i \in STRING \cup {"data"} :
        [id |-> i, size |-> n, bytes |-> m, samples |-> s] \in AnyChunk
  BY DEF AnyChunk
<1>3. QED
  BY <1>1, <1>2

\* A file of one chunk of whole samples.
LEMMA OneChunkFile ==
  ASSUME NEW f, NEW bit \in Nat \ (0 .. 7), NEW channels \in Nat \ {0}, NEW c \in AnyChunk,
         f = [fmt_size |-> 16, format |-> 1, channels |-> channels, bit |-> bit,
              chunks |-> <<c>>],
         c.bytes = Len(c.samples) * (bit \div 8)
  PROVE  f \in WavFile
<1>1. f.chunks \in Seq(AnyChunk) /\ DOMAIN f.chunks = {1} /\ f.chunks[1] = c /\ f.bit = bit
  OBVIOUS
<1>2. WholeSamples(f)
  BY <1>1 DEF WholeSamples
<1>3. f \in [fmt_size : Nat, format : Nat, channels : Nat \ {0}, bit : Nat \ (0 .. 7),
             chunks : Seq(AnyChunk)]
  BY <1>1
<1>4. QED
  BY <1>2, <1>3 DEF WavFile

\* What WavWriter writes is a file: every sample of every channel, and of a float whose
\* whole part fits, that.
LEMMA WrittenHas ==
  ASSUME NEW r \in Recording, NEW f \in Written(r)
  PROVE  /\ f \in WavFile
         /\ f.format = 1 /\ f.channels = r.channels /\ f.bit = r.bit /\ Len(f.chunks) = 1
         /\ Supported(1, r.bit) =>
              /\ Len(f.chunks[1].samples) = r.num_samples * r.channels
              /\ \A i \in DOMAIN f.chunks[1].samples \cap DOMAIN r.data :
                   Fits(Truncated(r.data[i]), r.bit) =>
                     f.chunks[1].samples[i] = Truncated(r.data[i])
<1>1. PICK count \in Nat, width \in Nat, size \in Nat :
        /\ count = r.num_samples * r.channels /\ width = r.bit \div 8 /\ size = count * width
        /\ 0 = 0 * width
  <2>1. r.num_samples \in Nat /\ r.channels \in Nat /\ r.bit \in Nat
    BY DEF Recording
  <2>2. \A a, b \in Nat : a * b \in Nat /\ 0 = 0 * b /\ a \div 8 \in Nat
    OBVIOUS
  <2>3. r.num_samples * r.channels \in Nat /\ r.bit \div 8 \in Nat
    BY <2>1, <2>2
  <2>4. (r.num_samples * r.channels) * (r.bit \div 8) \in Nat /\ 0 = 0 * (r.bit \div 8)
    BY <2>2, <2>3
  <2>5. QED
    BY <2>3, <2>4
<1>2. PICK wild \in [1 .. count -> {n \in Outcomes : Fits(n, r.bit)}] :
        f = [fmt_size |-> 16, format |-> 1, channels |-> r.channels, bit |-> r.bit,
             chunks |-> <<[id |-> "data", size |-> size,
                           bytes |-> IF Supported(1, r.bit) THEN size ELSE 0,
                           samples |-> IF Supported(1, r.bit)
                                       THEN [i \in 1 .. count |-> Stored(r, i, wild)]
                                       ELSE <<>>]>>]
  BY <1>1, Zenon DEF Written
<1> DEFINE stored == [i \in 1 .. count |-> Stored(r, i, wild)]
<1>3. stored \in Seq(Int) /\ Len(stored) = count
  <2>1. \A i \in 1 .. count : Stored(r, i, wild) \in Int
    BY <1>1, <1>2, StoredIsInteger
  <2>2. QED
    BY <1>1, <2>1
<1>4. \A i \in DOMAIN stored \cap DOMAIN r.data :
        Fits(Truncated(r.data[i]), r.bit) => stored[i] = Truncated(r.data[i])
  BY DEF Stored
<1> HIDE DEF stored
<1>5. PICK c \in AnyChunk :
        /\ f = [fmt_size |-> 16, format |-> 1, channels |-> r.channels, bit |-> r.bit,
                chunks |-> <<c>>]
        /\ c.bytes = Len(c.samples) * width
        /\ Supported(1, r.bit) => c.samples = stored
  <2>1. CASE Supported(1, r.bit)
    <3>1. [id |-> "data", size |-> size, bytes |-> size, samples |-> stored] \in AnyChunk
      BY <1>1, <1>3, ChunkBuilt
    <3>2. f = [fmt_size |-> 16, format |-> 1, channels |-> r.channels, bit |-> r.bit,
               chunks |-> <<[id |-> "data", size |-> size, bytes |-> size,
                             samples |-> stored]>>]
      BY <1>2, <2>1 DEF stored
    <3>3. QED
      BY <1>1, <1>3, <3>1, <3>2
  <2>2. CASE ~Supported(1, r.bit)
    <3>1. [id |-> "data", size |-> size, bytes |-> 0, samples |-> <<>>] \in AnyChunk
      <4>1. 0 \in Nat /\ <<>> \in Seq(Int)
        OBVIOUS
      <4>2. QED
        BY <1>1, <4>1, ChunkBuilt
    <3>2. f = [fmt_size |-> 16, format |-> 1, channels |-> r.channels, bit |-> r.bit,
               chunks |-> <<[id |-> "data", size |-> size, bytes |-> 0, samples |-> <<>>]>>]
      BY <1>2, <2>2
    <3>3. QED
      BY <1>1, <2>2, <3>1, <3>2
  <2>3. QED
    BY <2>1, <2>2
<1>6. f \in WavFile
  <2>1. r.bit \in Nat \ (0 .. 7) /\ r.channels \in Nat \ {0}
    BY DEF Recording
  <2>2. QED
    BY <1>1, <1>5, <2>1, OneChunkFile
<1>7. /\ f.format = 1 /\ f.channels = r.channels /\ f.bit = r.bit /\ Len(f.chunks) = 1
      /\ f.chunks[1] = c
  BY <1>5
<1>8. QED
  BY <1>1, <1>3, <1>4, <1>5, <1>6, <1>7

\* Dividing by the width of a sample.
LEMMA WholeWidths ==
  ASSUME NEW w \in {1, 2, 4}, NEW l \in Nat
  PROVE  /\ l * w \in Nat /\ (l * w) \div w = l
         /\ \A d \in Nat : l * w <= d => d \div w \in Nat /\ l <= d \div w
OBVIOUS

\* Dividing a multiple.
LEMMA DivideBack ==
  ASSUME NEW n \in Nat, NEW c \in Nat \ {0}
  PROVE  (n * c) \div c = n
OBVIOUS

\* Every file Open() may be run on is one.
LEMMA InitReader == Init => ReaderInv
<1> SUFFICES ASSUME Init PROVE ReaderInv
  OBVIOUS
<1>1. NoRecording \in Recording
  BY DEF NoRecording, Recording
<1>2. \A f \in Files : f \in WavFile
  <2> SUFFICES ASSUME NEW f \in Files PROVE f \in WavFile
    OBVIOUS
  <2>1. /\ f \in [fmt_size : Nat, format : Nat, channels : Nat \ {0}, bit : Nat \ (0 .. 7),
                  chunks : Seq(WavChunk)]
        /\ WholeSamples(f)
    BY WavAssumption
  <2>2. WavChunk \subseteq AnyChunk
    <3>1. Exact \subseteq Int
      BY DEF Exact
    <3>2. \A s \in Seq(Exact) : s \in Seq(Int)
      BY <3>1, WiderSequence
    <3>3. QED
      BY <3>2 DEF WavChunk, AnyChunk
  <2>3. f.chunks \in Seq(AnyChunk)
    <3>1. f.chunks \in Seq(WavChunk)
      BY <2>1
    <3>2. QED
      BY <2>2, <3>1, WiderSequence
  <2>4. f \in [fmt_size : Nat, format : Nat, channels : Nat \ {0}, bit : Nat \ (0 .. 7),
               chunks : Seq(AnyChunk)]
    BY <2>1, <2>3
  <2>5. QED
    BY <2>1, <2>4 DEF WavFile
<1>3. \A r \in Recordings \cup {NoRecording} : Written(r) \subseteq WavFile
  BY <1>1, WavAssumption, WrittenHas
<1>4. pc \in {"closed", "text"}
  BY DEF Init, WavInit
<1>5. /\ file \in WavFile
      /\ recording # NoRecording => recording \in Recordings /\ file \in Written(recording)
  BY <1>2, <1>3 DEF Init, WavInit
<1>6. QED
  BY <1>4, <1>5 DEF ReaderInv, FindsTheSamples

\* The loop of lines 77-82 comes to the first data chunk.
LEMMA SkipReader ==
  ASSUME ReaderInv, OpenHeader \/ SkipChunk
  PROVE  ReaderInv'
<1>1. /\ file' = file /\ recording' = recording /\ pc' \notin {"size", "open"}
      /\ file \in WavFile
      /\ recording # NoRecording => recording \in Recordings /\ file \in Written(recording)
  BY DEF ReaderInv, OpenHeader, SkipChunk
<1>2. Sound(file)' = Sound(file) /\ FirstData(file)' = FirstData(file)
  BY <1>1 DEF Sound, FirstData
<1>3. ASSUME Sound(file), pc' = "skip"
      PROVE  \E k \in 1 .. FirstData(file) : AtChunk(k)'
  <2>1. /\ FirstData(file) \in 1 .. Len(file.chunks) /\ file.chunks[FirstData(file)].id = "data"
        /\ Len(file.chunks) \in Nat /\ DOMAIN file.chunks = 1 .. Len(file.chunks)
    BY <1>1, <1>3, FirstDataFound, ChunkTypes
  <2>2. CASE OpenHeader
    <3>1. SeekAndRead(20 + file.fmt_size)
      BY <1>3, <2>2 DEF OpenHeader
    <3>2. SeekAndRead(ChunkStart(file, 1))
      BY <1>1, <3>1, NextStart, Zenon
    <3>3. 1 \in 1 .. FirstData(file) /\ 1 \in 1 .. Len(file.chunks)
      BY <2>1
    <3>4. QED
      BY <1>1, <3>2, <3>3, ReadsHeader
  <2>3. CASE SkipChunk
    <3>1. PICK k \in 1 .. FirstData(file) : AtChunk(k)
      BY <1>3, <2>3 DEF ReaderInv, SkipChunk
    <3>2. k # FirstData(file)
      BY <2>1, <2>3, <3>1 DEF SkipChunk, AtChunk
    <3>3. k \in 1 .. Len(file.chunks) /\ k + 1 \in 1 .. FirstData(file)
          /\ k + 1 \in 1 .. Len(file.chunks) /\ k # Len(file.chunks)
      BY <2>1, <3>2
    <3>4. header.size = file.chunks[k].bytes
      <4>1. header.size = file.chunks[k].size /\ header.id = file.chunks[k].id
        BY <3>1 DEF AtChunk
      <4>2. file.chunks[k].id # "data"
        BY <2>3, <4>1 DEF SkipChunk
      <4>3. file.chunks[k].size = file.chunks[k].bytes
        BY <1>3, <4>2 DEF Sound
      <4>4. QED
        BY <4>1, <4>3
    <3>5. pos + header.size = ChunkStart(file, k + 1)
      BY <1>1, <3>1, <3>3, <3>4, NextStart DEF AtChunk
    <3>6. SeekAndRead(ChunkStart(file, k + 1))
      BY <2>3, <3>5 DEF SkipChunk
    <3>7. QED
      BY <1>1, <3>3, <3>6, ReadsHeader
  <2>4. QED
    BY <2>2, <2>3
<1>4. QED
  BY <1>1, <1>2, <1>3 DEF ReaderInv, FindsTheSamples

\* Lines 84-89 give the size of the samples, declared or not.
LEMMA SizeReader ==
  ASSUME ReaderInv, DataSize
  PROVE  ReaderInv'
<1>1. /\ file' = file /\ recording' = recording /\ pc' = "size" /\ pos' = pos
      /\ header' = [header EXCEPT !.size = IF header.size = 0 THEN Length(file) - pos ELSE header.size]
      /\ file \in WavFile
      /\ recording # NoRecording => recording \in Recordings /\ file \in Written(recording)
  BY DEF ReaderInv, DataSize
<1>2. Sound(file)' = Sound(file) /\ FirstData(file)' = FirstData(file)
  BY <1>1 DEF Sound, FirstData
<1>3. ASSUME Sound(file)
      PROVE  /\ pos = ChunkStart(file, FirstData(file)) + 8
             /\ header'.size = file.chunks[FirstData(file)].bytes
  <2>1. /\ FirstData(file) \in 1 .. Len(file.chunks)
        /\ \A j \in 1 .. FirstData(file) - 1 : file.chunks[j].id # "data"
        /\ Len(file.chunks) \in Nat
    BY <1>1, <1>3, FirstDataFound, ChunkTypes
  <2>2. PICK k \in 1 .. FirstData(file) : AtChunk(k)
    BY <1>3 DEF ReaderInv, DataSize
  <2>3. k = FirstData(file)
    <3>1. file.chunks[k].id = "data"
      BY <2>2 DEF DataSize, AtChunk
    <3>2. k \in 1 .. FirstData(file) - 1 \/ k = FirstData(file)
      BY <2>1
    <3>3. QED
      BY <2>1, <3>1, <3>2
  <2>4. pos = ChunkStart(file, k) + 8 /\ header = [id |-> "data", size |-> file.chunks[k].size]
    BY <2>2 DEF AtChunk, DataSize
  <2>5. IF file.chunks[k].size = 0 THEN k = Len(file.chunks)
        ELSE file.chunks[k].size = file.chunks[k].bytes
    <3>1. file.chunks[k].id = "data"
      BY <2>2 DEF DataSize, AtChunk
    <3>2. QED
      BY <1>3, <3>1 DEF Sound
  <2>6. header'.size = IF file.chunks[k].size = 0 THEN Length(file) - pos ELSE file.chunks[k].size
    BY <1>1, <2>4
  <2>7. k = Len(file.chunks) => Length(file) - pos = file.chunks[k].bytes
    <3>1. /\ k \in 1 .. Len(file.chunks) /\ ChunkStart(file, k) \in Nat
          /\ file.chunks[k].bytes \in Nat
          /\ ChunkStart(file, k + 1) = ChunkStart(file, k) + 8 + file.chunks[k].bytes
      BY <1>1, <2>1, <2>3, NextStart, ChunkTypes
    <3>2. k = Len(file.chunks) => Length(file) = ChunkStart(file, k + 1)
      BY Zenon DEF Length
    <3>3. \A a, b \in Nat : a + 8 + b - (a + 8) = b
      OBVIOUS
    <3>4. QED
      BY <2>4, <3>1, <3>2, <3>3
  <2>8. QED
    BY <2>3, <2>4, <2>5, <2>6, <2>7
<1>4. QED
  BY <1>1, <1>2, <1>3 DEF ReaderInv, FindsTheSamples

\* Lines 91-150 store the samples of that chunk.
LEMMA ReadReader ==
  ASSUME ReaderInv, ReadSamples
  PROVE  ReaderInv'
<1>1. /\ file' = file /\ recording' = recording /\ pc' = "open"
      /\ file \in WavFile
      /\ recording # NoRecording => recording \in Recordings /\ file \in Written(recording)
  BY DEF ReaderInv, ReadSamples
<1>2. Sound(file)' = Sound(file) /\ FirstData(file)' = FirstData(file)
  BY <1>1 DEF Sound, FirstData
<1> DEFINE k == FirstData(file)
           samples == file.chunks[k].samples
           width == file.bit \div 8
<1>3. ASSUME Sound(file)
      PROVE  data_' = samples /\ num_samples_' = Len(samples) \div file.channels
  <2>1. k \in 1 .. Len(file.chunks) /\ file.chunks[k].id = "data"
    BY <1>1, <1>3, FirstDataFound
  <2>2. pos = ChunkStart(file, k) + 8 /\ header.size = file.chunks[k].bytes
    BY <1>3 DEF ReaderInv, ReadSamples
  <2> HIDE DEF k
  <2>3. /\ Len(file.chunks) \in Nat /\ DOMAIN file.chunks = 1 .. Len(file.chunks)
        /\ samples \in Seq(Int) /\ file.chunks[k].bytes \in Nat
    BY <1>1, <2>1, ChunkTypes
  <2>4. Supported(file.format, file.bit) /\ width \in {1, 2, 4}
    <3>1. Supported(file.format, file.bit)
      BY <1>3 DEF Sound
    <3>2. 8 \div 8 = 1 /\ 16 \div 8 = 2 /\ 32 \div 8 = 4
      OBVIOUS
    <3>3. QED
      BY <3>1, <3>2 DEF Supported
  <2>5. file.chunks[k].bytes = Len(samples) * width
    BY <1>1, <2>1, <2>3 DEF WavFile, WholeSamples
  <2>6. Length(file) - pos \in Nat /\ file.chunks[k].bytes <= Length(file) - pos
    <3>1. ChunkStart(file, k) \in Nat /\ Length(file) \in Nat
          /\ ChunkStart(file, k) + 8 + file.chunks[k].bytes <= Length(file)
      <4>1. Len(file.chunks) + 1 \in 1 .. Len(file.chunks) + 1 /\ k < Len(file.chunks) + 1
        BY <2>1, <2>3
      <4>2. QED
        BY <1>1, <2>1, <4>1, StartsIncrease, NextStart DEF Length
    <3>2. \A a, b, l \in Nat : a + 8 + b <= l => l - (a + 8) \in Nat /\ b <= l - (a + 8)
      OBVIOUS
    <3>3. QED
      BY <2>2, <2>3, <3>1, <3>2
  <2> HIDE DEF width, samples
  <2>7. PICK l \in Nat, w \in {1, 2, 4}, rest \in Nat :
          /\ l = Len(samples) /\ w = width /\ rest = Length(file) - pos
    BY <2>3, <2>4, <2>6
  <2>8. header.size \div width = l /\ rest \div w \in Nat /\ l <= rest \div w
    <3>1. header.size = l * w /\ l * w <= rest
      BY <2>2, <2>5, <2>6, <2>7, Zenon
    <3>2. QED
      BY <2>7, <3>1, WholeWidths
  <2>9. ASSUME NEW i \in 1 .. l PROVE SampleAt(i) = samples[i]
    <3>1. PICK d \in Nat : d = (Length(file) - pos) \div width /\ i <= d
      BY <2>7, <2>8
    <3>2. Min({i, d}) = i
      <4>1. \A x \in {i, d} : (\A y \in {i, d} : x <= y) <=> x = i
        BY <3>1
      <4>2. QED
        BY <4>1, Zenon DEF Min
    <3>3. FoldSet(LAMBDA j, s : IF ChunkStart(file, j) + 8 = pos
                                THEN file.chunks[j].samples ELSE s,
                  <<>>, DOMAIN file.chunks) = samples
      BY <1>1, <2>1, <2>2, SamplesOfChunk DEF samples
    <3>4. i \in DOMAIN samples
      BY <2>3, <2>7
    <3>5. QED
      BY <2>4, <3>1, <3>2, <3>3, <3>4, Zenon DEF SampleAt, width
  <2>10. data_' = [i \in 1 .. l |-> SampleAt(i)]
    BY <2>8, Zenon DEF ReadSamples, width
  <2>11. num_samples_' = l \div file.channels
    BY <2>8, Zenon DEF ReadSamples, width
  <2>12. samples = [i \in 1 .. l |-> samples[i]]
    BY <2>3, <2>7
  <2>13. data_' = samples
    <3>1. [i \in 1 .. l |-> SampleAt(i)] = [i \in 1 .. l |-> samples[i]]
      BY <2>9
    <3>2. QED
      BY <2>10, <2>12, <3>1, Zenon
  <2>14. QED
    BY <2>7, <2>11, <2>13, Zenon DEF samples
<1>4. ASSUME Sound(file), recording # NoRecording
      PROVE  /\ num_channel_' = recording.channels /\ bits_per_sample_' = recording.bit
             /\ num_samples_' = recording.num_samples
             /\ Len(data_)' = num_samples_' * num_channel_'
             /\ \A i \in DOMAIN data_' \cap DOMAIN recording.data :
                  Fits(Truncated(recording.data[i]), recording.bit) =>
                    NextToZero(data_'[i], recording.data[i])
  <2>1. recording \in Recording /\ file \in Written(recording)
    BY <1>1, <1>4, WavAssumption
  <2>2. /\ file.bit = recording.bit /\ file.format = 1 /\ file.channels = recording.channels
        /\ Len(file.chunks) = 1
    BY <2>1, WrittenHas
  <2>3. Supported(1, recording.bit)
    <3>1. Supported(file.format, file.bit)
      BY <1>4 DEF Sound
    <3>2. QED
      BY <2>2, <3>1, Zenon
  <2>4. samples = file.chunks[1].samples
    <3>1. k \in 1 .. Len(file.chunks)
      BY <1>1, <1>4, FirstDataFound
    <3> HIDE DEF k
    <3>2. k = 1
      BY <2>2, <3>1
    <3>3. QED
      BY <3>2
  <2>5. /\ Len(samples) = recording.num_samples * recording.channels
        /\ \A i \in DOMAIN samples \cap DOMAIN recording.data :
             Fits(Truncated(recording.data[i]), recording.bit) =>
               samples[i] = Truncated(recording.data[i])
    <3> HIDE DEF samples, k
    <3>1. QED
      BY <2>1, <2>3, <2>4, WrittenHas, Zenon
  <2> HIDE DEF samples, k
  <2>6. recording.num_samples \in Nat /\ recording.channels \in Nat \ {0}
        /\ recording.data \in Seq(Int)
    BY <2>1 DEF Recording
  <2>7. /\ data_' = samples
        /\ num_samples_' = (recording.num_samples * recording.channels) \div recording.channels
    BY <1>3, <1>4, <2>2, <2>5, Zenon
  <2>8. num_samples_' = recording.num_samples
    BY <2>6, <2>7, DivideBack
  <2>9. num_channel_' = recording.channels /\ bits_per_sample_' = recording.bit
    BY <2>2, Zenon DEF ReadSamples
  <2>10. Len(data_)' = num_samples_' * num_channel_'
    BY <2>5, <2>7, <2>8, <2>9, Zenon
  <2>11. ASSUME NEW i \in DOMAIN data_' \cap DOMAIN recording.data,
                Fits(Truncated(recording.data[i]), recording.bit)
         PROVE  NextToZero(data_'[i], recording.data[i])
    <3>1. data_'[i] = Truncated(recording.data[i])
      BY <2>5, <2>7, <2>11, Zenon
    <3>2. recording.data[i] \in Int
      BY <2>6, <2>11
    <3>3. QED
      BY <3>1, <3>2, TruncatedIsWhole, Zenon
  <2>12. QED
    BY <2>8, <2>9, <2>10, <2>11, Zenon
<1>5. FindsTheSamples'
  <2> HIDE DEF k, samples
  <2>1. Sound(file)' => data_' = samples
    BY <1>2, <1>3
  <2>2. samples = (file.chunks[FirstData(file)].samples)'
    BY <1>1, <1>2, Zenon DEF samples, k
  <2>3. (recording # NoRecording)' => recording # NoRecording /\ recording' = recording
    BY <1>1
  <2>4. QED
    BY <1>2, <1>4, <2>1, <2>2, <2>3 DEF FindsTheSamples
<1>6. QED
  BY <1>1, <1>5 DEF ReaderInv

\* The reader is always where ReaderInv says.
THEOREM ReaderKeepsPlace == Spec => []ReaderInv
<1>1. ReaderInv /\ [Next]_codecVars => ReaderInv'
  <2> SUFFICES ASSUME ReaderInv, [Next]_codecVars PROVE ReaderInv'
    OBVIOUS
  <2>1. CASE OpenHeader \/ SkipChunk
    BY <2>1, SkipReader
  <2>2. CASE DataSize
    BY <2>2, SizeReader
  <2>3. CASE ReadSamples
    BY <2>3, ReadReader
  <2>4. CASE UNCHANGED wavVars
    <3>1. ReaderInv' = ReaderInv
      BY <2>4 DEF wavVars, ReaderInv, FindsTheSamples, AtChunk, Sound, FirstData
    <3>2. QED
      BY <3>1
  <2>5. QED
    BY <2>1, <2>2, <2>3, <2>4 DEF Next, WavNext, Grow, codecVars
<1>2. QED
  BY <1>1, InitReader, PTL DEF Spec

\* Open() stores the samples, all of them and nothing else, of every sound file, however
\* many chunks of whatever size come before them. What comes back of a recording from the
\* file WavWriter makes of it: channels, width, samples per channel, and the whole part of
\* each float whose whole part fits the width.
THEOREM SamplesAreFound == Spec => []FindsTheSamples
<1>1. ReaderInv => FindsTheSamples
  BY DEF ReaderInv
<1>2. QED
  BY <1>1, ReaderKeepsPlace, PTL

\* What a step of the loop does on a sound file: it goes on in the file, and not beyond the
\* first data chunk's header.
Advances ==
  Sound(file) /\ pc = "skip" /\ pc' = "skip" =>
    pos < pos' /\ pos' <= ChunkStart(file, FirstData(file)) + 8

\* A skipped chunk is not the first data chunk, and the next one is not behind that.
LEMMA SkipAdvances ==
  ASSUME ReaderInv, SkipChunk, Sound(file)
  PROVE  pos < pos' /\ pos' <= ChunkStart(file, FirstData(file)) + 8
<1> DEFINE first == FirstData(file)
<1>1. file \in WavFile /\ file' = file /\ pc = "skip"
  BY DEF ReaderInv, SkipChunk
<1>2. /\ first \in 1 .. Len(file.chunks) /\ file.chunks[first].id = "data"
      /\ Len(file.chunks) \in Nat
  BY <1>1, FirstDataFound, ChunkTypes
<1>3. PICK k \in 1 .. first : AtChunk(k)
  BY <1>1 DEF ReaderInv
<1>4. file.chunks[k].id # "data" /\ k # first /\ header.size = file.chunks[k].size
  BY <1>2, <1>3 DEF SkipChunk, AtChunk
<1>5. header.size = file.chunks[k].bytes
  BY <1>2, <1>3, <1>4 DEF Sound
<1>6. k \in 1 .. Len(file.chunks) /\ k + 1 \in 1 .. Len(file.chunks) /\ k + 1 <= first
  BY <1>2, <1>3, <1>4
<1>7. ChunkStart(file, k + 1) = ChunkStart(file, k) + 8 + file.chunks[k].bytes
  BY <1>1, <1>6, NextStart
<1>8. pos = ChunkStart(file, k) + 8 /\ pos' = ChunkStart(file, k + 1) + 8
  <2>1. pos = ChunkStart(file, k) + 8
    BY <1>3 DEF AtChunk
  <2>2. pos + header.size = ChunkStart(file, k + 1)
    BY <1>5, <1>7, <2>1
  <2>3. SeekAndRead(ChunkStart(file, k + 1))
    BY <2>2 DEF SkipChunk
  <2>4. AtChunk(k + 1)'
    BY <1>1, <1>6, <2>3, ReadsHeader
  <2>5. QED
    BY <1>1, <2>1, <2>4 DEF AtChunk
<1>9. /\ ChunkStart(file, k) \in Nat /\ ChunkStart(file, k + 1) \in Nat
      /\ ChunkStart(file, first) \in Nat
      /\ file.chunks[k].bytes \in Nat /\ file.chunks[k + 1].bytes \in Nat
  <2> HIDE DEF first
  <2>1. ChunkStart(file, first) \in Nat
    BY <1>1, <1>2, NextStart
  <2>2. ChunkStart(file, k) \in Nat /\ ChunkStart(file, k + 1) \in Nat
    BY <1>1, <1>6, NextStart
  <2>3. file.chunks[k].bytes \in Nat /\ file.chunks[k + 1].bytes \in Nat
    BY <1>1, <1>6, ChunkTypes
  <2>4. QED
    BY <2>1, <2>2, <2>3
<1>10. ChunkStart(file, k + 1) <= ChunkStart(file, first)
  <2>1. k + 1 = first \/ k + 1 < first
    BY <1>2, <1>6
  <2>2. k + 1 < first =>
          ChunkStart(file, k + 1) + 8 + file.chunks[k + 1].bytes <= ChunkStart(file, first)
    BY <1>1, <1>2, <1>6, StartsIncrease
  <2> HIDE DEF first
  <2>3. \A a, b, c \in Nat : a + 8 + b <= c => a <= c
    OBVIOUS
  <2>4. QED
    BY <1>9, <2>1, <2>2, <2>3
<1>11. \A a, b, c, d \in Nat : b = a + 8 + c /\ b <= d => a + 8 < b + 8 /\ b + 8 <= d + 8
  OBVIOUS
<1>12. QED
  BY <1>7, <1>8, <1>9, <1>10, <1>11

\* Open()'s loop of lines 77-82 comes to an end on every sound file: each round but the
\* last moves the position on, and there is a position it never passes.
THEOREM OpenAdvances == Spec => [][Advances]_wavVars
<1>1. ReaderInv /\ [Next]_codecVars => [Advances]_wavVars
  <2> SUFFICES ASSUME ReaderInv, [Next]_codecVars, wavVars' # wavVars, pc = "skip", pc' = "skip",
                      Sound(file)
               PROVE  pos < pos' /\ pos' <= ChunkStart(file, FirstData(file)) + 8
    BY DEF Advances
  <2>1. ~OpenHeader /\ ~DataSize /\ ~ReadSamples
    BY DEF OpenHeader, DataSize, ReadSamples
  <2>2. SkipChunk
    BY <2>1 DEF Next, WavNext, Grow, codecVars
  <2>3. QED
    BY <2>2, SkipAdvances
<1>2. QED
  BY <1>1, ReaderKeepsPlace, PTL DEF Spec
=============================================================================
