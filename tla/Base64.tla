------------------------------- MODULE Base64 -------------------------------
(***************************************************************************)
(* include/base64.h: the text form of audio in on_message() and in every   *)
(* reply. A byte is 0 .. 255. A character of the alphabet is its index in  *)
(* base64_chars, 0 .. 63, so the table and its find() are inverse; Pad is  *)
(* '=' and any larger number another character, at which decode() stops.   *)
(***************************************************************************)
EXTENDS Integers, Sequences, SequencesExt

Byte == 0 .. 255
Pad == 64

is_base64(c) == c < 64

\* find() of the '\0' that decode() puts in for a missing character: npos, as
\* an unsigned char. Its bits reach only bytes that are not emitted.
Missing == 255

\* Mutant of Sextets: the low bits of the first byte are dropped.
SextetsMasked(b) ==
  << b[1] \div 4, b[2] \div 16, ((b[2] % 16) * 4) + (b[3] \div 64), b[3] % 64 >>

\* Three bytes as four characters, and back: the stores into char_array_4 and
\* char_array_3, which are unsigned char.
Sextets(b) ==
  << b[1] \div 4, ((b[1] % 4) * 16) + (b[2] \div 16),
     ((b[2] % 16) * 4) + (b[3] \div 64), b[3] % 64 >>

Octets(c) ==
  << ((c[1] * 4) + ((c[2] \div 16) % 4)) % 256,
     (((c[2] % 16) * 16) + ((c[3] \div 4) % 16)) % 256,
     (((c[3] % 4) * 64) + c[4]) % 256 >>

\* The n-th (from 0) group of size items, completed with fill.
Group(seq, n, size, fill) ==
  [k \in 1 .. size |-> IF n * size + k <= Len(seq) THEN seq[n * size + k] ELSE fill]

\* encode(): whole groups, then i bytes as i + 1 characters and padding.
encode(bytes) ==
  LET whole == Len(bytes) \div 3
      i == Len(bytes) % 3
      quads == FlattenSeq([n \in 1 .. whole |-> Sextets(Group(bytes, n - 1, 3, 0))])
  IN IF i = 0 THEN quads
     ELSE quads \o SubSeq(Sextets(Group(bytes, whole, 3, 0)), 1, i + 1)
                \o [k \in 1 .. 3 - i |-> Pad]

\* The characters decode() reads: up to the first '=' or foreign character.
Readable(text) ==
  LET stop == SelectInSeq(text, LAMBDA c : ~is_base64(c))
  IN IF stop = 0 THEN text ELSE SubSeq(text, 1, stop - 1)

\* Mutant of decode: a last group yields a byte per character.
DecodeEveryCharacter(text) ==
  LET chars == Readable(text)
      whole == Len(chars) \div 4
      i == Len(chars) % 4
      triples == FlattenSeq([n \in 1 .. whole |-> Octets(Group(chars, n - 1, 4, Missing))])
  IN triples \o SubSeq(Octets(Group(chars, whole, 4, Missing)), 1, IF i > 3 THEN 3 ELSE i)

\* decode(): whole groups, then i characters as i - 1 bytes.
decode(text) ==
  LET chars == Readable(text)
      whole == Len(chars) \div 4
      i == Len(chars) % 4
      triples == FlattenSeq([n \in 1 .. whole |-> Octets(Group(chars, n - 1, 4, Missing))])
  IN IF i = 0 THEN triples
     ELSE triples \o SubSeq(Octets(Group(chars, whole, 4, Missing)), 1, i - 1)
=============================================================================
