------------------------------- MODULE Codecs -------------------------------
(***************************************************************************)
(* The two formats audio comes in: WavReader::Open() run step by step on   *)
(* one file, and base64 on an input that grows item by item, taken once as *)
(* bytes to encode and once as text to decode. A behaviour does one or the *)
(* other.                                                                  *)
(***************************************************************************)
EXTENDS Base64, Wav

CONSTANTS
  Items,       \* what the input is made of: bytes, characters
  MaxInput     \* bound: items in the input

\* Both functions take a char for an unsigned char.
ASSUME CodecsAssumption == Items \subseteq Byte

VARIABLE input

codecVars == <<wavVars, input>>

Init ==
  /\ input = <<>>
  /\ \/ WavInit
     \/ /\ pc = "text"
        /\ recording = NoRecording /\ file \in Written(recording)
        /\ pos = 0 /\ header = [id |-> "none", size |-> 0]
        /\ num_channel_ = 0 /\ bits_per_sample_ = 0 /\ num_samples_ = 0
        /\ data_ = <<>>

Grow ==
  /\ pc = "text"
  /\ Len(input) < MaxInput
  /\ \E c \in Items : input' = Append(input, c)
  /\ UNCHANGED wavVars

Next == (WavNext /\ UNCHANGED input) \/ Grow

\* Open() is a sequential function: nothing stops it from taking its next step.
Spec == Init /\ [][Next]_codecVars /\ WF_wavVars(WavNext)

-----------------------------------------------------------------------------
\* Any bytes come back from their text, which consists of whole groups of four
\* characters: base64 as the clients' libraries read and write it.
RoundTrip ==
  pc = "text" /\ (\A i \in DOMAIN input : input[i] \in Byte) =>
    /\ decode(encode(input)) = input
    /\ Len(encode(input)) = 4 * ((Len(input) + 2) \div 3)
    /\ \A i \in DOMAIN encode(input) : encode(input)[i] \in 0 .. Pad

Bit(n, i) == (n \div (2 ^ (7 - i))) % 2

\* decode() keeps a group of four and a last group apart. Whatever the text, complete or
\* not, the result is all the whole bytes of the bit string its readable characters spell.
DecodesTheBits ==
  pc = "text" =>
    LET chars == Readable(input)
        bits == FlattenSeq([k \in DOMAIN chars |-> [i \in 1 .. 6 |-> Bit(chars[k], i + 1)]])
        bytes == decode(input)
    IN /\ Len(bytes) = Len(bits) \div 8
       /\ \A k \in DOMAIN bytes : \A i \in 1 .. 8 :
            Bit(bytes[k], i - 1) = bits[8 * (k - 1) + i]

\* A file as other programs write it: a fmt chunk, sub-chunks of even size, then the
\* samples, complete, with their size or zero for "up to the end".
FirstData(f) == CHOOSE k \in DOMAIN f.chunks :
  f.chunks[k].id = "data" /\ \A j \in 1 .. k - 1 : f.chunks[j].id # "data"

Sound(f) ==
  /\ f.fmt_size >= 16 /\ Supported(f.format, f.bit)
  /\ \E k \in DOMAIN f.chunks : f.chunks[k].id = "data"
  /\ \A k \in 1 .. FirstData(f) : LET c == f.chunks[k] IN
       IF c.id = "data" /\ c.size = 0 THEN k = Len(f.chunks) ELSE c.size = c.bytes

\* n is the whole part of the writer's float x: the integer next to it, towards zero.
NextToZero(n, x) ==
  LET m == n * Parts
  IN (0 <= m /\ m <= x /\ x < m + Parts) \/ (m - Parts < x /\ x <= m /\ m <= 0)

\* Chunks before the samples are skipped exactly: what is stored is the samples, all of
\* them, and nothing else of the file. So a recording comes back from WavWriter's file with
\* its channels, width and samples per channel, and each float of it whose whole part fits
\* the width as that whole part, whatever became of the others. It comes back as 1/32768
\* of that: the writer does not scale.
FindsTheSamples ==
  pc = "open" /\ Sound(file) =>
    /\ data_ = file.chunks[FirstData(file)].samples
    /\ recording # NoRecording =>
         /\ num_channel_ = recording.channels /\ bits_per_sample_ = recording.bit
         /\ num_samples_ = recording.num_samples
         /\ Len(data_) = num_samples_ * num_channel_
         /\ \A i \in DOMAIN data_ \cap DOMAIN recording.data :
              Fits(Truncated(recording.data[i]), recording.bit) =>
                NextToZero(data_[i], recording.data[i])

\* Open() returns: the loop of lines 77-82 has no exit but a "data" chunk, so this is
\* about the files that lead it to one.
OpenReturns == Sound(file) /\ pc = "closed" ~> pc = "open"
=============================================================================
