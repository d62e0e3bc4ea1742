-------------------------------- MODULE Wav --------------------------------
(***************************************************************************)
(* include/wav.h: WavWriter::Write() and WavReader::Open().                *)
(*                                                                         *)
(* A file is its format fields and the chunks after them: a chunk has an   *)
(* id, the size its header declares, the bytes it really takes and, for    *)
(* "data", its samples, a whole number of them. fopen() succeeds, and a    *)
(* file has at least the 44 bytes of WavHeader. Samples are integers in    *)
(* the file; data_ is in units of 1/32768, so that the reader's division   *)
(* changes the unit and not the number. For IEEE floats, which it does not *)
(* divide, the file's numbers are in that unit too. A char is signed, and  *)
(* a file shorter than 2^31 bytes.                                         *)
(***************************************************************************)
EXTENDS Integers, Sequences, SequencesExt, FiniteSetsExt

CONSTANTS
  Files,       \* files of other programs
  Recordings,  \* what a WavWriter is constructed with
  Parts,       \* the writer's floats are integers in units of 1/Parts: with 2^149, all are
  Outcomes     \* what a conversion out of range or a read past an array can leave

\* The integers a float holds as they are, so that the reader's conversion keeps them.
Exact == {n \in Int : \E e \in 0 .. 104 :
            n % 2 ^ e = 0 /\ n \div 2 ^ e \in -(2 ^ 24) .. 2 ^ 24}

WavChunk == [id : STRING, size : Nat, bytes : Nat, samples : Seq(Exact)]
Recording == [data : Seq(Int), num_samples : Nat, channels : Nat \ {0}, bit : Nat \ (0 .. 7)]
WholeSamples(f) == \A k \in DOMAIN f.chunks : LET c == f.chunks[k] IN
  c.id = "data" => c.bytes = Len(c.samples) * (f.bit \div 8)

\* A sample takes at least a byte and there is a channel (lines 94 and 96 divide by them);
\* a data chunk has whole samples. A recording's num_samples need not fit its data.
ASSUME WavAssumption ==
  /\ \A f \in Files :
       /\ f \in [fmt_size : Nat, format : Nat, channels : Nat \ {0}, bit : Nat \ (0 .. 7),
                chunks : Seq(WavChunk)]
       /\ WholeSamples(f)
  /\ Recordings \subseteq Recording
  /\ Parts \in Nat \ {0} /\ Outcomes \subseteq Exact

VARIABLES
  file,
  recording,      \* history: the recording in file, or NoRecording
  pc,             \* "closed", "skip", "size", "open", "failed"
  pos,            \* ftell(fp), every position past the end being the end
  header,         \* header.data and header.data_size
  num_channel_, bits_per_sample_, num_samples_, data_

wavVars == <<file, recording, pc, pos, header, num_channel_, bits_per_sample_, num_samples_, data_>>

NoRecording == [data |-> <<>>, num_samples |-> 0, channels |-> 1, bit |-> 16]

\* A float nobody stored: new float[] left as it is, or other bytes read as a sample.
Junk == 9999

\* The switches on bits_per_sample_: other widths are printed about and passed over.
Supported(format, bit) == bit \in {8, 16} \/ (bit = 32 /\ format \in {1, 3})

ChunkStart(f, k) ==
  20 + f.fmt_size + FoldSet(LAMBDA j, sum : sum + 8 + f.chunks[j].bytes, 0, 1 .. k - 1)
Length(f) == ChunkStart(f, Len(f.chunks) + 1)

-----------------------------------------------------------------------------
\* Mutant of Truncated: rounds down, as floor() does.
TruncatedDown(x) == x \div Parts

\* static_cast to an integer type drops the fraction.
Truncated(x) == IF x >= 0 THEN x \div Parts ELSE -((-x) \div Parts)

\* Whether n is a number of bit bits: halved, no bound exceeds the checker's integers.
Fits(n, bit) == n \div 2 \in -(2 ^ (bit - 2)) .. 2 ^ (bit - 2) - 1

\* The i-th sample stored. The cast is undefined where the result does not fit, and
\* num_samples_ * num_channel_ may pass the end of data_: then it is what wild says.
Stored(r, i, wild) ==
  IF i \in DOMAIN r.data /\ Fits(Truncated(r.data[i]), r.bit) THEN Truncated(r.data[i])
  ELSE wild[i]

\* WavWriter::Write(): the files it may write; PCM, one chunk. num_samples_ counts samples
\* of a channel here. The declared size is that of all even where the width is none the
\* loop writes.
Written(r) ==
  LET count == r.num_samples * r.channels
      size == count * (r.bit \div 8)
      written == Supported(1, r.bit)
  IN {[fmt_size |-> 16, format |-> 1, channels |-> r.channels, bit |-> r.bit,
       chunks |-> <<[id |-> "data", size |-> size, bytes |-> IF written THEN size ELSE 0,
                     samples |-> IF written THEN [i \in 1 .. count |-> Stored(r, i, wild)]
                                 ELSE <<>>]>>] :
      wild \in [1 .. count -> {n \in Outcomes : Fits(n, r.bit)}]}

WavInit ==
  /\ \/ recording \in Recordings /\ file \in Written(recording)
     \/ file \in Files /\ recording = NoRecording
  /\ pc = "closed" /\ pos = 0
  /\ header = [id |-> "none", size |-> 0]
  /\ num_channel_ = 0 /\ bits_per_sample_ = 0 /\ num_samples_ = 0
  /\ data_ = <<>>

\* fread() of a chunk header at p. Past the end it reads nothing and leaves header as
\* it was; between two chunks it reads an id and a size made of other bytes.
HeaderAt(p) ==
  LET here == {k \in DOMAIN file.chunks : ChunkStart(file, k) = p}
  IN IF here # {} THEN LET c == file.chunks[Min(here)] IN [id |-> c.id, size |-> c.size]
     ELSE IF p < Length(file) THEN [id |-> "none", size |-> Length(file)]
     ELSE header

SeekAndRead(p) ==
  /\ header' = HeaderAt(p)
  /\ pos' = Min({p + 8, Length(file)})

\* Open() up to line 71: the header as a whole, or the chunk after a longer "fmt ".
OpenHeader ==
  /\ pc = "closed"
  /\ \/ /\ file.fmt_size < 16
        /\ pc' = "failed"
        /\ UNCHANGED <<pos, header>>
     \/ /\ file.fmt_size >= 16
        /\ SeekAndRead(20 + file.fmt_size)
        /\ pc' = "skip"
  /\ UNCHANGED <<file, recording, num_channel_, bits_per_sample_, num_samples_, data_>>

\* Mutant of SkipChunk: the header just read counts as part of the chunk.
SkipChunkTooFar ==
  /\ pc = "skip" /\ header.id # "data"
  /\ SeekAndRead(pos + header.size + 8)
  /\ UNCHANGED <<file, recording, pc, num_channel_, bits_per_sample_, num_samples_, data_>>

\* Lines 77-82, one iteration. At the end of the file it changes nothing any more.
SkipChunk ==
  /\ pc = "skip" /\ header.id # "data"
  /\ SeekAndRead(pos + header.size)
  /\ UNCHANGED <<file, recording, pc, num_channel_, bits_per_sample_, num_samples_, data_>>

\* Mutant of DataSize: a size of zero is taken as it is.
DataSizeAsDeclared ==
  /\ pc = "skip" /\ header.id = "data"
  /\ pc' = "size"
  /\ UNCHANGED <<file, recording, pos, header, num_channel_, bits_per_sample_, num_samples_, data_>>

\* Lines 84-89: a data chunk of unknown size is the rest of the file.
DataSize ==
  /\ pc = "skip" /\ header.id = "data"
  /\ header' = [header EXCEPT !.size = IF @ = 0 THEN Length(file) - pos ELSE @]
  /\ pc' = "size"
  /\ UNCHANGED <<file, recording, pos, num_channel_, bits_per_sample_, num_samples_, data_>>

\* The i-th sample from pos on. Past the end of the file fread() leaves the latest one.
SampleAt(i) ==
  LET width == file.bit \div 8
      last == Min({i, (Length(file) - pos) \div width})
      samples == FoldSet(LAMBDA k, s : IF ChunkStart(file, k) + 8 = pos
                                       THEN file.chunks[k].samples ELSE s,
                         <<>>, DOMAIN file.chunks)
  IN IF Supported(file.format, file.bit) /\ last \in DOMAIN samples THEN samples[last] ELSE Junk

\* Lines 91-150.
ReadSamples ==
  /\ pc = "size"
  /\ LET num_data == header.size \div (file.bit \div 8) IN
       /\ data_' = [i \in 1 .. num_data |-> SampleAt(i)]
       /\ num_samples_' = num_data \div file.channels
  /\ num_channel_' = file.channels
  /\ bits_per_sample_' = file.bit
  /\ pc' = "open"
  /\ UNCHANGED <<file, recording, pos, header>>

WavNext == OpenHeader \/ SkipChunk \/ DataSize \/ ReadSamples
=============================================================================
