------------------------------ MODULE MCCodecs ------------------------------
EXTENDS Codecs

Data(samples, bit) ==
  [id |-> "data", size |-> Len(samples) * (bit \div 8),
   bytes |-> Len(samples) * (bit \div 8), samples |-> samples]
Chunk(id, size, bytes) == [id |-> id, size |-> size, bytes |-> bytes, samples |-> <<>>]

\* One or two channels, each width the writer knows and one it does not, in quarters:
\* fractions on both sides of zero, the bounds of a char passed by a fraction and by one,
\* and a number neither a char nor an int16_t holds. num_samples is that of a channel, or
\* that of all channels, which passes the end of data.
MCRecordings ==
  [data : {<<>>, <<5, -7>>, <<511, 512, -515, -516>>, <<-1, 160000, 4, 2>>},
   num_samples : {0, 1, 2}, channels : {1, 2}, bit : {8, 16, 24, 32}]
    \cup [data : {<<9, -9, 12, -12>>}, num_samples : {4}, channels : {2}, bit : {16}]

MCOutcomes == {-128, 99}

\* Sub-chunks before the samples, none, one or two; of odd size, with the pad byte RIFF
\* asks for; a file cut off in its samples, one of unknown size, one without samples, one
\* with a chunk after them.
Tails ==
  LET data == Data(<<7, 8, 9>>, 16)
  IN { <<data>>, <<Chunk("fact", 4, 4), data>>,
       <<Chunk("LIST", 6, 6), Chunk("fact", 4, 4), data>>,
       <<Chunk("LIST", 5, 6), data>>,
       <<[data EXCEPT !.size = 20]>>, <<[data EXCEPT !.size = 0]>>,
       <<Chunk("fact", 4, 4), [data EXCEPT !.size = 0]>>,
       <<Chunk("fact", 4, 4)>>, <<Chunk("data", 4, 0)>>,
       <<data, Chunk("LIST", 6, 6)>>, <<Chunk("data", 0, 0), Chunk("LIST", 6, 6)>> }

MCFiles ==
  [fmt_size : {14, 16, 18}, format : {1, 3}, channels : {1, 2}, bit : {16}, chunks : Tails]
=============================================================================
