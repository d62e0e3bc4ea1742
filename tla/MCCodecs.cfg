\* base64 on every input of up to 4 items (MaxInput): the bytes and characters at the boundaries
\* of the masks, 64 being '=' and 200 a foreign character; wav on the files of MCCodecs.
SPECIFICATION Spec
CONSTANTS
  Files <- MCFiles
  Recordings <- MCRecordings
  Parts = 4
  Outcomes <- MCOutcomes
  Items = {0, 1, 3, 15, 16, 48, 60, 63, 64, 200, 255}
  MaxInput = 4
INVARIANTS RoundTrip DecodesTheBits FindsTheSamples
PROPERTY OpenReturns
\* A file read, a chunk skipped for ever and an input at its bound stop.
CHECK_DEADLOCK FALSE
