\* Two clients, two frames each, with metadata or without: their frames, closes and
\* failures against the worker.
\* The server may really stop: it exits, is terminated, or hangs in join().
SPECIFICATION Spec
CONSTANTS
  c1 = c1
  c2 = c2
  a = a
  b = b
  Conns = {c1, c2}
  Fields <- TwoFields
  Names = {a, b}
  NoName = NoName
  Metas <- NamesSome
  MaxFrames = 2
INVARIANTS TypeOK RepliesCarryMeta LateWorkBounded
PROPERTIES ImplementsService AcceptedIsAnswered StopEndsOrStarves
CHECK_DEADLOCK FALSE
