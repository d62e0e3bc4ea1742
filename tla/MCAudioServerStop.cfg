\* One client: a failure of run() while the worker has or awaits a task.
\* The server may really stop: it exits, is terminated, or hangs in join().
SPECIFICATION Spec
CONSTANTS
  c1 = c1
  c2 = c2
  a = a
  b = b
  Conns = {c1}
  Fields <- TwoFields
  Names = {a, b}
  NoName = NoName
  Metas <- NoMetas
  MaxFrames = 2
PROPERTY FailureIsReported
CHECK_DEADLOCK FALSE
