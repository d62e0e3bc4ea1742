\* Documents of up to three values (MaxNodes) made of three leaves, and those of MCOthers,
\* which hold every type of value the operations tell apart. Half: 2-bit integers.
SPECIFICATION Spec
CONSTANTS
  Half = 2
  Others <- MCOthers
  Leaves <- MCLeaves
  Names <- MCNames
  Pointers <- MCPointers
  Patches <- MCPatches
  MaxNodes = 3
INVARIANTS TypeOK SweepIsExact PatchOfDiff MergePatchSettles OrderIsTotal FramesTakenWhole RepliesReadable
PROPERTIES ThrowChangesNothing EachRoundDestroysOne
