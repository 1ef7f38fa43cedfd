SPECIFICATION Spec
CONSTANTS
  L1_CACHE_N_WAYS = 2
  N_SETS = 1
  Core = {c0, c1}
  LoadLines = {2, 3}
  FetchLines = {2}
  StoreLines = {0, 3}
  L2_LINE = 4
  MaxOut = 2
  MaxReplies = 3
SYMMETRY Symmetry
INVARIANTS
  TypeOK
  DirectoryMirrorsL1
  NoStaleCopies
  DataOrInstruction
