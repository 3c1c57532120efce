SPECIFICATION MemorySpec
CONSTANTS
  Chunk = {c1, c2, c3}
  Addr = {a1, a2, a3}
  NULL = NULL
  None = None
  Kind <- Kinds
  Shape <- Shapes
  Variable = {"v"}
  Annotated = {"g", "and"}
  Parameterized = {}
  MaxRc = 4
  ZombieLimit = 1
  MaxHeld = 2
  chunkSizeBytes = 3
  maxFreeChunks = 1
  Size = {1, 2, 3, 4}
  MaxLevel = 3
SYMMETRY Symmetry
\* Both managers may be gone.
CHECK_DEADLOCK FALSE
INVARIANTS TypeOK BlocksDisjoint BlocksInChunks ChunksOwned ReferencesRight CollectionRight
