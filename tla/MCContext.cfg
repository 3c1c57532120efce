SPECIFICATION FairSpec
CONSTANTS
  Obj = {a, b}
  Val = {0, 1}
  Default = 0
  Absent = Absent
  MaxLevel = 2
INVARIANTS
  TypeOK
  ListsExact
  VersionsRight
PROPERTIES
  ImplementsSnapshots
  PopTerminates
