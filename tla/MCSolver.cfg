SPECIFICATION Spec
CONSTANTS
  Atom = {1, 2, 3, 4}
  MaxLevel = 2
  Problems <- SearchProblems
INVARIANTS TrailRight NoMissedPropagation TheoryInSync ConflictIsCurrent AnswersRight
PROPERTY ChecksEnd
