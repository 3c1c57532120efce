SPECIFICATION Spec
CONSTANTS
  Atom = {1, 2, 3, 4}
  MaxLevel = 1
  Problems <- LearnProblems
INVARIANTS ClausesEntailed
