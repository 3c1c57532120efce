SPECIFICATION Spec
CONSTANT None = None
INVARIANTS
  ClassesRight Explained TriggersRight
  BitsRight
\* The bound on the terms ends the behaviours of the bit-blaster.
CHECK_DEADLOCK FALSE
