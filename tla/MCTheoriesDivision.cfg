SPECIFICATION SmallSpec
CONSTANT None = None
INVARIANT DivisionByZeroIsMinusOne
CHECK_DEADLOCK FALSE
