SPECIFICATION Spec
CONSTANTS
  Intervals <- NumberArguments
  Counts <- CountArguments
  Binds <- BindArguments
  Second = 1000
  Modulus = 1048576
  LongModulus = 2097152
  MaxOptions = 4
  Absent = Absent
INVARIANTS
  AcceptedIsUsable
  NumbersAsGiven
  BindAsGiven
CHECK_DEADLOCK FALSE
