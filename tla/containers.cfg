SPECIFICATION MCSpec
CONSTANTS
  Key = {0, 2, 3, 6, 7}
  Node = {n1, n2, n3}
  Val = {Zero, None}
  None = None
  Shift = 0
  InitialCapacity = 4
  MaxCapacity = 8
  Zero = Zero
  Garbage = Garbage
  Capacities = {1, 2}
  MaxSize = 4
  Action = {a1, a2, a3, a4}
  ALLBITS = 2
  MODELCLOCKBITS = 6
  Clocks = {0, 2, 3, 5, 16, 31, 48, 63}
SYMMETRY Addresses
INVARIANTS ProbesEnd
PROPERTIES ImplementsDictionary ImplementsOrderedSet ListImplementsSequence VectorImplementsSequence ImplementsSortedList
