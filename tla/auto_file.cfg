SPECIFICATION Spec
CONSTANTS
  Wrappers = {w1, w2}
  Files = {f1, f2}
  Objects = {o1}
  NULL = NULL
  Std = Std
  MaxOpens = 2
  MaxBytes = 4
SYMMETRY Symmetry
INVARIANTS OneOwner LeakNeedsOverwriting 
CHECK_DEADLOCK FALSE
