SPECIFICATION Spec
CONSTANTS
  Address = {0, 1}
  Value = {0, 1}
INVARIANT
  ReturnPath
