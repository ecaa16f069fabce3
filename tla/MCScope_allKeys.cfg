\* A chain of scopes, for what the comment on allKeys says.
CONSTANTS
  x = x
  u = u
  v = v
  Key = {x}
  Value = {u, v}
  Undefined = Undefined
  Absent = Absent
  MaxObjects = 5
SYMMETRY Symmetric
SPECIFICATION Spec
CHECK_DEADLOCK FALSE
INVARIANTS
  AllKeysIncludesInherited
