\* Scopes on scopes and `with's.  A program may have made all its objects.
CONSTANTS
  x = x
  u = u
  v = v
  Key = {x}
  Value = {u, v}
  Undefined = Undefined
  Absent = Absent
  MaxObjects = 5
SYMMETRY Symmetric
SPECIFICATION Spec
CHECK_DEADLOCK FALSE
INVARIANTS
  TypeOK
  HasMatchesGet
PROPERTIES
  LookupsMoveToNewNamesOnly
  ExtractedIsDetached
