\* Every literal of up to three entries, in each of the three forms.
CONSTANTS
  Key <- K
  Literals <- MCLiterals
  Outers <- MCOuters
SPECIFICATION Spec
INVARIANTS MergedButForGaps
PROPERTY OuterUntouched
CHECK_DEADLOCK FALSE
