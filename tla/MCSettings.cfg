SPECIFICATION Spec
CONSTANTS
  Edits = {e1, e2, e3}
  HandEdits = {h}
  Forms = {e1, e2, h}
  None = None
SYMMETRY EditSymmetry
CHECK_DEADLOCK FALSE
INVARIANTS
  TypeOK
  SavedEditsSurvive
  RefusedEditsLeaveNoTrace
