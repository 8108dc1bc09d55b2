SPECIFICATION FieldSpec
CONSTANTS
  old = old
  new = new
  Sessions = {s1, s2}
  Analyses = {a1, a2}
  Kinds = {"value_stream"}
  Suggestions <- MCSuggestions
  Texts = {old, new}
  Archiving = {"value_stream"}
  MaxPerCapture = 2
  MaxPerDay = 2
  MaxRevision = 2
SYMMETRY Symmetry
INVARIANTS FieldTypeOK
PROPERTIES OutcomesStayOnRecord AdoptsFromLiveCapture KeepsContract
CHECK_DEADLOCK FALSE
