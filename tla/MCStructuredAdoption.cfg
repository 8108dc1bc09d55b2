SPECIFICATION StructuredSpec
CONSTANTS
  Sessions = {s1}
  Analyses = {a1}
  Requests = {q1, q2}
  Kinds = {"use_case", "value_stream"}
  Suggestions <- MCSuggestions
  Values = {1, 2}
  People = people
  MaxPerCapture = 2
  MaxPerDay = 2
  MaxRevision = 1
SYMMETRY Symmetry
INVARIANTS StructuredTypeOK AllOrNothing
PROPERTIES CommitsWhatWasRead OverwritesOnlyWhatWasShown
CHECK_DEADLOCK FALSE
