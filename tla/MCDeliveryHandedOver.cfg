SPECIFICATION Spec
CONSTANTS
  c1 = c1
  c2 = c2
  c3 = c3
  b1 = b1
  shared = shared
  None = None
  Coordinators = {c1, c2}
  Owners = {b1}
  TechnicalOwners = {b1}
  Sections = {shared}
  Required <- MCRequired
  Administrators = {c1}
  Verdicts = {"approved"}
  Results = {}
  Loads = {}
  MaxAssessments = 1
  MaxDecisions = 1
  MaxRevisions = 1
  MaxPages = 0
  MaxPackages = 1
PROPERTIES
  HandedOverVersionStays
