SPECIFICATION Spec
CONSTANTS
  c1 = c1
  c2 = c2
  c3 = c3
  b1 = b1
  shared = shared
  None = None
  Coordinators = {c1, c2}
  Owners = {b1}
  TechnicalOwners = {None, b1}
  Sections = {shared}
  Required <- MCRequired
  Administrators = {c1, c2}
  Verdicts = {"approved"}
  Results = {}
  Loads = {"use_case", "package"}
  MaxAssessments = 1
  MaxDecisions = 1
  MaxRevisions = 1
  MaxPages = 1
  MaxPackages = 1
SYMMETRY Symmetry
INVARIANTS
  DeliveryTypeOK
  

  
