SPECIFICATION LifecycleSpec
CONSTANTS
  c1 = c1
  c2 = c2
  c3 = c3
  b1 = b1
  None = None
  Coordinators = {c1, c2, c3}
  Owners = {b1, c3}
  TechnicalOwners = {b1}
  Verdicts = {"approved", "approved_with_conditions"}
  Results = {"failed"}
  Loads = {"use_case", "decision", "draft"}
  MaxAssessments = 2
  MaxDecisions = 2
  MaxRevisions = 2
  MaxPages = 1
SYMMETRY Symmetry
INVARIANTS
  ApprovalIsDecided
  OneOpenSecondApproval

  
  
