SPECIFICATION Spec
CONSTANTS
  m1 = m1
  m2 = m2
  m3 = m3
  r1 = r1
  r2 = r2
  r3 = r3
  None = None
  Enroll = Enroll
  Machines <- ThreeMachines
  Requests <- ThreeRequests
  Notices = TRUE
SYMMETRY Symmetry
INVARIANTS
  
  AssignmentsDiffer
  
