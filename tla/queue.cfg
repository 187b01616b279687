SPECIFICATION FairAdmissionsSpec
CONSTANTS
    j1 = j1
    j2 = j2
    j3 = j3
    j4 = j4
    p1 = p1
    p2 = p2
    p3 = p3
    Jobs = {j1, j2, j3, j4}
    Projects = {p1, p2, p3}
    ProjectOf <- FirstTwoShare
    Caps = {1, 2}
    Brakes = {p1}
    MaxSeq = 5
INVARIANTS
    OneJobPerProject
PROPERTIES
    AdmissionWithinCap
    FifoPerProject
    
CHECK_DEADLOCK FALSE
