SPECIFICATION Spec
CONSTANTS
    e1 = e1
    e2 = e2
    j1 = j1
    j2 = j2
    p1 = p1
    p2 = p2
    Executors = {e1}
    NoExecutor = NoExecutor
    LeaseMs = 1
    MaxGeneration = 1
    Jobs = {j1, j2}
    Projects = {p1}
    ProjectOf <- OneProject
    Caps = {1, 2}
    Brakes = {p1}
    Sightings = {"settled"}
    MaxVersion = 4
    Reserve = 2
    MaxSeq = 3
INVARIANTS
    OccupiedIffClaimed
PROPERTIES
    KeepsAdmissions
CHECK_DEADLOCK FALSE
