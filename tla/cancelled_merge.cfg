SPECIFICATION FairSpec
CONSTANTS
    e1 = e1
    e2 = e2
    j1 = j1
    j2 = j2
    p1 = p1
    p2 = p2
    Executors = {e1}
    NoExecutor = NoExecutor
    LeaseMs = 1
    MaxGeneration = 2
    Jobs = {j1}
    Projects = {p1}
    ProjectOf <- OneProject
    Caps = {1}
    Brakes = {}
    Sightings = {"settled"}
    MaxVersion = 5
    Reserve = 2
    MaxSeq = 1
PROPERTIES
    CancelledJobsFreeTheirProject
CHECK_DEADLOCK FALSE
