SPECIFICATION Spec
CONSTANTS
    e1 = e1
    e2 = e2
    j1 = j1
    j2 = j2
    p1 = p1
    p2 = p2
    Executors = {e1, e2}
    NoExecutor = NoExecutor
    LeaseMs = 2
    MaxGeneration = 2
    Jobs = {j1}
    Projects = {p1}
    ProjectOf <- OneProject
    Caps = {1}
    Brakes = {}
    Sightings = {"settled"}
    MaxVersion = 4
    Reserve = 1
    MaxSeq = 1
INVARIANTS
    TypeOK
    WriterHoldsItsJob
    LeasedEffectIsAccountedFor
PROPERTIES
    KeepsLease
    SettledStaysSettled
SYMMETRY Interchangeable
CHECK_DEADLOCK FALSE
