\* One group, two jobs that take a node of weight 2 each.
SPECIFICATION FairSpec
CONSTANTS
    Jobs = {j1, j2}
    Insts = {i1, i2, i3}
    Slots = 1
    Weight = 2
    MaxFaults = 1
INVARIANTS
    TypeOK
    CapacityBounded
PROPERTIES
    BusyNodesSurvive
    JobsRun
    CapacityReleased
