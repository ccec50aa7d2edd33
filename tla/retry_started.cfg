\* No fault at all.
SPECIFICATION Spec
CONSTANTS
    Sessions = {s1}
    MaxFaults = 0
PROPERTIES
    OnlyUnstarted
