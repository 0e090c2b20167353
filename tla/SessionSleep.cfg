SPECIFICATION Spec
CONSTANTS
    IdleTTL = 2
    AbsoluteTTL = 4
    MaxNow = 9
    MaxSlept = 5
PROPERTIES
    AbsoluteOnTheWall
