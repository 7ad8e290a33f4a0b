CONSTANTS
    MaxBlocks = 2
    MaxCalls = 3
SPECIFICATION Spec
PROPERTY CallsReturn
CHECK_DEADLOCK FALSE
