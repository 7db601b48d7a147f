CONSTANTS
    NumPhysPages = 4
    MaxPages = 1
    MaxForks = 2
SPECIFICATION Spec
PROPERTY ForkExecReturnsChild
CHECK_DEADLOCK FALSE
