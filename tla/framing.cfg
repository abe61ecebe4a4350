\* The frames of MCScripts through kernels that hold 4 bytes.
CONSTANTS
    Scripts <- MCScripts
    MAX_PAYLOAD = 3
    READ_SIZE = 3
    Capacity = 4
    MaxFrames = 3
SPECIFICATION FramingFairSpec
INVARIANTS WholeFrames NothingWithheld
PROPERTIES ImplementsLink Delivered
CHECK_DEADLOCK FALSE
