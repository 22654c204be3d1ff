SPECIFICATION Spec
CONSTANTS
    Pool = {b1, b2}
    Scratch = Scratch
    NoBuffer = NoBuffer
    Messages <- MCMessages
    MaxMessages = 3
    Stream <- MCStream
INVARIANTS
    TypeOK
    BuffersAccounted
    NothingVanishes
PROPERTIES
    LentUntouched
    Described
CHECK_DEADLOCK FALSE
