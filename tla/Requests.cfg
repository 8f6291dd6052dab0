SPECIFICATION Spec
CONSTANTS
    Chars = {"a", ".", "/", "%2e", "%2f", "%00", "%252e"}
    MaxTarget = 3
    FewChars = {"a", ".", "/", "%2e"}
    MaxLong = 5
    MaxRelayed = 3
    Names <- SomeNames
    Ports <- SomePorts
    MaxSize = 2
    Entries = {"a", "Squinn!"}
CHECK_DEADLOCK FALSE
INVARIANTS
    TypeOK
    SafePath
    AsAsked
    RightServer
    CleanEnd
