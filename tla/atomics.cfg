SPECIFICATION Spec
CONSTANTS
    Thread = {t1, t2}
    ByteValues = 4
    Starts <- MCStarts
    MaxStores = 3
PROPERTY ImplementsType
CHECK_DEADLOCK FALSE
