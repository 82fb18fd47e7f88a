CONSTANTS
    Bytes <- SomeBytes
    Delim = 46
    Other = 35
    MaxLength = 6
SPECIFICATION TextSpec
CHECK_DEADLOCK FALSE
INVARIANTS
    DecodingInverts
    PartsRejoin
