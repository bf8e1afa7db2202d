SPECIFICATION ChecksumSpec
CONSTANTS
    Byte = 4
    Fields = {0, 1, 2, 3, 4, 5, 6, 7, 8, 9, 10, 11, 12, 13, 14, 15}
CHECK_DEADLOCK FALSE
INVARIANT UpdateVerifies
