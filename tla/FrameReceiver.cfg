SPECIFICATION ReceiverSpec
CONSTANTS
    Bytes <- MCBytes
    Stx = 3
    StxSize = 2
    MaxFrame = 1
    MaxChunk = 2
    MaxStream = 11
INVARIANTS
    ReceiverInv
    ChunksDoNotMatter
