\* An inner writer over a fixed buffer of 30 bytes: it answers Ok(0) once
\* full, and poll_ready's loop never returns.
CONSTANTS
    Blocks <- MCBlocks
    HeaderCbor <- MCHeaderCbor
    Index <- MCIndex
    MaxSends = 2
    Capacity = 30
    InnerMayFail = FALSE
SPECIFICATION WLiveSpec
PROPERTY CallReturns
CHECK_DEADLOCK FALSE
