\* A CARv1 file written by CarWriter read back with CarStream::new.
CONSTANTS
    Blocks <- MCBlocks
    HeaderCbor <- MCHeaderCbor
    Index <- MCIndex
    MaxSends = 2
    Capacity = 40
    InnerMayFail = FALSE
SPECIFICATION WSpec
INVARIANT RoundTripNew
CHECK_DEADLOCK FALSE
