\* The CAR writer with every partial write and inner failure, its output
\* read back as CARv1 and as CARv2: refinement of CarSink, round trips,
\* and every poll method returning when the runtime keeps polling it.
CONSTANTS
    Blocks <- MCBlocks
    HeaderCbor <- MCHeaderCbor
    Index <- MCIndex
    Capacity = 40
    MaxSends = 2
    InnerMayFail = TRUE
SPECIFICATION WLiveSpec
INVARIANT RoundTrip
INVARIANT V2Transparent
PROPERTY SinkRefined
PROPERTY CallReturns
\* poll_close returned: the program is done with the sink.
CHECK_DEADLOCK FALSE
