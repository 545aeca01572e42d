CONSTANTS
    a1 = a1  a2 = a2  c1 = c1  c2 = c2
    Addrs <- MCOneAddr
    Clients <- MCOneClient
    MaxSeq = 2
    Premiums = {1, 2, 3}
    RBF_NUM = 25
    RBF_DENOM = 100
    MaxActorPending = 2
    MaxUntrustedActorPending = 1
    NoMsg = NoMsg
    NoSet = NoSet
    MaxEpoch = 4
    EventCap = 2
    ProviderMayFail = FALSE
SPECIFICATION ReliableLiveSpec
INVARIANTS TypeOK NextSeqBound
PROPERTIES NextSeqMonotone ReplaceByFee NoMessageLost HeadTracked
