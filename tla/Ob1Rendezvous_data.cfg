\* Two fragments, two contexts at each end, two shortages and one refused PUT: a
\* put is tried once more and then copied.
SPECIFICATION FairSpec
CONSTANTS
    Length = 2
    Context = {1, 2}
    send_pipeline_depth = 1
    recv_pipeline_depth = 1
    rdma_put_retries_limit = 1
    MaxFailures = 2
    MaxErrors = 1
INVARIANTS
    TypeOK
    EveryFragmentOnOneWay
    ReceivedBeforeComplete
    BufferFreeOnComplete
    InOneHand
    PipelineBounded
PROPERTY
    EveryTransferEnds
CHECK_DEADLOCK FALSE
