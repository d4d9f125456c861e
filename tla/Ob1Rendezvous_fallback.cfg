\* One context at each end; a put is never tried again; nothing is refused.
SPECIFICATION FairSpec
CONSTANTS
    Length = 1
    Context = {1}
    send_pipeline_depth = 1
    recv_pipeline_depth = 1
    rdma_put_retries_limit = 0
    MaxFailures = 1
    MaxErrors = 0
PROPERTY
    FallbackIsSent
CHECK_DEADLOCK FALSE
