SPECIFICATION Spec
CONSTANTS
    MaxRequests = 2
    MaxHeaderSize = 3
    BufferSize = 3
    HeadSize = 2
    BodySizes = {0, 2}
    ContentSizes = {0, 4}
    NumRequests = 2
INVARIANTS ResumesWhereStopped
\* The client may stop asking, and the server closes the connection.
CHECK_DEADLOCK FALSE
