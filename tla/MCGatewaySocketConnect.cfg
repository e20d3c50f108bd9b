SPECIFICATION FairSpec
CONSTANTS
    s1 = s1
    s2 = s2
    s3 = s3
    r1 = r1
    r2 = r2
    None = None
    Sockets <- MCSockets
    Requests <- MCRequests
PROPERTY ConnectSettles
CHECK_DEADLOCK FALSE
