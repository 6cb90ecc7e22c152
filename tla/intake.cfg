CONSTANTS
    Uploads = {up}
    Discards = {dp}
    Mails = {m}
    Users = {u1, u2}
    MaxDeliveries = 2
    MaxAttempts = 2
    None = None
    Watched = u1
SPECIFICATION BoundedSpec
INVARIANTS BytesAccounted 
PROPERTIES SweepIsRight
CHECK_DEADLOCK FALSE
