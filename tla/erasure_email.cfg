CONSTANTS
    Notes = {}
    Emails = {e}
    Files = {f}
    Discards = {}
    Attachments <- AllAttachments
    Mem = {m1, m2, m3}
    Receipts = {r1}
    Edits = {}
    MaxAttempts = 1
    MaxFacts = 1
    None = None
SPECIFICATION FairSpec
INVARIANT NoBytesOutsideReceipts
PROPERTIES ReceiptSettles JobSettles
CHECK_DEADLOCK FALSE
