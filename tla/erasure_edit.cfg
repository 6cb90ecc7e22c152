CONSTANTS
    Notes = {n1}
    Emails = {}
    Files = {}
    Discards = {}
    Attachments <- NoAttachments
    Mem = {m1, m2}
    Receipts = {r1}
    Edits = {e1}
    MaxAttempts = 1
    MaxFacts = 1
    None = None
SPECIFICATION Spec
SYMMETRY Symmetry
INVARIANT ChainsEnumeratedInFull
CHECK_DEADLOCK FALSE
