CONSTANTS
    Notes = {n1}
    Emails = {}
    Files = {}
    Discards = {d1}
    Attachments <- NoAttachments
    Mem = {m1, m2, m3}
    Receipts = {r1}
    Edits = {e1}
    MaxAttempts = 2
    MaxFacts = 1
    None = None
SPECIFICATION Spec
SYMMETRY Symmetry
INVARIANTS ConfirmedErased 
 
CHECK_DEADLOCK FALSE
