CONSTANTS
    Notes = {n1}
    Emails = {}
    Files = {}
    Discards = {d1}
    Attachments <- NoAttachments
    Mem = {m1, m2}
    Receipts = {r1, r2}
    Edits = {e1}
    MaxAttempts = 1
    MaxFacts = 1
    None = None
SPECIFICATION MaintenanceSpec
SYMMETRY Symmetry
INVARIANTS SweepFindsOrphans  ReindexRemovesStrays
PROPERTY OrphanAlertsAreGenuine
CHECK_DEADLOCK FALSE
