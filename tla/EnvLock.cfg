SPECIFICATION Spec
CONSTANTS
    Clients = {c1, c2}
    Admins = {c2}
    Reqs = {r1, r2}
    Data = {d1, d2}
    None = None
    TTL = 1
    Keep = 1
    UploadSlots = 2
    MaxLate = 1
    MaxTime = 1
    MaxToken = 2
    MaxVersion = 2
SYMMETRY Symmetry
INVARIANTS TypeOK NoLostUpdate UnstruckRowHasBlob DownloadHonest
PROPERTIES LiveLeaseKept
