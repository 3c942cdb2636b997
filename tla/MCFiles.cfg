SPECIFICATION Spec
CONSTANTS
    c1 = c1
    c2 = c2
    short = short
    long = long
    Absent = Absent
    Directory = Directory
    Listing = Listing
    Clients = {c1, c2}
    Versions = {short, long}
    Size <- Blocked
    Jobs <- SomeJobs
    MaxForeign = 2
SYMMETRY Symmetry
CHECK_DEADLOCK FALSE
INVARIANTS
    TypeOK
    NoTemporaryLeft
    UploadIsWhole
PROPERTIES
    DownloadIsAtomic
    KeepsUnforced
    ChangesOnlyWhatItListed
