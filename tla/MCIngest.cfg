\* Two programs open a new database and ingest two notes; one edit meanwhile.
CONSTANTS
    p1 = p1
    plain = plain
    d1 = d1
    d2 = d2
    n1 = n1
    n2 = n2
    t1 = t1
    t2 = t2
    Processes <- Programs
    SchemaVersion <- EarlyVersions
    Migrations <- EarlyBuilds
    MaxCrashes = 1
    Folders = {d1}
    Names = {n1, n2}
    Paragraphs = {t1, t2}
    gone = gone
    MaxEdits = 1
    MaxPasses = 2
SPECIFICATION Spec
SYMMETRY Symmetry
INVARIANTS
    OpenIsComplete
    ReopensSucceed
    OnlyCrashesWedge
PROPERTIES
    PassMirrorsNotes
    PurgedWereGone
CHECK_DEADLOCK FALSE
