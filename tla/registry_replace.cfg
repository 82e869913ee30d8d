SPECIFICATION Spec
CONSTANTS
    Packages <- MCPackages
    Versions <- MCVersions
    Core <- MCCore
    Lex <- MCLex
    Blobs <- MCBlobs
    Fixtures <- MCFixtures
    Absent = Absent
    NoTree = NoTree
    Uploaders = {u1}
    Readers = {r1}
    Acks = {TRUE, FALSE}
    HeadMayFail = TRUE
    MaxRuns = 3
CHECK_DEADLOCK FALSE
INVARIANTS
    SettledComplete
