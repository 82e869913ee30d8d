SPECIFICATION FairSpec
CONSTANTS
    Packages <- MCPackages
    Versions <- MCVersions
    Core <- MCCore
    Lex <- MCLex
    Blobs <- MCBlobs
    Fixtures <- MCFixtures
    Absent = Absent
    NoTree = NoTree
    Uploaders = {u1}
    Readers = {r1, r2}
    Acks = {FALSE}
    HeadMayFail = FALSE
    MaxRuns = 3
CHECK_DEADLOCK FALSE
INVARIANTS
    CheckpointComplete
    PassIsSnapshot
PROPERTY
    ImplementsAtomic
    PublishedIsReadable
