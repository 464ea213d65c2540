\* Pointers of 8 bytes and pages of 32 to 256.  Every order of up to five
\* pages, two turns, up to three results of times 0 to 3 and 1 or 2
\* operations each.
CONSTANTS
    Ptr = 8
    BandwidthJobs <- MCBandwidthJobs
    ChainJobs <- MCChainJobs
    StreamJobs <- MCStreamJobs
    FileBytes = 2044
    FileJobs <- MCFileJobs
    XFERSIZE = 1024
    PSIZE = 4
    PageBytes = 32
    MINFILE = 64
    Parallel = 2
    Offsets = {0, 8, 24}
    Turns = 2
    Walks = 8
    Thresholds = {4, 5, 7, 8, 11, 16, 23, 31, 32, 40}
    MaxPages = 32
    Tries = 3
    Times = {0, 1, 2, 3}
    Counts = {1, 2}
SPECIFICATION FileSpec
\* A program ends, or runs on with a pointer that was never set.
CHECK_DEADLOCK FALSE
INVARIANTS
  MemoryIsKept
  ChainAsMeant
  WorkAgainstCredit
  ReportIsRight
