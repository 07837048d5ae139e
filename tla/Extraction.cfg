CONSTANTS
    Worker = {w1, w2}
    Reader = {r1}
    Slot = {1, 2}
    Titles = 1
    Dur = 1
    MaxTime = 3
    MaxChanges = 2
    MaxErrs = 1
    MaxCrashes = 1
    None = None
SPECIFICATION FairSpec
PROPERTIES RunningContestsKept AnnouncedKept EventuallyMirrored CacheConverges
