SPECIFICATION FairSpec
CONSTANTS
    Posts = {post}
    MaxLost = 1
    MaxFeeds = 2
INVARIANTS
    TypeOK
    BeatVouchesForFlags
    SettledFlagsAreTrue
PROPERTIES
    EveryoneIsServed
