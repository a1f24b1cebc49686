SPECIFICATION FairSpec
CONSTANTS
    word = word
    Items = {word}
    MaxPosts = 2
    MaxPolls = 2
    MaxDels = 1
    MaxMessages = 2
INVARIANTS
    TypeOK
    NothingLost
    NoDouble
PROPERTIES
    FeedGoesOn
    DeletesWhatWasSeen
    FeedFollows
