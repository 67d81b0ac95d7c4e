SPECIFICATION MCSpec
CONSTANTS
    Null = Null
    p1 = p1
    p2 = p2
    m1 = m1
    h1 = h1
    Feeds <- MCFeeds
    Prices = {p1, p2}
    Intervals = {m1, h1}
    MaxSequence = 4
    RestLag = 1
    StaleAfter = 1
    ProbeInterval = 1
    MaxDelay = 2
    KlinePoll = 2
    MaxMarketFaults = 1
    Entries <- MCEntries
    LimitPerSource = 2
    MaxItems = 2
    MaxNewsFaults = 2
INVARIANTS
    BookFollowsExchange
    StreamContinuesPublication
    KlinesFresh
    KlineValidationExact
    NewsDeduplicated
    UntaggedAreLost
