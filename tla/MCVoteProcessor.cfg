SPECIFICATION Spec
CONSTANTS
    t1 = t1
    t2 = t2
    honest = honest
    busy = busy
    Threads = {t1, t2}
    Votes <- MCVotes
    MaxBlock = 2
    max_votes_per_connection = 1
    MaxNotices = 1
INVARIANTS
    OnePlace
PROPERTIES
    QueuedVotesLeave
    ScansEnd
