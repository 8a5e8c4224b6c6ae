SPECIFICATION FairSpec
CONSTANTS
    Threads = {"p", "q", "s"}
    EndOf <- MCEndOf
    May <- MCMay
    EvtIDs = {"e1", "e2"}
    SubEvtArgs <- MCSubEvtArgs
    Replies = TRUE
    QueueLen = 1
    MaxPosts = 2
    MaxSubs = 2
    Free = Free
INVARIANTS TypeOK SeqFollowsReturn OncePerSubscription PulledOnce
CHECK_DEADLOCK FALSE
PROPERTIES PostsReturn
