CONSTANTS
    Readers = {r1, r2}
    Posts = {p1, p2}
    FeedConns = {c1, c2}
    Nobody = Nobody
    Cap = 1
    Batch = 1
    Backfill = 1
    MaxChanges = 2
SPECIFICATION FeedSpec
INVARIANTS
    TimelineSound
PROPERTIES
    Delivered
CHECK_DEADLOCK FALSE
