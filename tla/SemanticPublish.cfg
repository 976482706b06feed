CONSTANTS
    Indexes = {i1, i2, i3}
    MaxEdits = 2
    NoIndex = NoIndex
    Torn = Torn
SPECIFICATION FairSpec
INVARIANTS ActiveAsReviewed RecordsTell AliasAlive
PROPERTIES ManifestFollowsAlias LockReleased
