SPECIFICATION MCSpec
CONSTANTS
    Records = 7
    Owners = {1, 2}
    Batch = 3
    Limits <- MCLimits
    MaxPages = 4
INVARIANTS NoDuplicateNoGap AllSeen PageWithinLimit PositionNotEmitted PagingInv
PROPERTY ListingSpec
