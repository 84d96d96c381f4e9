SPECIFICATION MCSpec
CONSTANTS
    d0 = d0
    d3 = d3
    Partitions <- MCPartitions
    Target <- MCTarget
    BodyKept = 200
    NormalLength = 400
INVARIANT FailIsReal
