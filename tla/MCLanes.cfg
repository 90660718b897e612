CONSTANTS
    Triples <- MCTriples
    Quads   <- MCQuads
SPECIFICATION LaneSpec
INVARIANTS
    LaneTypeOK
    LaneEncodes
    LaneBlocks
    LaneInverts
CHECK_DEADLOCK FALSE
