CONSTANTS
    Zero = Zero
    PAD  = PAD
    NL   = NL
    MaxSince = 3
    Crumb       <- MCCrumb
    Contents    <- MCContents
    BufferSizes <- MCBufferSizes
    Heaps       <- MCBoth
    Masks       = {TRUE, FALSE}
    SizeMax     <- MCSizeMax
SPECIFICATION FairSpec
INVARIANTS
    TypeOK
    StreamIsBytes
    PlaintextFits
    ExitsRelease
PROPERTIES
    CallEnds
