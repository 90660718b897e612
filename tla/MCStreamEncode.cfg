CONSTANTS
    Zero = Zero
    PAD  = PAD
    NL   = NL
    MCLength = 5
    MaxSince = 2
    Crumb       <- MCCrumb
    Contents    <- MCContents
    BufferSizes <- MCBufferSizes
    Heaps       <- MCBoth
    Masks       = {TRUE, FALSE}
    Widths      <- MCWidths
    SizeMax     <- MCSizeMax
SPECIFICATION FairSpec
INVARIANTS
    TypeOK
    StreamIsText
    CodeFits
    ExitsRelease
PROPERTIES
    CallEnds
