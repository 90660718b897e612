CONSTANTS
    Zero = Zero
    PAD  = PAD
    NL   = NL
    MCLength = 2
    MaxSince = 0
    Crumb       <- MCCrumb
    Contents    <- MCContents
    BufferSizes = {2}
    Heaps       = {"throw"}
    Masks       = {FALSE}
    Widths      = {0}
    SizeMax     <- MCSizeMax
SPECIFICATION Spec
INVARIANTS
    FailureDoesNotLeak
