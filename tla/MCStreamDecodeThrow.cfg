CONSTANTS
    Zero = Zero
    PAD  = PAD
    NL   = NL
    MaxSince = 0
    Crumb       <- MCCrumb
    Contents    <- MCContents
    BufferSizes = {4}
    Heaps       = {"null"}
    Masks       = {TRUE}
    SizeMax     <- MCSizeMax
SPECIFICATION Spec
INVARIANTS
    ScratchIsTransient
