CONSTANTS
    Zero = Zero
    PAD  = PAD
    NL   = NL
    MCLength = 60
    Crumb   <- MCCrumb
    Input   <- MCInput
    Widths  <- MCWidths
    Kernels <- MCKernels
    SizeMax <- MCSizeMax
    MidStreamWidth = FALSE
SPECIFICATION FairSpec
INVARIANTS
    TypeOK
    LengthIsExact
PROPERTIES
    ImplementsText
    BlockReturns
