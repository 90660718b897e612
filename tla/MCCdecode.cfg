CONSTANTS
    Zero = Zero
    PAD  = PAD
    NL   = NL
    UNINIT = UNINIT
    MCShort = 7
    MCLong  = 36
    Crumb   <- MCCrumb
    Inputs  <- MCInputs
    Kernels <- MCKernels
    SimdMin = 4
    SizeMax <- MCSizeMax
SPECIFICATION MCSpec
INVARIANTS
    TypeOK
    Fits
    NothingUnwritten
PROPERTIES
    ImplementsText
    DecodeReturns
