CONSTANTS
    Zero = Zero
    PAD  = PAD
    NL   = NL
    MCLength = 10
    Crumb   <- MCCrumb
    Input   <- MCInput
    Widths  <- MCSmallWidths
    Kernels <- MCSmallKernels
    SizeMax <- MCSizeMax
    MidStreamWidth = TRUE
SPECIFICATION Spec
INVARIANTS
    StepcountIsColumn
    WidthOnlyAddsNewlines
    DecodesBack
PROPERTIES
    LinesStayWithin
