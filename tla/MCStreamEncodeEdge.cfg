CONSTANTS
    Zero = Zero
    PAD  = PAD
    NL   = NL
    MCLength = 9
    MaxSince = 0
    Crumb       <- MCCrumb
    Contents    <- MCLong
    BufferSizes <- MCLargestBuffer
    Heaps       = {"null"}
    Masks       = {FALSE}
    Widths      <- MCNarrow
    SizeMax     <- MCSmallSizeMax
SPECIFICATION Spec
INVARIANTS
    CodeFits
