CONSTANTS
    Zero  = Zero
    PAD   = PAD
    NL    = NL
    Crumb = {Zero}
    SizeMax <- MCSizeMax
SPECIFICATION Spec
INVARIANTS
    TypeOK
    Fits
    FreeIsSafe
