CONSTANTS
    Zero = Zero
    PAD  = PAD
    NL   = NL
    NoFile  = NoFile
    Unknown = Unknown
    messageFile = messageFile
    textFile = textFile
    otherFile = otherFile
    aliasName = aliasName
    Crumb  <- MCCrumb
    Paths  <- MCPaths
    FileOf <- MCFileOf
    Disks  <- MCDisks
SPECIFICATION Spec
INVARIANTS
    TypeOK
    SuccessIsComplete
    RefusalTouchesNothing
    Identical
