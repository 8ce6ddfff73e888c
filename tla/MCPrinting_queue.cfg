CONSTANTS
    Jobs = {j1, j2, j3}
    Capacity = 2
    Callers = 1
    MaxQueues = 1
    MaxPauses = 1
    MaxClears = 1
    MaxFaults = 1
    MaxOfAll = 1
    NoJob = NoJob
    Vocabularies <- TheVocabularies
    MaxFrames = 3
    MaxOnLine = 2
    MaxDepth = 2
    Alphabets <- TheAlphabets
    Papers = {2, 4}
    Dots = 2
    Offers <- TheOffers
    MaxNesting = 6
    ChartTags <- TheTags
    ChartSupplies <- TheSupplies
    SpanStyles = {"plain", "bold"}
    LineAligns = {"left", "center"}
    Emitted = {"cut", "feed", "rule", "qr"}
    RowWidth = 2
    MaxDirectives = 2
SPECIFICATION PrintingSpec
SYMMETRY Symmetry
INVARIANTS CancelledIsBlank PrintedInOrder ServesAsTold OneGrammar LinesComeOutRight BlocksKeepApart ChartReadsTrue 
 
CHECK_DEADLOCK FALSE
