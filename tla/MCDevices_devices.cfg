CONSTANTS
    Requests = {r1, r2}
    MaxConns = 3
    Printers = {p1, p2}
    NoPrinter = NoPrinter
    MaxHandlers = 2
    MaxPlugs = 2
    Edits = {e1}
    MaxLinks = 2
    MaxUnpairs = 1
    MaxChanges = 2
    MaxStreams = 2
    StreamLimit = 1
    Room = 1
    MaxDropped = 2
SPECIFICATION FairSpec
INVARIANTS AnswersAreTrue RetiredStaysShut ConfigArrives LiveViewIsKept
PROPERTIES PrinterComesBack
CHECK_DEADLOCK FALSE
