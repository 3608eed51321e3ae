\* Every call overlaps every other, or changes take turns; one anchor may fail.
SPECIFICATION BothSpec
CONSTANTS
    Intents = {i1, i2}
    Quotes = {q1}
    Accepts = {a1}
    Operators = {o1, o2}
    Held = {o2}
    Payers = {p1}
    Exclusive = FALSE
    MaxFailures = 1
    NoQuote = NoQuote
    NoIntent = NoIntent
    NoCall = NoCall
    NoFile = NoFile
INVARIANTS
    HistoryIsReal
    SettledIsPaid
    TurnsAreAnchored
PROPERTIES
    TurnsMoveForward
SYMMETRY Symmetry
CHECK_DEADLOCK FALSE
