\* Two operators overlap: a stale copy is saved over a later change.
SPECIFICATION OverlapSpec
CONSTANTS
    Intents = {i1}
    Quotes = {q1}
    Accepts = {}
    Operators = {o1, o2, o3}
    Held = {}
    Payers = {}
    Exclusive = FALSE
    MaxFailures = 0
    NoQuote = NoQuote
    NoIntent = NoIntent
    NoCall = NoCall
    NoFile = NoFile
PROPERTIES
    StatusesMoveForward
CHECK_DEADLOCK FALSE
