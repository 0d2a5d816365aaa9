SPECIFICATION Spec
CONSTANTS
    Tables <- MCTables
    CommandLines <- MCCommandLines
    Room = 3
    MaxValue = 89
    Formats <- MCFormats
    Explanations <- MCExplanations
INVARIANTS
    NamesResolve
    CodesResolve
    ExplanationShown
    HelpLaidOut
    ReadAsWritten
    OptionNotTaken
    NothingPassedOver
    ValuesAsWritten
CHECK_DEADLOCK FALSE
