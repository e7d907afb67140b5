CONSTANTS
    Links = 3
    Chunk <- Kinds
    MaxChunks = 2
SPECIFICATION FairSpec
INVARIANTS TypeOK OneAnswer OutcomeNamesItsLink NothingLeftOpen EndIsTheLinksEnd OutcomeIsWhole
PROPERTIES AnswerIsFinal EveryCallEnds ImplementsProvider
CHECK_DEADLOCK FALSE
