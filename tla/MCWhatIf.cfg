CONSTANTS
    NoArticle = NoArticle
    NoValue = NoValue
    KbAnswers <- MCKbAnswers
    Requests <- MCRequests
    ParserReplies <- MCParserReplies
    Catalogs <- MCCatalogs
    Facts <- MCFacts
    Explanations <- MCExplanations
SPECIFICATION Spec
CHECK_DEADLOCK FALSE
INVARIANTS
    RerunMeansOneThing
    AnswerIsGrounded
