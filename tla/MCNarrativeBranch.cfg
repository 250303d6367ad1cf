\* Three models of two time units each under a budget of three, so that the
\* budget cuts a call short, runs out before the list does, or the other way.
CONSTANTS
    Models = 3
    PerCall = 2
    Budget = 3
    MaxClock = 5
    NoArticle = NoArticle
    NoPayload = NoPayload
    KbAnswers <- MCKbAnswers
    ArticleSets <- MCArticleSets
    Replies <- MCReplies
SPECIFICATION Spec
CHECK_DEADLOCK FALSE
INVARIANTS
    CitationsAccountedFor
    CitationIsBestOfItsArticle
    CallsAreBounded
    AlertSpeaksEveryLanguage
    ExplanationDiscloses
    OverreachLeavesNoTrace
PROPERTIES
    BranchEnds
