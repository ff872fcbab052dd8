SPECIFICATION Spec
CONSTANTS
    Vocabularies <- AllVocabularies
    MaxTokens = 4
    Datas <- TwoDatas
    Items <- TwoItems
    MaxRenders = 2
CHECK_DEADLOCK FALSE
INVARIANTS
    StacksAgree
    VPreIsOpen
    RenderMeans
PROPERTIES
    OnceFixed
