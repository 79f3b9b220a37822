CONSTANTS
    c1 = c1
    c2 = c2
    recipe = recipe
    plain = plain
    Containers <- TwoContainers
    Paths <- TwoPaths
    Routed <- OneRouted
    Modes <- AllModes
SPECIFICATION FairSpec
INVARIANTS
    LoadFailureIsBrief
    NoTemplateLeaks
PROPERTIES
    OutageIsForgotten
