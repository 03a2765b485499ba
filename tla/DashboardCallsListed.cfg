SPECIFICATION Spec
CONSTANTS
    Unset = Unset
    Unpriced = Unpriced
    Compatible = {"openai"}
    Claude = {"claude"}
    Gemini = {"gemini"}
    Labels <- MCLabels
    Alphabet <- MCAlphabet
    HourLength = 2
    SlowestCap = 2
    ScatterCap = 2
    PageDefault = 1
    PageCap = 2
    LatestDefault = 1
    LatestCap = 2
    Calls <- MCCalls
    Routed <- MCRouted
    RouterBook <- MCBook
    PriceLists <- MCPriceLists
    Filters <- MCFilters
    Kinds = {"pricing"}
    Limit = 1
    MaxRows = 3
    MaxWrites = 1
INVARIANT CallsListed
