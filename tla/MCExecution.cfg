SPECIFICATION FairSpec
CONSTANTS
    patch = patch
    brief = brief
    sonnet = sonnet
    unpriced = unpriced
    ProgressLogEntry = ProgressLogEntry
    Types = {patch, brief, ProgressLogEntry}
    TypeLists <- MCTypeLists
    AllowedTools = {"bash", "web_search", "filesystem_read"}
    AgentTexts <- MCAgentTexts
    Models = {sonnet, unpriced}
    Unset = Unset
    DefaultModel = sonnet
    Price <- MCPrice
    MaxIterations = 3
    MaxUses = 2
    MaxEdits = 2
INVARIANTS
    TypeOK
    ConversationWellFormed
    FullPicture
    FreshAgent
PROPERTIES
    EveryTaskAnswered
