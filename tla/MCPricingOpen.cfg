SPECIFICATION Spec
CONSTANTS
    Models = {m1}
    Prices = {0, 1}
    Bounds = {1, 2}
    DefaultBound = 2
    StoredTexts <- MCHandWritten
    RawTexts <- MCRaw
    Presets <- MCPresets
    MaxTiers = 2
    MaxGroups = 1
    MaxActs = 4
INVARIANT
    OpenKeepsPrice
