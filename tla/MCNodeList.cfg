SPECIFICATION Spec
CONSTANTS
    a = a
    b = b
    c = c
    Urls <- MCUrls
    Configured <- MCConfigured
    Bound <- MCBound
    NoUrl = NoUrl
    Torn = Torn
SYMMETRY Symmetry
CONSTRAINT NotGrown
INVARIANTS
    WrittenSurvives
    StayersShown
