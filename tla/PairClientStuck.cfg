SPECIFICATION ClientFairSpec
CONSTANTS
    Handlers = {h1, h2}
    NoOne = NoOne
PROPERTIES
    AlertsAreShown
