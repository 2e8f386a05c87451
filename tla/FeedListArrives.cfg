SPECIFICATION FeedSpec
CONSTANTS
    MaxVersion = 2
    MaxCalls = 2
PROPERTY ListArrives
