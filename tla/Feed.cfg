SPECIFICATION FeedSpec
CONSTANTS
    MaxVersion = 3
    MaxCalls = 2
INVARIANT FeedTypeOK
PROPERTIES ChangeIsShown ChangeIsAskedFor
