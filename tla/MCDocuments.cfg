SPECIFICATION DocumentsSpec
CONSTANTS
    Kinds <- MCKinds
    ChannelElements <- MCChannelElements
    RssElements <- MCRssElements
    FeedElements <- MCFeedElements
    EntryElements <- MCEntryElements
    Lines <- MCLines
    Scripts <- MCScripts
    Articles <- MCArticles
    Usable <- MCUsable
    None = None
    Wrapper = 3
    MaxGopherItems = 1
    MaxTries = 2
    MaxElements = 4
    MaxUpdates = 2
CHECK_DEADLOCK FALSE
INVARIANTS
    EntryDate
    UndatedItemsAgree
