SPECIFICATION FairSpec
CONSTANTS
    news = news
    bill = bill
    memo = memo
    empty = empty
    latin = latin
    letters = letters
    digest = digest
    first = first
    column = column
    essay = essay
    aside = aside
    Connectors = {"substack"}
    Messages = {news, bill}
    Keyed <- Newsletters
    TooLong = {}
    Unreadable = {}
    Breaking = {}
    Described <- NoneDescribed
    DigestOf <- NoDigests
    BatchSize = 2
    MaxRebuilds = 0
    Feeds <- TwoFeeds
    Posts <- FourPosts
    FeedOf <- PostFeeds
    GuidOf <- PostGuids
    Linked <- PostLinks
    Titled <- PostTitles
    PageSize = 1
    MaxEdits = 1
    MaxFaults = 0
    MaxOutages = 2
PROPERTIES
    DeadConnectorShows
