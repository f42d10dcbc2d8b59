SPECIFICATION FairSpec
CONSTANTS
    news = news
    bill = bill
    memo = memo
    empty = empty
    latin = latin
    letters = letters
    digest = digest
    first = first
    column = column
    essay = essay
    aside = aside
    Connectors = {"email", "substack"}
    Messages = {news, memo, empty, latin}
    Keyed <- MailKeyed
    TooLong = {}
    Unreadable = {empty}
    Breaking = {latin}
    Described <- MailDescribed
    DigestOf <- MailDigests
    BatchSize = 2
    MaxRebuilds = 1
    Feeds <- TwoFeeds
    Posts <- FourPosts
    FeedOf <- PostFeeds
    GuidOf <- PostGuids
    Linked <- PostLinks
    Titled <- PostTitles
    PageSize = 1
    MaxEdits = 1
    MaxFaults = 1
    MaxOutages = 2
INVARIANTS
    TypeOK
    OneItemPerMessage
    OneItemPerPost
PROPERTIES
    WindowIsIngested
    WorkingFeedsAreIngested
