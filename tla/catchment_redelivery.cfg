SPECIFICATION FairSpec
CONSTANTS
    note = note
    sticker = sticker
    post = post
    api = api
    api2 = api2
    cron = cron
    w1 = w1
    w2 = w2
    NoItem = NoItem
    Items <- ChatItems
    Sources <- ChatSources
    SourceOf <- ChatSourceOf
    MediaItems = {note, sticker}
    LinkItems = {}
    TextItems = {note}
    Ingesters = {api, api2}
    IngesterSource <- TwoApis
    Polled = {}
    MaxBatch = 2
    MaxDeliveries = 3
    MaxIngestFaults = 2
    Workers = {w1}
    MaxWorkFaults = 1
    MaxRequeues = 0
INVARIANTS
    OneJobPerItem
    AckedIsStored
PROPERTIES
    JobsSettle
    HandlersReturn
