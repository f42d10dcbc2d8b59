SPECIFICATION Spec
CONSTANTS
    note = note
    sticker = sticker
    post = post
    api = api
    api2 = api2
    cron = cron
    w1 = w1
    w2 = w2
    NoItem = NoItem
    Items <- AllItems
    Sources <- AllSources
    SourceOf <- AllSourceOf
    MediaItems = {note, sticker}
    LinkItems = {post}
    TextItems = {note}
    Ingesters = {api, cron}
    IngesterSource <- ApiAndCron
    Polled = {"substack"}
    MaxBatch = 1
    MaxDeliveries = 2
    MaxIngestFaults = 1
    Workers = {w1}
    MaxWorkFaults = 0
    MaxRequeues = 0
INVARIANTS
    FailureRowsAreAccepted
