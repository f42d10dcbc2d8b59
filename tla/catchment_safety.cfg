SPECIFICATION Spec
SYMMETRY WorkerSymmetry
CONSTANTS
    note = note
    sticker = sticker
    post = post
    api = api
    api2 = api2
    cron = cron
    w1 = w1
    w2 = w2
    NoItem = NoItem
    Items <- AllItems
    Sources <- AllSources
    SourceOf <- AllSourceOf
    MediaItems = {note, sticker}
    LinkItems = {post}
    TextItems = {note}
    Ingesters = {api, cron}
    IngesterSource <- ApiAndCron
    Polled = {"substack"}
    MaxBatch = 2
    MaxDeliveries = 2
    MaxIngestFaults = 1
    Workers = {w1, w2}
    MaxWorkFaults = 1
    MaxRequeues = 1
INVARIANTS
    TypeOK
    JobsHaveRows
    OneJobPerItem
    RawRefHasBlob
    StoredImpliesHealthy
    TagsHaveEvidence
    DegradedIsVisible
    InboxExplains
    StrandedOnlyByFault
PROPERTIES
    FinishedIsFinal
    ImplementsLifecycle
