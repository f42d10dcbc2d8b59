SPECIFICATION FairSpec
CONSTANTS
    chat = chat
    mail = mail
    unclassified = unclassified
    mlops = mlops
    mlOps = mlOps
    llmOps = llmOps
    fold1 = fold1
    fold2 = fold2
    split = split
    ana = ana
    ben = ben
    sql = sql
    worker = worker
    apply = apply
    NoTag = NoTag
    NoItem = NoItem
    Nobody = Nobody
    Items = {chat, mail}
    Tags <- AllTags
    Proposals <- ReviewProposals
    KindOf <- ReviewKinds
    SourcesOf <- ReviewSources
    TargetOf <- ReviewTargets
    MaxConf = 2
    Procs = {ana, ben, apply, worker}
    People = {ana, ben, sql}
    Starts <- ReviewAndGrowth
    Taggers = {worker}
    Placeholder = unclassified
    Given = {1}
    MaxSuggestions = 2
    MaxNewTags = 1
    MaxNewEdges = 2
    MaxDepth = 3
    MaxRuns = 2
    Reviewers = {ana, ben}
    ApplyJobs = {apply}
    PersonOf <- AnaAndBen
    AdminUser = sql
    Limit = 2
INVARIANTS
    TypeOK
    MergedByReview
    NoShortCycle
    CapsHold
PROPERTIES
    LinksSurvive
    ImplementsReviewGate
    ListedMergesApply
