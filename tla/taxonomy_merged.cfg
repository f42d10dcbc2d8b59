SPECIFICATION Spec
CONSTANTS
    chat = chat
    mail = mail
    unclassified = unclassified
    mlops = mlops
    mlOps = mlOps
    llmOps = llmOps
    fold1 = fold1
    fold2 = fold2
    split = split
    ana = ana
    ben = ben
    sql = sql
    worker = worker
    apply = apply
    NoTag = NoTag
    NoItem = NoItem
    Nobody = Nobody
    Items = {chat, mail}
    Tags <- ReviewTags
    Proposals <- Chain
    KindOf <- ChainKinds
    SourcesOf <- ChainSources
    TargetOf <- ChainTargets
    MaxConf = 1
    Procs = {ana}
    People = {ana}
    Starts <- ChainStart
    Taggers = {}
    Placeholder = mlops
    Given = {}
    MaxSuggestions = 0
    MaxNewTags = 0
    MaxNewEdges = 0
    MaxDepth = 0
    MaxRuns = 0
    Reviewers = {ana}
    ApplyJobs = {}
    PersonOf <- OnlyAna
    AdminUser = ana
    Limit = 1
INVARIANTS
    ActiveTagsOnly
