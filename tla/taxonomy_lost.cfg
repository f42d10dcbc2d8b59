SPECIFICATION Spec
CONSTANTS
    chat = chat
    mail = mail
    unclassified = unclassified
    mlops = mlops
    mlOps = mlOps
    llmOps = llmOps
    fold1 = fold1
    fold2 = fold2
    split = split
    ana = ana
    ben = ben
    sql = sql
    worker = worker
    apply = apply
    NoTag = NoTag
    NoItem = NoItem
    Nobody = Nobody
    Items = {chat, mail}
    Tags <- OneMergeTags
    Proposals <- OneMerge
    KindOf <- OneMergeKinds
    SourcesOf <- OneMergeSources
    TargetOf <- OneMergeTargets
    MaxConf = 1
    Procs = {ana, worker}
    People = {ana}
    Starts <- OneMergeStart
    Taggers = {worker}
    Placeholder = mlops
    Given = {1}
    MaxSuggestions = 1
    MaxNewTags = 1
    MaxNewEdges = 1
    MaxDepth = 2
    MaxRuns = 2
    Reviewers = {ana}
    ApplyJobs = {}
    PersonOf <- OnlyAna
    AdminUser = ana
    Limit = 1
PROPERTIES
    LinksSurvive
