SPECIFICATION PublishFairSpec
CONSTANTS
    PublishTargets = {x}
    PublishItems = {i}
    Waiters = {q1}
    HistoryLimit = 2
    MaxRecords = 1
    MaxMessages = 3
    MaxSlots = 1
    MaxPublishOps = 1
PROPERTY RulesPublish
CHECK_DEADLOCK FALSE
