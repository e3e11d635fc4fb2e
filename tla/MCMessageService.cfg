SPECIFICATION Spec
CONSTANTS
    NumEvents = 2
    MaxDeliveries = 2
    MaxAttempts = 2
    MaxSeen = 1
    PriorTurnLimit = 2
    Retention = 3
    Services <- MCServices
    MaxCrashes = 1
CHECK_DEADLOCK FALSE
INVARIANTS
    ExecutedOncePerMemory
    OutboundWasSent
    HistoryInOrder
    TranscriptIsExchanges
    HealthFollowsOutbound
PROPERTIES
    EveryWebhookIsAnswered
