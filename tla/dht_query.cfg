SPECIFICATION Spec
CONSTANT Parallel = 2
INVARIANTS OpenRequestsAreRoutable AnswerIsGenuine NotFoundIsSaidByAPeer ErrorOnlyIfAllFailed
PROPERTIES QueryIsAnswered PendingDrains
CHECK_DEADLOCK FALSE
