CONSTANTS
    MaxTokens = 6
    MaxShort = 3
    MaxTarget = 4
    n_ctx_train <- MCnctx
    Texts <- MCTexts
    BatchLists <- MCBatchLists
    ParamSets <- MCParamSets
SPECIFICATION Spec
INVARIANTS
    TypeOK
    BucketsAsSpecified
    LossBounded
    BatchConsistent
CHECK_DEADLOCK FALSE
