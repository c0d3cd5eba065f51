SPECIFICATION Spec
CHECK_DEADLOCK FALSE

CONSTANTS
    NULL = NULL
    NONE = NONE
    Null = NULL
    NoColumn = NONE
    Registered <- MCRegistered
    Blocked <- MCBlocked
    DbColumns <- MCDbColumns
    DatasetAliases <- MCDatasetAliases
    PersonAttributes <- MCPersonAttributes
    RowIdentifiers <- MCRowIdentifiers
    ContextDimensions <- MCContextDimensions
    TextColumns <- MCTextColumns
    K = 2
    MinCustomers = 2
    CustomerRows <- MCCustomerRows
    MerchantRows <- MCMerchantRows
    TransactionRows <- MCTransactionRows
    CardHolder <- MCCardHolder
    DirectIdentifiers <- MCDirectIdentifiers
    Answers <- MCAnswers
    Requested <- MCRequested
    MaxAttempts = 3
    ConflictTries = 2
    HasTokenKey = FALSE

INVARIANTS
    OncePerAttempt
    FeedbackIsFresh
    ChecklistTellsOutcome
    PersonIsHidden
    OutputIsReal

PROPERTIES
    Concludes
