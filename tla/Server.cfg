SPECIFICATION FairServerSpec
CONSTANTS
    IdleTTL = 1
    AbsoluteTTL = 1
    MaxNow = 2
    MaxSlept = 0
    Requests <- Written
    MaxLines = 3
    Dialogs <- TwoWindows
INVARIANTS
    ServerTypeOK
    AnsweredOnceInOrder
    AnswersAreHonest
PROPERTIES
    EffectsArePaid
    ImplementsService
    RequestsAreAnswered
