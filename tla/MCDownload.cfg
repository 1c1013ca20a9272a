SPECIFICATION Spec
CHECK_DEADLOCK FALSE
CONSTANTS
    t1 = t1  t2 = t2
    Organizations = {t1, t2}
    Kinds <- MCKinds
    SizeOf <- MCSizeOf
    Capacity = 5
    MaxDisturbances = 1
    MaxOperations <- MCOperations
    RoutesOf <- MCRoutesOf
    Disturbed = {t1}
INVARIANTS
    BudgetBalances ServedIsRecorded AnswersAreCurrent
PROPERTIES
    CapacityComesBack
