SPECIFICATION MCSpec
CONSTANTS
    MaxRetries = 3
    e1 = e1
    e2 = e2
    s1 = s1
    s2 = s2
    Entries <- MCEntries
    Sessions <- MCSessions
    Throwables <- TestThrowables
INVARIANTS TypeOK SuccessDeliversAll DecisionIgnoresOrder
PROPERTIES QuietAfterReturn
