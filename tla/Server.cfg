SPECIFICATION FairSpec
CONSTANTS
    Conns = {c1, c2, c3}
    Requests = {r1}
    TxIds = {t1, t2}
    MaxConn = 2
    NoOne = NoOne
    CallsFail = TRUE
INVARIANTS TypeOK CountsAgree MapHoldsTheLock LockIsReachable
PROPERTIES AbandonedTxEnds CloseEndsOrHangs
CHECK_DEADLOCK FALSE
