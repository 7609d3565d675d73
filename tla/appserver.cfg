CONSTANTS
    a = a  b = b  w1 = w1  w2 = w2
    Bad = Bad  NoRequest = NoRequest
    Callers = {a, b}
    ServerRequests = {1, 2}
    Workers = {w1, w2}
    MaxServerRequestHandlers = 1
    MaxLines = 2
SPECIFICATION FairSpec
INVARIANTS HandlersBounded HandledOnce CloseReaps
PROPERTIES CloseReturns GoroutinesEnd
CHECK_DEADLOCK FALSE
