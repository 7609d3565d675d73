CONSTANTS
    a = a  b = b  w1 = w1  w2 = w2
    Bad = Bad  NoRequest = NoRequest
    Callers = {a}
    ServerRequests = {1}
    Workers = {w1, w2}
    MaxServerRequestHandlers = 1
    MaxLines = 1
SPECIFICATION FairSpec
PROPERTIES EndIsNoticed
CHECK_DEADLOCK FALSE
