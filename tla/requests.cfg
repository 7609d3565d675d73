CONSTANTS
    q1 = q1  q2 = q2  q3 = q3  Nobody = Nobody
    Calls = {q1, q2, q3}
    Unwritable = {q3}
    MaxResponseWaiters = 2
    PipeRoom = 1
    MaxAnswers = 2
SPECIFICATION FairSpec
INVARIANTS SendsFindRoom NoWaiterLeaks
PROPERTIES CallsReturn
CHECK_DEADLOCK FALSE
