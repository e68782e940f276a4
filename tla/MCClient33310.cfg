SPECIFICATION FairSpec
CONSTANTS
    Indexes = {1, 2}
    MaxTraps = 1
CHECK_DEADLOCK FALSE
INVARIANTS AnswerIsOwn SuccessIsComplete NoBrokenPipe SocketsClosed
PROPERTIES QuitEnds
