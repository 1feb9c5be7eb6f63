\* An order's two events, one handler, two attempts, two replays, two faults.
CONSTANTS
    Message = {"created", "paid"}
    Files = {"paid"}
    Posts = {"created", "paid"}
    Handler = {"handler"}
    After <- Needs
    MaxAttempts = 2
    MaxReplays = 2
    MaxFaults = 2
SPECIFICATION FairSpec
INVARIANTS DoneIsPosted RenamedIsPosted
PROPERTIES RowsFinish FilesApplied
CHECK_DEADLOCK FALSE
