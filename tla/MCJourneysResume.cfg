SPECIFICATION ExSpec
CONSTANTS
    Frames <- MCResumeFrames
    Goals = {"resume_run"}
    Modes = {"traversal"}
    DebugActions = FALSE
    Deadline = 3
    Patience = 1
    ResetSteps = 2
    StartWaits = 1
INVARIANT ResumeKeepsRun
CHECK_DEADLOCK FALSE
