SPECIFICATION Spec
CONSTANTS
    Versions = {v1, v2}
    NumFiles = 2
    None = None
    Platforms = {"task_scheduler"}
    MaxEdits = 1
INVARIANT RetryCanSucceed
CHECK_DEADLOCK FALSE
