CONSTANTS Prompts = {"key"}
 RunSteps = {"disk"}
 MaxVersion = 6
SPECIFICATION ConSpec
INVARIANTS RetryIsOffered
CHECK_DEADLOCK FALSE
