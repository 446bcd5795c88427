SPECIFICATION LiveSpec
CONSTANTS
    MaxAttempts = 1
    MaxProcesses = 1
    MaxDispatchFailures = 2
PROPERTY AttemptsEnd
