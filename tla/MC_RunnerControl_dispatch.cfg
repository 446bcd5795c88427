SPECIFICATION Spec
CONSTANTS
    MaxAttempts = 2
    MaxProcesses = 2
    MaxDispatchFailures = 2
INVARIANT DispatchCounted
