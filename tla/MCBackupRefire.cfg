CONSTANTS
    Days = 1
    Keep = 1
    MaxManual = 1
    MaxEvents = 0
SPECIFICATION Spec
INVARIANT OncePerDay
CHECK_DEADLOCK FALSE
