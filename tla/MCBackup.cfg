CONSTANTS
    Days = 2
    Keep = 2
    MaxManual = 2
    MaxEvents = 1
SPECIFICATION FairSpec
INVARIANTS AttachedOnDisk MarkerTruthful OncePerQuietDay
PROPERTY DayIsServed
CHECK_DEADLOCK FALSE
