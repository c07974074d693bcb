\* One saga of two steps, with two faults or with two attempts.
SPECIFICATION RestSpec
CONSTANTS
    s1 = s1
    e1 = e1
PROPERTIES
    EventuallyAtRest
\* A store whose sagas are all terminal has nothing left to do.
CHECK_DEADLOCK FALSE
