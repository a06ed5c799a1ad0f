SPECIFICATION KeyboardSpec
CONSTANTS
    KeyQueueLen = 4
    Keys = {k1, k2}
    NONE = NONE
CHECK_DEADLOCK FALSE
PROPERTIES FifoSpec Drained
