CONSTANTS
    None = None
    MaxCalls = 3
SPECIFICATION Spec
INVARIANT
    OneRedirectPerCall
CHECK_DEADLOCK FALSE
