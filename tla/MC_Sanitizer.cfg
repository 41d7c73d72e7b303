CONSTANTS
    None = None
    NameLen = 3
    InputLen = 2
SPECIFICATION Spec
INVARIANTS
    SafeRename
    ImageStaysImage
