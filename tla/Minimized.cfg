CONSTANTS
    NumWindows = 3
    NULL = NULL
SPECIFICATION Spec
INVARIANTS KeyboardIsVisible
