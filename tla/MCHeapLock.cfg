\* three pages are enough for one context to find what the other one takes
CONSTANT
    Pages = {0, 1, 2}
SPECIFICATION Spec
CHECK_DEADLOCK FALSE
INVARIANTS
    FoundPageStaysFree
    LockHasHolder
