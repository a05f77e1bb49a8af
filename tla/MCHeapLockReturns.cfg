\* one page: the page is not what the counterexample is about
CONSTANT
    Pages = {0}
SPECIFICATION Spec
CHECK_DEADLOCK FALSE
PROPERTY
    LockReturns
