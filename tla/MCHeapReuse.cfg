\* 3 pages of 25 bytes, headers of 2 bytes
CONSTANTS
    PageSize = 25
    PageCount = 1
    Header = 2
    MINEXP = 1
    MAXEXP = 6
    MAXCOMPLETE = 1
    Pages = 3
    Sizes = {3, 8}
SPECIFICATION Spec
CHECK_DEADLOCK FALSE
PROPERTY
    FreshOnlyIfNothingFits
