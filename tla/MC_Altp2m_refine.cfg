\* The view wrappers refine the View Manager's promise; types hold.
CONSTANTS
    ViewIds <- MCViewIds
    Gfns <- MCGfns
    Spare <- MCSpare
    INVALID_GFN = INVALID_GFN
    Baseline <- MCBaseline
    Unlimited <- MCUnlimited
SPECIFICATION Spec
INVARIANT TypeOK
PROPERTY ImplementsViewManager
\* A caller may stop calling after deinit, or after a failed init.
CHECK_DEADLOCK FALSE
