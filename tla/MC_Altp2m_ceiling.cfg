\* Init after a failed xc_domain_getinfo, then deinit: the ceiling it leaves.
CONSTANTS
    ViewIds <- MCViewIds
    Gfns <- MCGfns
    Spare <- MCSpare
    INVALID_GFN = INVALID_GFN
    Baseline <- MCBaseline
    Unlimited <- MCUnlimited
SPECIFICATION Spec
INVARIANT CeilingRestored
\* A caller may stop calling after deinit, or after a failed init.
CHECK_DEADLOCK FALSE
