\* A view created by xen_altp2m_create_p2m, against the fail-closed default of the design.
CONSTANTS
    ViewIds <- MCViewIds
    Gfns <- MCGfns
    Spare <- MCSpare
    INVALID_GFN = INVALID_GFN
    Baseline <- MCBaseline
    Unlimited <- MCUnlimited
SPECIFICATION Spec
INVARIANT CreatedFailClosed
\* A caller may stop calling after deinit, or after a failed init.
CHECK_DEADLOCK FALSE
