------------------------------- MODULE Altp2m -------------------------------
(***************************************************************************)
(* The altp2m wrappers of src/libvmi/driver/xen/altp2m.c over the part of *)
(* Xen they drive.  Each wrapper is one action: the handle checks, the    *)
(* libxc call and the test of its return code, in the code's order.       *)
(*                                                                         *)
(* Xen is the environment.  Its state is the domain's altp2m state        *)
(* (hv_enabled, hv_view, hv_active, hv_remap), its memory ceiling maxmem  *)
(* and the spare frames it has populated.  Every hypercall may be         *)
(* rejected with no effect (a version, permission or resource error);     *)
(* when it is accepted it does what the Xen hypervisor does: create_view  *)
(* takes the lowest free id, destroy_view refuses the active view,        *)
(* change_gfn needs a populated target, populate_physmap respects the     *)
(* ceiling, and XEN_DOMCTL_max_mem accepts any ceiling.                   *)
(*                                                                         *)
(* The caller is any client of the library: it calls xen_altp2m_init      *)
(* once, then any wrapper in any order, then xen_altp2m_deinit.           *)
(***************************************************************************)
EXTENDS Naturals, FiniteSets

CONSTANTS
    ViewIds,      \* the alternate view ids Xen hands out (1 .. MAX_ALTP2M-1)
    Gfns,         \* guest frames, populated for the guest's whole life
    Spare,        \* frames above max_gpfn a caller may populate
    INVALID_GFN,  \* ~0: the new_gfn that removes a redirection
    Baseline,     \* the domain's memory ceiling before init, in KB
    Unlimited     \* the ceiling xc_domain_setmaxmem(~0) leaves

ASSUME Altp2mAssumption ==
    /\ ViewIds \subseteq Nat \ {0}
    /\ IsFiniteSet(ViewIds) /\ IsFiniteSet(Spare)
    /\ Gfns \cap Spare = {}
    /\ INVALID_GFN \notin Gfns \cup Spare
    /\ Baseline \in Nat \ {0}
    /\ Unlimited \in Nat /\ Baseline + Cardinality(Spare) < Unlimited

AllViews == {0} \cup ViewIds
Targets == Gfns \cup Spare
Absent == "absent"
NoRedirect == [g \in {} |-> INVALID_GFN]

(* Xen's xenmem_access_t, in the order of its enum: code c is the access *)
(* XenAccessNames[c + 1], from XENMEM_access_n = 0 to the domain default. *)
XenAccessNames == <<"n", "r", "w", "rw", "x", "rx", "wx", "rwx", "rx2rw",
                    "n2rwx", "default">>
XenAccessCodes == 0 .. 10
XenAccess(c) == XenAccessNames[c + 1]
MemAccess == {XenAccess(c) : c \in XenAccessCodes}

\* Xen's no-access default, the fail-closed one.
XENMEM_access_n == XenAccess(0)

(* The value create_p2m passes as the new view's default (line 149):      *)
(* LibVMI's VMI_MEMACCESS_N, the event flag 1 << 0 of its public header,  *)
(* handed to xc_altp2m_create_view unconverted.                           *)
VMI_MEMACCESS_N == 1

VARIABLES
    handle_ok,    \* xen_get_xchandle(vmi) non-NULL and the domid valid
    hv_enabled,   \* Xen: altp2m active for the domain
    hv_view,      \* Xen: per alternate id, Absent or its default access
    hv_active,    \* Xen: the view the domain's vCPUs run on
    hv_remap,     \* Xen: per view, its redirected frames
    maxmem,       \* Xen: the domain's memory ceiling
    populated,    \* Xen: the spare frames populated for the domain
    status,       \* the last view wrapper called, and whether it succeeded
    altp2m_idx,   \* create_p2m's out-parameter
    state,        \* get_domain_state's out-parameter
    init_memsize, \* the baseline xen_altp2m_init returned
    held,         \* the spare frames the caller holds, by the returns it saw
    phase         \* the caller: "new", "up", "failed" (init), "down" (deinit)

xen  == <<hv_enabled, hv_view, hv_active, hv_remap>>
mem  == <<maxmem, populated, init_memsize, held, phase>>
outs == <<status, altp2m_idx, state>>
vars == <<handle_ok, xen, mem, outs>>

\* The abstract views: which alternate views exist, their access forgotten
\* ("live" is the View Manager's Live).
AbsView == [id \in ViewIds |-> IF hv_view[id] = Absent THEN Absent ELSE "live"]

\* The View Manager's promise, over Xen's altp2m state.
VM == INSTANCE ViewManager WITH enabled <- hv_enabled, view <- AbsView,
                                active <- hv_active, remap <- hv_remap,
                                Targets <- Gfns \cup Spare

TypeOK ==
    /\ handle_ok \in BOOLEAN
    /\ hv_enabled \in BOOLEAN
    /\ hv_view \in [ViewIds -> {Absent} \cup MemAccess]
    /\ hv_active \in AllViews
    /\ hv_remap = [id \in AllViews |-> hv_remap[id]]
    /\ \A id \in AllViews : /\ DOMAIN hv_remap[id] \subseteq Gfns
                            /\ \A g \in DOMAIN hv_remap[id] : hv_remap[id][g] \in Targets
    /\ maxmem \in {0, Baseline, Unlimited}
    /\ populated \subseteq Spare
    /\ status \in {VM!NoCall} \cup [call : VM!Calls, ok : BOOLEAN]
    /\ altp2m_idx \in AllViews
    /\ state \in BOOLEAN
    /\ init_memsize \in {0, Baseline}
    /\ held \subseteq Spare
    /\ phase \in {"new", "up", "failed", "down"}

Init ==
    /\ handle_ok \in BOOLEAN
    /\ hv_enabled = FALSE
    /\ hv_view = [id \in ViewIds |-> Absent]
    /\ hv_active = 0
    /\ hv_remap = [id \in AllViews |-> NoRedirect]
    /\ maxmem = Baseline
    /\ populated = {}
    /\ status = VM!NoCall /\ altp2m_idx = 0 /\ state = FALSE
    /\ init_memsize = 0
    /\ held = {}
    /\ phase = "new"
-----------------------------------------------------------------------------
(***************************************************************************)
(* Xen's side of each hypercall, when it accepts it.                      *)
(***************************************************************************)

Existing == IF hv_enabled THEN {0} \cup {id \in ViewIds : hv_view[id] # Absent}
                          ELSE {}

\* HVMOP_altp2m_set_domain_state: disabling flushes every view.
XcSetDomainState(s) ==
    /\ hv_enabled' = s
    /\ IF s THEN UNCHANGED <<hv_view, hv_active, hv_remap>>
            ELSE /\ hv_view' = [id \in ViewIds |-> Absent]
                 /\ hv_active' = 0
                 /\ hv_remap' = [id \in AllViews |-> NoRedirect]

(* HVMOP_altp2m_create_p2m: the lowest free id, with the default access *)
(* whose xenmem_access_t code is given (Xen rejects a code out of range). *)
XcCreateView(code) ==
    LET free == {id \in ViewIds : hv_view[id] = Absent} IN
    /\ hv_enabled /\ free # {} /\ code \in XenAccessCodes
    /\ \E id \in free :
          /\ \A j \in free : id <= j
          /\ hv_view' = [hv_view EXCEPT ![id] = XenAccess(code)]
          /\ altp2m_idx' = id
    /\ UNCHANGED <<hv_enabled, hv_active, hv_remap>>

\* HVMOP_altp2m_destroy_p2m: -EBUSY for the active view, -EINVAL for 0.
XcDestroyView(id) ==
    /\ id \in Existing \ {0, hv_active}
    /\ hv_view' = [hv_view EXCEPT ![id] = Absent]
    /\ hv_remap' = [hv_remap EXCEPT ![id] = NoRedirect]
    /\ UNCHANGED <<hv_enabled, hv_active>>

\* HVMOP_altp2m_switch_p2m: every vCPU of the domain moves to the view.
XcSwitchToView(id) ==
    /\ id \in Existing
    /\ hv_active' = id
    /\ UNCHANGED <<hv_enabled, hv_view, hv_remap>>

(* HVMOP_altp2m_change_gfn: the target must be populated RAM; INVALID_GFN *)
(* drops the redirection.                                                  *)
XcChangeGfn(id, old, new) ==
    /\ id \in Existing
    /\ new \in Gfns \cup populated \cup {INVALID_GFN}
    /\ hv_remap' = [hv_remap EXCEPT ![id] =
          IF new = INVALID_GFN
          THEN [g \in DOMAIN hv_remap[id] \ {old} |-> hv_remap[id][g]]
          ELSE [g \in DOMAIN hv_remap[id] \cup {old} |->
                   IF g = old THEN new ELSE hv_remap[id][g]]]
    /\ UNCHANGED <<hv_enabled, hv_view, hv_active>>
-----------------------------------------------------------------------------
(***************************************************************************)
(* The wrappers.                                                           *)
(***************************************************************************)

\* The two checks that open the view wrappers (e.g. lines 64-71).
HandleChecks == handle_ok

\* The view wrapper c returns VMI_SUCCESS, or VMI_FAILURE and changes nothing.
Success(c) == status' = [call |-> c, ok |-> TRUE]
Failure(c) ==
    /\ status' = [call |-> c, ok |-> FALSE]
    /\ UNCHANGED <<handle_ok, xen, mem, altp2m_idx, state>>

\* xen_altp2m_get_domain_state (lines 58-79).
xen_altp2m_get_domain_state ==
    \/ ~HandleChecks /\ Failure("get_domain_state")
    \/ /\ HandleChecks
       /\ \/ /\ state' = hv_enabled /\ Success("get_domain_state")
             /\ UNCHANGED <<handle_ok, xen, mem, altp2m_idx>>
          \/ Failure("get_domain_state")

\* xen_altp2m_set_domain_state (lines 81-102).
xen_altp2m_set_domain_state(s) ==
    \/ ~HandleChecks /\ Failure("set_domain_state")
    \/ /\ HandleChecks
       /\ \/ /\ XcSetDomainState(s) /\ Success("set_domain_state")
             /\ UNCHANGED <<handle_ok, mem, altp2m_idx, state>>
          \/ Failure("set_domain_state")

\* Mutant: the return code of xc_altp2m_create_view is not looked at.
xen_altp2m_create_p2m_unchecked ==
    \/ ~HandleChecks /\ Failure("create_view")
    \/ /\ HandleChecks
       /\ \/ /\ XcCreateView(VMI_MEMACCESS_N) /\ Success("create_view")
             /\ UNCHANGED <<handle_ok, mem, state>>
          \/ Success("create_view") /\ UNCHANGED <<handle_ok, xen, mem, altp2m_idx, state>>

(* xen_altp2m_create_p2m (lines 135-156): a view defaulting to no access, *)
(* its id in the out-parameter.                                            *)
xen_altp2m_create_p2m ==
    \/ ~HandleChecks /\ Failure("create_view")
    \/ /\ HandleChecks
       /\ \/ /\ XcCreateView(VMI_MEMACCESS_N) /\ Success("create_view")
             /\ UNCHANGED <<handle_ok, mem, state>>
          \/ Failure("create_view")

\* xen_altp2m_destroy_p2m (lines 158-180).
xen_altp2m_destroy_p2m(id) ==
    \/ ~HandleChecks /\ Failure("destroy_view")
    \/ /\ HandleChecks
       /\ \/ /\ XcDestroyView(id) /\ Success("destroy_view")
             /\ UNCHANGED <<handle_ok, mem, altp2m_idx, state>>
          \/ Failure("destroy_view")

\* xen_altp2m_switch_p2m (lines 182-202).
xen_altp2m_switch_p2m(id) ==
    \/ ~HandleChecks /\ Failure("switch_view")
    \/ /\ HandleChecks
       /\ \/ /\ XcSwitchToView(id) /\ Success("switch_view")
             /\ UNCHANGED <<handle_ok, mem, altp2m_idx, state>>
          \/ Failure("switch_view")

\* Mutant: old_gfn and new_gfn passed to libxc in the wrong order.
xen_altp2m_change_gfn_swapped(id, old, new) ==
    \/ ~HandleChecks /\ Failure("remap")
    \/ /\ HandleChecks
       /\ \/ /\ XcChangeGfn(id, new, old) /\ Success("remap")
             /\ UNCHANGED <<handle_ok, mem, altp2m_idx, state>>
          \/ Failure("remap")

\* xen_altp2m_change_gfn (lines 204-224).
xen_altp2m_change_gfn(id, old, new) ==
    \/ ~HandleChecks /\ Failure("remap")
    \/ /\ HandleChecks
       /\ \/ /\ XcChangeGfn(id, old, new) /\ Success("remap")
             /\ UNCHANGED <<handle_ok, mem, altp2m_idx, state>>
          \/ Failure("remap")

(* xen_altp2m_init (lines 27-45): the baseline from xc_domain_getinfo, or *)
(* 0 when the call fails or reports another domain, then the ceiling     *)
(* raised by xc_domain_setmaxmem(~0); only a failed raise is an error.   *)
xen_altp2m_init ==
    /\ phase = "new"
    /\ \E getinfo_ok \in BOOLEAN :
          init_memsize' = IF handle_ok /\ getinfo_ok THEN Baseline ELSE 0
    /\ \/ handle_ok /\ maxmem' = Unlimited /\ phase' = "up"
       \/ UNCHANGED maxmem /\ phase' = "failed"
    /\ UNCHANGED <<handle_ok, xen, populated, held, outs>>

(* xen_altp2m_deinit (lines 47-56): the ceiling set back to init_memsize, *)
(* the result of xc_domain_setmaxmem ignored.                             *)
xen_altp2m_deinit ==
    /\ phase = "up"
    /\ \/ handle_ok /\ maxmem' = init_memsize
       \/ UNCHANGED maxmem
    /\ phase' = "down"
    /\ UNCHANGED <<handle_ok, xen, populated, init_memsize, held, outs>>

\* xen_altp2m_get_max_gpfn (lines 104-108): the max_gpfn read at attach.
xen_altp2m_get_max_gpfn(max_gpfn) == max_gpfn

(* xen_altp2m_create_physical_page (lines 110-122): one frame populated at *)
(* the caller's address, which Xen grants while the domain is under its   *)
(* ceiling.                                                                *)
xen_altp2m_create_physical_page(g) ==
    /\ g \in Spare \ held
    /\ \/ /\ handle_ok /\ g \notin populated
          /\ Baseline + Cardinality(populated) < maxmem
          /\ populated' = populated \cup {g} /\ held' = held \cup {g}
       \/ UNCHANGED <<populated, held>>
    /\ UNCHANGED <<handle_ok, xen, maxmem, init_memsize, phase, outs>>

(* xen_altp2m_destroy_physical_page (lines 124-133): the frame handed back *)
(* with xc_domain_decrease_reservation_exact, whose result is ignored:     *)
(* the wrapper returns VMI_SUCCESS and the caller drops the frame.         *)
xen_altp2m_destroy_physical_page(g) ==
    /\ g \in held
    /\ \/ handle_ok /\ g \in populated /\ populated' = populated \ {g}
       \/ UNCHANGED populated
    /\ held' = held \ {g}
    /\ UNCHANGED <<handle_ok, xen, maxmem, init_memsize, phase, outs>>

Next ==
    \/ xen_altp2m_init \/ xen_altp2m_deinit
    \/ xen_altp2m_get_domain_state
    \/ \E s \in BOOLEAN : xen_altp2m_set_domain_state(s)
    \/ xen_altp2m_create_p2m
    \/ \E id \in AllViews : xen_altp2m_destroy_p2m(id)
    \/ \E id \in AllViews : xen_altp2m_switch_p2m(id)
    \/ \E id \in AllViews, old \in Gfns, new \in Targets \cup {INVALID_GFN} :
          xen_altp2m_change_gfn(id, old, new)
    \/ \E g \in Spare : xen_altp2m_create_physical_page(g)
                        \/ xen_altp2m_destroy_physical_page(g)

Spec == Init /\ [][Next]_vars
-----------------------------------------------------------------------------
(***************************************************************************)
(* Properties.                                                             *)
(***************************************************************************)

(* The view wrappers implement the View Manager: every status they report *)
(* is true (an "ok" call had its effect, a "failed" one none), views live *)
(* from a successful create to a successful destroy, the default and the  *)
(* active view are never destroyed, and the out-parameters hold what the  *)
(* caller was promised.  Which views exist in Xen is the abstract state.  *)
ImplementsViewManager == VM!VMSpec

(* Every alternate view Xen holds for the domain defaults to no access,  *)
(* so a page is visible in a new view only once it is remapped: the       *)
(* fail-closed create_view of the design (spec section 4.3).              *)
CreatedFailClosed == \A id \in ViewIds : hv_view[id] \in {Absent, XENMEM_access_n}

(* After xen_altp2m_deinit, the domain's ceiling is the one it had before *)
(* xen_altp2m_init (or still the raised one, had the restore failed):     *)
(* the design says deinit restores the prior ceiling, and init fails when *)
(* it cannot query it.                                                     *)
CeilingRestored ==
    phase = "down" => maxmem \in {Baseline, Unlimited}
=============================================================================
