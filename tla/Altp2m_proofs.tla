---------------------------- MODULE Altp2m_proofs ----------------------------
(***************************************************************************)
(* Proofs about the altp2m wrappers, for every set of view ids, frames    *)
(* and ceilings: the type invariant, and that the view wrappers implement *)
(* the View Manager's promise under the refinement mapping of Altp2m (Xen *)
(* state for abstract state).                                             *)
(***************************************************************************)
EXTENDS Altp2m, TLAPS

-----------------------------------------------------------------------------
(***************************************************************************)
(* Type correctness.                                                       *)
(***************************************************************************)

\* The redirections of a view stay a function from guest frames to frames.
RemapOK(f) == DOMAIN f \subseteq Gfns /\ \A g \in DOMAIN f : f[g] \in Targets

(* Xen's change_gfn keeps a view's redirections well formed: it adds a    *)
(* guest frame with a populated target, or removes one.                    *)
LEMMA RedirectType ==
    ASSUME NEW f, RemapOK(f), NEW old \in Gfns,
           NEW new \in Gfns \cup Spare \cup {INVALID_GFN}
    PROVE  RemapOK(IF new = INVALID_GFN
                   THEN [g \in DOMAIN f \ {old} |-> f[g]]
                   ELSE [g \in DOMAIN f \cup {old} |->
                            IF g = old THEN new ELSE f[g]])
<1>1. CASE new = INVALID_GFN
  BY <1>1 DEF RemapOK
<1>2. CASE new # INVALID_GFN
  BY <1>2 DEF RemapOK, Targets
<1>. QED
  BY <1>1, <1>2

\* The initial states are well typed.
LEMMA TypeInit == Init => TypeOK
BY Altp2mAssumption DEF Init, TypeOK, NoRedirect, AllViews, VM!NoCall,
                        VM!Calls

\* A failing view wrapper keeps the state well typed.
LEMMA FailureType ==
    ASSUME TypeOK, NEW c \in VM!Calls, Failure(c) PROVE TypeOK'
BY DEF Failure, TypeOK, xen, mem

\* Every step keeps the state well typed.
LEMMA TypeStep == TypeOK /\ [Next]_vars => TypeOK'
<1> SUFFICES ASSUME TypeOK, [Next]_vars PROVE TypeOK'
  OBVIOUS
<1>. DEFINE Calls == VM!Calls
<1>0. \A c \in {"get_domain_state", "set_domain_state", "create_view",
                "destroy_view", "switch_view", "remap"} :
         [call |-> c, ok |-> TRUE] \in [call : VM!Calls, ok : BOOLEAN]
  BY DEF VM!Calls
<1>1. CASE xen_altp2m_init \/ xen_altp2m_deinit
  BY <1>1 DEF xen_altp2m_init, xen_altp2m_deinit, TypeOK, xen, outs
<1>2. CASE xen_altp2m_get_domain_state
  BY <1>0, <1>2, FailureType DEF xen_altp2m_get_domain_state, Success,
                                 TypeOK, xen, mem, VM!Calls
<1>3. ASSUME NEW s \in BOOLEAN, xen_altp2m_set_domain_state(s) PROVE TypeOK'
  <2>1. CASE XcSetDomainState(s) /\ Success("set_domain_state")
             /\ UNCHANGED <<handle_ok, mem, altp2m_idx, state>>
    <3>1. CASE s
      BY <1>0, <2>1, <3>1 DEF XcSetDomainState, Success, TypeOK, mem
    <3>2. CASE ~s
      <4>1. /\ hv_view' = [id \in ViewIds |-> Absent]
            /\ hv_remap' = [id \in AllViews |-> NoRedirect]
            /\ hv_active' = 0 /\ hv_enabled' = s
        BY <2>1, <3>2 DEF XcSetDomainState
      <4>2. \A id \in AllViews : DOMAIN hv_remap'[id] = {}
        BY <4>1 DEF NoRedirect
      <4>. QED
        BY <1>0, <2>1, <4>1, <4>2 DEF Success, TypeOK, mem, AllViews
    <3>. QED
      BY <3>1, <3>2
  <2>. QED
    BY <1>3, <2>1, FailureType DEF xen_altp2m_set_domain_state, VM!Calls
<1>4. CASE xen_altp2m_create_p2m
  <2>1. CASE XcCreateView(VMI_MEMACCESS_N) /\ Success("create_view")
             /\ UNCHANGED <<handle_ok, mem, state>>
    <3>1. PICK id \in ViewIds :
             /\ hv_view' = [hv_view EXCEPT ![id] = XenAccess(VMI_MEMACCESS_N)]
             /\ altp2m_idx' = id
      BY <2>1 DEF XcCreateView
    <3>. QED
      BY <1>0, <2>1, <3>1 DEF XcCreateView, Success, TypeOK, mem,
                              VMI_MEMACCESS_N, MemAccess, XenAccessCodes,
                              AllViews
  <2>. QED
    BY <1>4, <2>1, FailureType DEF xen_altp2m_create_p2m, VM!Calls
<1>5. ASSUME NEW id \in AllViews, xen_altp2m_destroy_p2m(id) PROVE TypeOK'
  <2>1. CASE XcDestroyView(id) /\ Success("destroy_view")
             /\ UNCHANGED <<handle_ok, mem, altp2m_idx, state>>
    BY <1>0, <2>1 DEF XcDestroyView, Success, TypeOK, mem, NoRedirect,
                      AllViews
  <2>. QED
    BY <1>5, <2>1, FailureType DEF xen_altp2m_destroy_p2m, VM!Calls
<1>6. ASSUME NEW id \in AllViews, xen_altp2m_switch_p2m(id) PROVE TypeOK'
  <2>1. CASE XcSwitchToView(id) /\ Success("switch_view")
             /\ UNCHANGED <<handle_ok, mem, altp2m_idx, state>>
    BY <1>0, <2>1 DEF XcSwitchToView, Success, TypeOK, mem
  <2>. QED
    BY <1>6, <2>1, FailureType DEF xen_altp2m_switch_p2m, VM!Calls
<1>7. ASSUME NEW id \in AllViews, NEW old \in Gfns,
             NEW new \in Targets \cup {INVALID_GFN},
             xen_altp2m_change_gfn(id, old, new)
      PROVE  TypeOK'
  <2>1. CASE XcChangeGfn(id, old, new) /\ Success("remap")
             /\ UNCHANGED <<handle_ok, mem, altp2m_idx, state>>
    <3>1. RemapOK(hv_remap[id])
      BY DEF TypeOK, RemapOK
    <3>2. new \in Gfns \cup Spare \cup {INVALID_GFN}
      BY DEF Targets
    <3>3. RemapOK(hv_remap'[id])
      <4>1. hv_remap'[id] = IF new = INVALID_GFN
                 THEN [g \in DOMAIN hv_remap[id] \ {old} |-> hv_remap[id][g]]
                 ELSE [g \in DOMAIN hv_remap[id] \cup {old} |->
                          IF g = old THEN new ELSE hv_remap[id][g]]
        BY <2>1 DEF XcChangeGfn, TypeOK
      <4>. QED
        BY <3>1, <3>2, <4>1, RedirectType
    <3>4. ASSUME NEW j \in AllViews PROVE RemapOK(hv_remap'[j])
      <4>1. CASE j = id
        BY <3>3, <4>1
      <4>2. CASE j # id
        <5>1. hv_remap'[j] = hv_remap[j]
          BY <2>1, <4>2 DEF XcChangeGfn, TypeOK
        <5>. QED
          BY <5>1 DEF TypeOK, RemapOK
      <4>. QED
        BY <4>1, <4>2
    <3>. QED
      BY <1>0, <2>1, <3>4 DEF XcChangeGfn, Success, TypeOK, mem, RemapOK
  <2>. QED
    BY <1>7, <2>1, FailureType DEF xen_altp2m_change_gfn, VM!Calls
<1>8. ASSUME NEW g \in Spare,
             xen_altp2m_create_physical_page(g)
               \/ xen_altp2m_destroy_physical_page(g)
      PROVE  TypeOK'
  BY <1>8 DEF xen_altp2m_create_physical_page,
              xen_altp2m_destroy_physical_page, TypeOK, xen, outs
<1>9. CASE UNCHANGED vars
  BY <1>9 DEF vars, TypeOK, xen, mem, outs
<1>. QED
  BY <1>1, <1>2, <1>3, <1>4, <1>5, <1>6, <1>7, <1>8, <1>9 DEF Next

(* The type invariant: Xen's view state stays within the ids and frames,  *)
(* a view's redirections lead from guest frames to frames, the ceiling is *)
(* the baseline, raised or zero, and the caller holds only spare frames.  *)
THEOREM TypeCorrect == Spec => []TypeOK
BY TypeInit, TypeStep, PTL DEF Spec

-----------------------------------------------------------------------------
(***************************************************************************)
(* Refinement.  The abstract state is Xen's altp2m state and the          *)
(* wrappers' out-parameters; the caller's memory bookkeeping (ceiling,    *)
(* spare frames, phase) is invisible to the View Manager, so init, deinit *)
(* and the page wrappers are stuttering steps of it.                      *)
(***************************************************************************)

\* The views that exist are the same in Xen and in the abstraction.
LEMMA ExistingAbs == VM!Existing = Existing /\ VM!Existing' = Existing'
BY DEF VM!Existing, Existing, AbsView, Absent, VM!Absent

\* Setting Xen's view id to a sets the abstract view id to its existence.
LEMMA AbsViewSet ==
    ASSUME TypeOK, NEW id \in ViewIds, NEW a,
           hv_view' = [hv_view EXCEPT ![id] = a]
    PROVE  AbsView' = [AbsView EXCEPT ![id] = IF a = Absent THEN Absent ELSE "live"]
BY DEF TypeOK, AbsView

\* The initial state is the View Manager's.
LEMMA RefineInit == Init => VM!VMInit
BY DEF Init, VM!VMInit, NoRedirect, VM!NoRedirect, AllViews, VM!AllViews,
       AbsView

\* A view wrapper that reports failure is the View Manager's Fail.
LEMMA RefineFailure ==
    ASSUME NEW c \in VM!Calls, Failure(c) PROVE VM!Fail
BY DEF Failure, VM!Fail, xen, mem, AbsView

\* Every step is a View Manager step or leaves its state alone.
LEMMA RefineStep == TypeOK /\ [Next]_vars => [VM!VMNext]_VM!vm_vars
<1> SUFFICES ASSUME TypeOK, [Next]_vars PROVE [VM!VMNext]_VM!vm_vars
  OBVIOUS
<1>0. /\ "get_domain_state" \in VM!Calls /\ "set_domain_state" \in VM!Calls
      /\ "create_view" \in VM!Calls /\ "destroy_view" \in VM!Calls
      /\ "switch_view" \in VM!Calls /\ "remap" \in VM!Calls
  BY DEF VM!Calls
<1>1. CASE xen_altp2m_init \/ xen_altp2m_deinit
      \/ \E g \in Spare : xen_altp2m_create_physical_page(g)
                          \/ xen_altp2m_destroy_physical_page(g)
  BY <1>1 DEF xen_altp2m_init, xen_altp2m_deinit,
              xen_altp2m_create_physical_page,
              xen_altp2m_destroy_physical_page, VM!vm_vars, xen, outs,
              AbsView
<1>2. CASE xen_altp2m_get_domain_state
  BY <1>0, <1>2, RefineFailure
     DEF xen_altp2m_get_domain_state, Success, VM!VMNext, VM!GetDomainState,
         VM!Ok, xen, AbsView
<1>3. ASSUME NEW s \in BOOLEAN, xen_altp2m_set_domain_state(s)
      PROVE  [VM!VMNext]_VM!vm_vars
  <2>1. CASE XcSetDomainState(s) /\ Success("set_domain_state")
             /\ UNCHANGED <<handle_ok, mem, altp2m_idx, state>>
    <3>1. VM!SetDomainState(s)
      BY <2>1 DEF XcSetDomainState, Success, VM!SetDomainState, VM!Ok,
                  NoRedirect, VM!NoRedirect, AllViews, VM!AllViews, Absent,
                  VM!Absent, AbsView
    <3>. QED
      BY <3>1 DEF VM!VMNext
  <2>. QED
    BY <1>0, <1>3, <2>1, RefineFailure
       DEF xen_altp2m_set_domain_state, VM!VMNext
<1>4. CASE xen_altp2m_create_p2m
  <2>1. CASE XcCreateView(VMI_MEMACCESS_N) /\ Success("create_view")
             /\ UNCHANGED <<handle_ok, mem, state>>
    <3>1. VM!CreateView
      <4>1. PICK id \in ViewIds :
               /\ hv_view[id] = Absent
               /\ hv_view' = [hv_view EXCEPT ![id] = XenAccess(VMI_MEMACCESS_N)]
               /\ altp2m_idx' = id
        BY <2>1 DEF XcCreateView
      <4>2. XenAccess(VMI_MEMACCESS_N) # Absent
        BY DEF XenAccess, XenAccessNames, VMI_MEMACCESS_N, Absent
      <4>3. AbsView' = [AbsView EXCEPT ![id] = VM!Live] /\ AbsView[id] = VM!Absent
        BY <4>1, <4>2, AbsViewSet DEF VM!Live, AbsView, Absent, VM!Absent
      <4>4. hv_enabled /\ UNCHANGED <<hv_enabled, hv_active, hv_remap, state>>
            /\ status' = VM!Ok("create_view")
        BY <2>1 DEF XcCreateView, Success, VM!Ok
      <4>. QED
        BY <4>1, <4>3, <4>4 DEF VM!CreateView
    <3>. QED
      BY <3>1 DEF VM!VMNext
  <2>. QED
    BY <1>0, <1>4, <2>1, RefineFailure DEF xen_altp2m_create_p2m, VM!VMNext
<1>5. ASSUME NEW id \in AllViews, xen_altp2m_destroy_p2m(id)
      PROVE  [VM!VMNext]_VM!vm_vars
  <2>1. CASE XcDestroyView(id) /\ Success("destroy_view")
             /\ UNCHANGED <<handle_ok, mem, altp2m_idx, state>>
    <3>1. VM!DestroyView(id)
      <4>1. id \in Existing \ {0, hv_active} /\ id \in ViewIds
        BY <2>1 DEF XcDestroyView, AllViews
      <4>2. AbsView' = [AbsView EXCEPT ![id] = VM!Absent]
        BY <2>1, <4>1, AbsViewSet DEF XcDestroyView, Absent, VM!Absent
      <4>. QED
        BY <2>1, <4>1, <4>2, ExistingAbs
           DEF XcDestroyView, Success, VM!DestroyView, VM!Ok, NoRedirect,
               VM!NoRedirect
    <3>. QED
      BY <3>1 DEF VM!VMNext, AllViews, VM!AllViews
  <2>. QED
    BY <1>0, <1>5, <2>1, RefineFailure
       DEF xen_altp2m_destroy_p2m, VM!VMNext
<1>6. ASSUME NEW id \in AllViews, xen_altp2m_switch_p2m(id)
      PROVE  [VM!VMNext]_VM!vm_vars
  <2>1. CASE XcSwitchToView(id) /\ Success("switch_view")
             /\ UNCHANGED <<handle_ok, mem, altp2m_idx, state>>
    <3>1. VM!SwitchView(id)
      BY <2>1, ExistingAbs DEF XcSwitchToView, Success, VM!SwitchView,
                  VM!Ok, AbsView
    <3>. QED
      BY <3>1 DEF VM!VMNext, AllViews, VM!AllViews
  <2>. QED
    BY <1>0, <1>6, <2>1, RefineFailure
       DEF xen_altp2m_switch_p2m, VM!VMNext
<1>7. ASSUME NEW id \in AllViews, NEW old \in Gfns,
             NEW new \in Targets \cup {INVALID_GFN},
             xen_altp2m_change_gfn(id, old, new)
      PROVE  [VM!VMNext]_VM!vm_vars
  <2>1. CASE XcChangeGfn(id, old, new) /\ Success("remap")
             /\ UNCHANGED <<handle_ok, mem, altp2m_idx, state>>
    <3>1. VM!ChangeGfn(id, old, new)
      BY <2>1, ExistingAbs DEF XcChangeGfn, Success, VM!ChangeGfn,
                  VM!Ok, VM!Redirect, AbsView
    <3>. QED
      BY <3>1 DEF VM!VMNext, AllViews, VM!AllViews, Targets
  <2>. QED
    BY <1>0, <1>7, <2>1, RefineFailure
       DEF xen_altp2m_change_gfn, VM!VMNext
<1>8. CASE UNCHANGED vars
  BY <1>8 DEF vars, VM!vm_vars, xen, outs, AbsView
<1>. QED
  BY <1>1, <1>2, <1>3, <1>4, <1>5, <1>6, <1>7, <1>8 DEF Next

(* The altp2m view wrappers implement the View Manager: every status they *)
(* return is true of Xen's views, views live from create to destroy, the  *)
(* default and the active view are never destroyed, and disabling drops   *)
(* every view (the run altp2m_refine checks the same formula).            *)
THEOREM Refinement == Spec => ImplementsViewManager
<1>1. Spec => []TypeOK
  BY TypeCorrect
<1>. QED
  BY <1>1, RefineInit, RefineStep, PTL DEF Spec, ImplementsViewManager, VM!VMSpec
=============================================================================
