---------------------------- MODULE ViewManager -----------------------------
(***************************************************************************)
(* What the View Manager (the altp2m layer) promises its caller: alternate *)
(* views of the guest's physical memory that exist between a successful   *)
(* create and a successful destroy, can be switched to and can redirect a *)
(* guest frame to another frame.  A view's default access is below this   *)
(* layer's interface: the module keeps only whether a view exists.       *)
(* Every call either succeeds with its effect or reports failure and has  *)
(* none.  The default view 0 exists whenever altp2m is enabled and is     *)
(* never destroyed; the active view cannot be destroyed.                  *)
(***************************************************************************)
EXTENDS Naturals, TLAPS

(* The ids are nonzero naturals, the guest frames are among the targets, *)
(* and INVALID_GFN is no target; Altp2m, which instantiates this module,   *)
(* assumes the same of its constants.                                      *)
CONSTANTS
    ViewIds,      \* the ids an alternate view may get (view 0 is the default)
    Gfns,         \* guest frames a view may redirect
    Targets,      \* frames a redirection may lead to
    INVALID_GFN   \* the new_gfn that removes a redirection

\* The views a caller may name: the default view and the alternate ones.
AllViews == {0} \cup ViewIds

\* The state of an alternate view that does not exist, and of one that does.
Absent == "absent"
Live == "live"

\* The view calls, and the status before any call.
Calls == {"get_domain_state", "set_domain_state", "create_view", "destroy_view",
          "switch_view", "remap"}
NoCall == [call |-> "none", ok |-> FALSE]

\* The status of a call c that succeeded.
Ok(c) == [call |-> c, ok |-> TRUE]

\* A view's redirections: a function from the redirected guest frames.
NoRedirect == [g \in {} |-> INVALID_GFN]

(* The redirections f with old redirected to new, or with old's          *)
(* redirection removed when new is INVALID_GFN: the last write wins.      *)
Redirect(f, old, new) ==
    IF new = INVALID_GFN
    THEN [g \in DOMAIN f \ {old} |-> f[g]]
    ELSE [g \in DOMAIN f \cup {old} |-> IF g = old THEN new ELSE f[g]]

VARIABLES
    enabled,     \* altp2m is enabled for the domain
    view,        \* per alternate id: Absent, or the view's default access
    active,      \* the view the domain's vCPUs run on
    remap,       \* per view: its redirections
    status,      \* the last call and whether it returned success
    altp2m_idx,  \* out-parameter of create: the new view's id
    state        \* out-parameter of get_domain_state

vm_vars == <<enabled, view, active, remap, status, altp2m_idx, state>>

VMTypeOK ==
    /\ enabled \in BOOLEAN
    /\ view \in [ViewIds -> {Absent, Live}]
    /\ active \in AllViews
    /\ \A id \in AllViews : DOMAIN remap[id] \subseteq Gfns
    /\ status \in {NoCall} \cup [call : Calls, ok : BOOLEAN]
    /\ altp2m_idx \in AllViews
    /\ state \in BOOLEAN

VMInit ==
    /\ enabled = FALSE
    /\ view = [id \in ViewIds |-> Absent]
    /\ active = 0
    /\ remap = [id \in AllViews |-> NoRedirect]
    /\ status = NoCall
    /\ altp2m_idx = 0
    /\ state = FALSE

\* The views that exist: the default one while altp2m is enabled, and the
\* alternate ones created and not yet destroyed.
Existing == IF enabled THEN {0} \cup {id \in ViewIds : view[id] # Absent}
                       ELSE {}

\* Any call may fail (invalid handle, hypervisor rejection); it then has no
\* effect and leaves its out-parameters alone.
Fail ==
    /\ \E c \in Calls : status' = [call |-> c, ok |-> FALSE]
    /\ UNCHANGED <<enabled, view, active, remap, altp2m_idx, state>>

\* get_domain_state returns whether altp2m is enabled.
GetDomainState ==
    /\ status' = Ok("get_domain_state") /\ state' = enabled
    /\ UNCHANGED <<enabled, view, active, remap, altp2m_idx>>

\* set_domain_state enables altp2m, or disables it and drops every view.
SetDomainState(s) ==
    /\ status' = Ok("set_domain_state") /\ enabled' = s
    /\ IF s THEN UNCHANGED <<view, active, remap>>
            ELSE /\ view' = [id \in ViewIds |-> Absent]
                 /\ active' = 0
                 /\ remap' = [id \in AllViews |-> NoRedirect]
    /\ UNCHANGED <<altp2m_idx, state>>

\* create_view makes a fresh view and returns its id.
CreateView ==
    /\ enabled
    /\ \E id \in ViewIds :
          /\ view[id] = Absent
          /\ view' = [view EXCEPT ![id] = Live]
          /\ altp2m_idx' = id
    /\ status' = Ok("create_view")
    /\ UNCHANGED <<enabled, active, remap, state>>

\* destroy_view releases an existing alternate view that is not active.
DestroyView(id) ==
    /\ id \in Existing \ {0, active}
    /\ view' = [view EXCEPT ![id] = Absent]
    /\ remap' = [remap EXCEPT ![id] = NoRedirect]
    /\ status' = Ok("destroy_view")
    /\ UNCHANGED <<enabled, active, altp2m_idx, state>>

\* switch_view makes an existing view the active one.
SwitchView(id) ==
    /\ id \in Existing
    /\ active' = id /\ status' = Ok("switch_view")
    /\ UNCHANGED <<enabled, view, remap, altp2m_idx, state>>

\* remap redirects old to new within an existing view.
ChangeGfn(id, old, new) ==
    /\ id \in Existing
    /\ remap' = [remap EXCEPT ![id] = Redirect(remap[id], old, new)]
    /\ status' = Ok("remap")
    /\ UNCHANGED <<enabled, view, active, altp2m_idx, state>>

VMNext ==
    \/ Fail
    \/ GetDomainState
    \/ \E s \in BOOLEAN : SetDomainState(s)
    \/ CreateView
    \/ \E id \in AllViews : DestroyView(id)
    \/ \E id \in AllViews : SwitchView(id)
    \/ \E id \in AllViews, old \in Gfns, new \in Targets \cup {INVALID_GFN} :
          ChangeGfn(id, old, new)

VMSpec == VMInit /\ [][VMNext]_vm_vars
-----------------------------------------------------------------------------
(***************************************************************************)
(* What the promise guarantees at every moment.                           *)
(***************************************************************************)

(* The domain always runs on a view that exists (view 0 while altp2m is   *)
(* off), no redirection outlives its view, and after a create reported as  *)
(* a success the returned id names an alternate view that exists:        *)
(* destroying the active view is refused, disabling drops everything, and *)
(* a create never reports an id it did not make.                          *)
VMConsistent ==
    /\ active \in Existing \/ (~enabled /\ active = 0)
    /\ \A id \in AllViews : remap[id] # NoRedirect => id \in Existing
    /\ status = Ok("create_view") =>
          altp2m_idx \in Existing \ {0}

(* Its strengthening: the types, remap a function on every view, and      *)
(* nothing left over while altp2m is off.                                  *)
VMInv ==
    /\ VMTypeOK
    /\ remap = [id \in AllViews |-> remap[id]]
    /\ ~enabled => /\ view = [id \in ViewIds |-> Absent]
                   /\ active = 0
                   /\ remap = [id \in AllViews |-> NoRedirect]
    /\ VMConsistent

\* A redirection only ever adds the frame it is given.
LEMMA RedirectDomain ==
    ASSUME NEW f, NEW old, NEW new
    PROVE  DOMAIN Redirect(f, old, new) \subseteq DOMAIN f \cup {old}
BY DEF Redirect

\* The initial state satisfies the strengthening.
LEMMA VMInvInit == VMInit => VMInv
<1> SUFFICES ASSUME VMInit PROVE VMInv
  OBVIOUS
<1>1. VMTypeOK
  <2>1. \A id \in AllViews : DOMAIN remap[id] \subseteq Gfns
    BY DEF VMInit, NoRedirect
  <2>2. status \in {NoCall} \cup [call : Calls, ok : BOOLEAN]
    BY DEF VMInit
  <2>3. view \in [ViewIds -> {Absent, Live}]
    BY DEF VMInit
  <2>4. enabled \in BOOLEAN /\ active \in AllViews /\ altp2m_idx \in AllViews
        /\ state \in BOOLEAN
    BY Zenon DEF VMInit, AllViews
  <2>. QED
    BY <2>1, <2>2, <2>3, <2>4 DEF VMTypeOK
<1>2. remap = [id \in AllViews |-> remap[id]] /\ ~enabled
  BY DEF VMInit
<1>3. VMConsistent
  BY DEF VMInit, VMConsistent, NoCall, Ok
<1>. QED
  BY <1>1, <1>2, <1>3 DEF VMInit, VMInv

\* Every step of the promise keeps the strengthening.
LEMMA VMInvStep ==
    ASSUME 0 \notin ViewIds, VMInv, [VMNext]_vm_vars PROVE VMInv'
<1>. USE DEF VMInv, VMTypeOK, VMConsistent, Existing, Ok
<1>1. CASE Fail
  BY <1>1 DEF Fail, Calls
<1>2. CASE GetDomainState
  BY <1>2 DEF GetDomainState, Calls
<1>3. ASSUME NEW s \in BOOLEAN, SetDomainState(s) PROVE VMInv'
  <2>1. CASE s
    BY <1>3, <2>1 DEF SetDomainState, Calls
  <2>2. CASE ~s
    <3>1. /\ ~enabled'
          /\ view' = [id \in ViewIds |-> Absent]
          /\ active' = 0
          /\ remap' = [id \in AllViews |-> NoRedirect]
          /\ status' = Ok("set_domain_state")
          /\ UNCHANGED <<altp2m_idx, state>>
      BY <1>3, <2>2 DEF SetDomainState
    <3>2. VMTypeOK'
      <4>1. \A id \in AllViews : DOMAIN remap'[id] \subseteq Gfns
        BY <3>1 DEF NoRedirect
      <4>2. status' \in {NoCall} \cup [call : Calls, ok : BOOLEAN]
        BY <3>1 DEF Calls
      <4>3. view' \in [ViewIds -> {Absent, Live}]
        BY <3>1
      <4>5. enabled' = FALSE
        BY <3>1
      <4>6. active' \in AllViews
        BY <3>1 DEF AllViews
      <4>7. altp2m_idx' \in AllViews /\ state' \in BOOLEAN
        BY <3>1
      <4>4. /\ enabled' \in BOOLEAN /\ active' \in AllViews
            /\ altp2m_idx' \in AllViews /\ state' \in BOOLEAN
        BY <4>5, <4>6, <4>7
      <4>. QED
        BY <4>1, <4>2, <4>3, <4>4
    <3>3. VMConsistent'
      BY <3>1
    <3>. QED
      BY <3>1, <3>2, <3>3
  <2>. QED
    BY <2>1, <2>2
<1>4. CASE CreateView
  <2>1. PICK id \in ViewIds :
           /\ view[id] = Absent
           /\ view' = [view EXCEPT ![id] = Live]
           /\ altp2m_idx' = id
    BY <1>4 DEF CreateView
  <2>2. /\ enabled /\ status' = Ok("create_view")
        /\ UNCHANGED <<enabled, active, remap, state>>
    BY <1>4 DEF CreateView
  <2>3. VMTypeOK'
    BY <2>1, <2>2 DEF Calls, AllViews
  <2>4. id \in Existing' \ {0}
    BY <2>1, <2>2 DEF Absent, Live
  <2>5. Existing \subseteq Existing'
    BY <2>1, <2>2
  <2>6. VMConsistent'
    BY <2>1, <2>2, <2>4, <2>5
  <2>. QED
    BY <2>2, <2>3, <2>6
<1>5. ASSUME NEW id \in AllViews, DestroyView(id) PROVE VMInv'
  <2>1. id # active /\ id # 0 /\ enabled /\ enabled'
    BY <1>5 DEF DestroyView
  <2>2. /\ view' = [view EXCEPT ![id] = Absent]
        /\ remap' = [remap EXCEPT ![id] = NoRedirect]
        /\ status' = Ok("destroy_view")
        /\ UNCHANGED <<active, altp2m_idx, state>>
    BY <1>5 DEF DestroyView
  <2>3. VMTypeOK'
    BY <2>1, <2>2 DEF Calls, NoRedirect
  <2>4. remap' = [j \in AllViews |-> remap'[j]]
    BY <2>2
  <2>5. (active \in Existing \/ (~enabled /\ active = 0))'
    BY <2>1, <2>2
  <2>6. \A j \in AllViews : remap'[j] # NoRedirect => j \in Existing'
    BY <2>1, <2>2
  <2>. QED
    BY <2>1, <2>2, <2>3, <2>4, <2>5, <2>6
<1>6. ASSUME NEW id \in AllViews, SwitchView(id) PROVE VMInv'
  BY <1>6 DEF SwitchView, Calls
<1>7. ASSUME NEW id \in AllViews, NEW old \in Gfns,
             NEW new \in Targets \cup {INVALID_GFN}, ChangeGfn(id, old, new)
      PROVE  VMInv'
  <2>1. id \in Existing /\ enabled
    BY <1>7 DEF ChangeGfn
  <2>2. /\ remap' = [remap EXCEPT ![id] = Redirect(remap[id], old, new)]
        /\ status' = Ok("remap")
        /\ UNCHANGED <<enabled, view, active, altp2m_idx, state>>
    BY <1>7 DEF ChangeGfn
  <2>3. remap'[id] = Redirect(remap[id], old, new)
    BY <2>2
  <2>4. DOMAIN remap'[id] \subseteq Gfns
    BY <2>3, RedirectDomain
  <2>5. \A j \in AllViews \ {id} : remap'[j] = remap[j]
    BY <2>2
  <2>6. VMTypeOK'
    BY <2>2, <2>4, <2>5 DEF Calls
  <2>7. remap' = [j \in AllViews |-> remap'[j]]
    BY <2>2
  <2>8. \A j \in AllViews : remap'[j] # NoRedirect => j \in Existing'
    BY <2>1, <2>2, <2>5
  <2>. QED
    BY <2>1, <2>2, <2>6, <2>7, <2>8
<1>8. CASE UNCHANGED vm_vars
  BY <1>8 DEF vm_vars
<1>. QED
  BY <1>1, <1>2, <1>3, <1>4, <1>5, <1>6, <1>7, <1>8 DEF VMNext

(* Every behaviour the promise allows keeps VMConsistent, given that 0 is *)
(* no alternate id (Xen's ids run from 1 to MAX_ALTP2M - 1).              *)
THEOREM VMConsistentInvariant ==
    ASSUME 0 \notin ViewIds PROVE VMSpec => []VMConsistent
<1>1. VMInv => VMConsistent
  BY DEF VMInv
<1>. QED
  BY <1>1, VMInvInit, VMInvStep, PTL DEF VMSpec
=============================================================================
