------------------------ MODULE FoolPatchguard_proofs ------------------------
(***************************************************************************)
(* Proofs about the patch session of fool-patchguard.c, for every value   *)
(* of the constants: the type invariant, and that the guest never runs    *)
(* with a patched table it cannot be watched reading.                      *)
(***************************************************************************)
EXTENDS FoolPatchguard, TLAPS

(* The guest never stores to the entry of NtLoadDriver, nor stores a value *)
(* designating NtLoadDriver: the search then finds an entry only main()    *)
(* writes.  (The design notes assume the same: no third party rewrites the *)
(* patched location.)                                                      *)
GuestStoresElsewhere ==
    /\ \A t \in KiServiceTables, k \in GuestWritable :
          SyscallAddr(t[k]) # NtLoadDriverAddr
    /\ \A w \in GuestValues : SyscallAddr(w) # NtLoadDriverAddr

\* The statements before the corrupting write, and those that run paused.
BeforePatch == {"init", "pause", "ksym", "nb_services", "search", "corrupt"}
WhilePaused == {"ksym", "nb_services", "search", "corrupt", "reread", "lookup",
                "register", "resume"}
AfterRestore == {"resume_exit", "destroy", "done"}

(* The strengthening of ProtectedWhileExposed, in named parts.  The guest *)
(* stores only where it may, and never a value the search would take for   *)
(* NtLoadDriver; so the found entry is one the guest never writes, and     *)
(* shadow keeps its true value.                                            *)
GuestShadowOK ==
    /\ \A k \in GuestWritable : SyscallAddr(shadow[k]) # NtLoadDriverAddr
    /\ \A v \in Vcpus : pending[v] = NoEvent \/ pending[v] \in Accesses

FoundOK ==
    ntload_service_table_index # -1 =>
        /\ ntload_service_table_index \notin GuestWritable
        /\ shadow[ntload_service_table_index] = ntload_service_table_val

\* mem and shadow differ at most in the found entry, and only once patched.
PatchOK ==
    /\ ~is_corrupted => mem = shadow
    /\ is_corrupted =>
          /\ ntload_service_table_index \in Idx
          /\ \A k \in Idx \ {ntload_service_table_index} : mem[k] = shadow[k]

\* Which phases of main() run unpatched, paused, registered or restored.
PhaseOK ==
    /\ pc \in BeforePatch => ~is_corrupted
    /\ pc = "corrupt" => ntload_service_table_index # -1
    /\ pc \in WhilePaused => paused
    /\ pc \in {"resume", "listen"} => registered
    /\ (pc = "error_exit" /\ is_corrupted) => (paused \/ registered)
    /\ pc \in AfterRestore => (mem = shadow \/ restore_failed)

IInv == TypeOK /\ GuestShadowOK /\ FoundOK /\ PatchOK /\ PhaseOK
-----------------------------------------------------------------------------
(***************************************************************************)
(* Type correctness.                                                       *)
(***************************************************************************)

\* A table cell is an integer.
LEMMA LongInt == LONG \subseteq Int
<1>1. LongMax \in Int
  BY LongMaxValue
<1>. QED
  BY <1>1 DEF LONG

\* Every access a vCPU may make is an Event.
LEMMA AccessesAreEvents == Accesses \subseteq Event
<1> SUFFICES ASSUME NEW e \in Accesses PROVE e \in Event
  BY DEF Accesses
<1>1. Rips \subseteq Nat
  <2>1. \A a \in Idx : EntryAddr(a) \in Nat
    BY ConstantsAssumption DEF EntryAddr, Idx
  <2>. QED
    BY <2>1, ConstantsAssumption DEF Rips
<1>2. GuestValues \cup {0} \subseteq Int
  BY ConstantsAssumption, LongInt
<1>. QED
  BY <1>1, <1>2 DEF Accesses, Event

(* Completing an access keeps the guest's state well typed: the value a   *)
(* read returns, emulated or not, is an integer.                           *)
LEMMA CompleteType ==
    ASSUME TypeOK, NEW v \in Vcpus, NEW e \in Event, NEW handled \in BOOLEAN,
           Complete(v, e, handled)
    PROVE  /\ mem' \in [Idx -> Int]
           /\ shadow' \in [Idx -> Int]
           /\ reg' \in [Vcpus -> ReadResult \cup {NoRead}]
<1>1. e.insn \in Insn
  BY ConstantsAssumption DEF Event
<1>2. /\ \A x \in Int, w \in {1, 2, 4} : Low(x, w) \in Int
      /\ NtLoadDriverAddr \in Int
  BY ConstantsAssumption DEF Low, Signed32
<1>3. CASE e.insn.access = "R"
  <2>1. /\ reg' = [reg EXCEPT ![v] =
                    [addr |-> e.gla,
                     value |-> IF handled /\ EmulatesRead(e)
                               THEN EmulatedValue(emul_read, e.insn.memSize)
                               ELSE Low(mem[e.gla], e.insn.memSize),
                     expected |-> Low(shadow[e.gla], e.insn.memSize),
                     emulated |-> handled /\ EmulatesRead(e),
                     sized |-> handled /\ Sized(e)]]
        /\ UNCHANGED <<mem, shadow>>
    BY <1>3 DEF Complete
  <2>2. EmulatedValue(emul_read, e.insn.memSize) \in Int
    BY <1>1, <1>2 DEF EmulatedValue, emul_read, Insn
  <2>3. /\ Low(mem[e.gla], e.insn.memSize) \in Int
        /\ Low(shadow[e.gla], e.insn.memSize) \in Int
    BY <1>1, <1>2 DEF TypeOK, Event, Insn
  <2>. QED
    BY <2>1, <2>2, <2>3 DEF TypeOK, Event, ReadResult
<1>4. CASE e.insn.access = "W"
  BY <1>4 DEF Complete, TypeOK, Event
<1>. QED
  BY <1>1, <1>3, <1>4 DEF Insn

\* The initial state is well typed.
LEMMA TypeInit == Init => TypeOK
<1> SUFFICES ASSUME Init PROVE TypeOK
  OBVIOUS
<1>1. i \in 0 .. NbServices /\ ntload_service_table_index \in Idx \cup {-1}
  BY ConstantsAssumption DEF Init
<1>2. mem \in [Idx -> Int] /\ shadow \in [Idx -> Int]
  <2>1. mem \in [Idx -> LONG]
    BY ConstantsAssumption DEF Init
  <2>2. \A k \in Idx : mem[k] \in Int
    BY <2>1, LongInt
  <2>3. mem \in [Idx -> Int]
    BY <2>1, <2>2, Zenon
  <2>. QED
    BY <2>3 DEF Init
<1>3. /\ pending \in [Vcpus -> Event \cup {NoEvent}]
      /\ reg \in [Vcpus -> ReadResult \cup {NoRead}]
  BY DEF Init
<1>4. ntload_service_table_val \in Int /\ retcode \in {0, 1}
  BY SMT DEF Init
<1>5. /\ pc \in Pcs
      /\ paused \in BOOLEAN /\ registered \in BOOLEAN /\ interrupted \in BOOLEAN
      /\ is_corrupted \in BOOLEAN /\ restore_failed \in BOOLEAN
  BY Zenon DEF Init, Pcs
<1>. QED
  BY <1>1, <1>2, <1>3, <1>4, <1>5 DEF TypeOK

\* Every step keeps the state well typed.
LEMMA TypeStep == TypeOK /\ [Next]_vars => TypeOK'
<1> SUFFICES ASSUME TypeOK, [Next]_vars PROVE TypeOK'
  OBVIOUS
<1>. USE DEF TypeOK, Pcs
<1>1. CASE vmi_init \/ translate_ksyms \/ read_nb_services \/ reread_entry
           \/ lookup_frame
  BY <1>1 DEF vmi_init, translate_ksyms, read_nb_services, reread_entry,
              lookup_frame, Step, search, flags, guest
<1>2. CASE vmi_pause_vm
  BY <1>2 DEF vmi_pause_vm, search, flags, guest
<1>3. CASE search_entry
  <2>1. CASE i < NbServices /\ SyscallAddr(mem[i]) = NtLoadDriverAddr
             /\ found_entry(i) /\ pc' = "corrupt" /\ UNCHANGED i
    <3>1. i \in Idx
      BY <2>1, ConstantsAssumption DEF Idx
    <3>. QED
      BY <1>3, <2>1, <3>1 DEF search_entry, found_entry, flags, guest
  <2>2. CASE i < NbServices /\ i' = i + 1
             /\ UNCHANGED <<pc, ntload_service_table_index,
                            ntload_service_table_val>>
    BY <1>3, <2>2, ConstantsAssumption DEF search_entry, flags, guest
  <2>3. CASE pc' = "error_exit" /\ UNCHANGED search
    BY <1>3, <2>3 DEF search_entry, search, flags, guest
  <2>. QED
    BY <1>3, <2>1, <2>2, <2>3 DEF search_entry
<1>4. CASE corrupt_entry
  <2>1. corrupted_value \in Int
    BY DEF corrupted_value
  <2>2. [mem EXCEPT ![ntload_service_table_index] = corrupted_value]
          \in [Idx -> Int]
    BY <2>1
  <2>. QED
    BY <1>4, <2>2 DEF corrupt_entry, search
<1>5. CASE register_event \/ vmi_resume_vm \/ loop_exit \/ listen_failure
  BY <1>5 DEF register_event, vmi_resume_vm, loop_exit, listen_failure,
              search, flags, guest
<1>6. CASE restore_entry
  BY <1>6 DEF restore_entry, search
<1>7. CASE resume_at_exit \/ vmi_destroy
  BY <1>7 DEF resume_at_exit, vmi_destroy, search, flags, guest
<1>8. ASSUME NEW v \in Vcpus, cb_on_rw_access(v) PROVE TypeOK'
  <2>1. pending[v] \in Event
    BY <1>8 DEF cb_on_rw_access, NoEvent
  <2>2. /\ mem' \in [Idx -> Int]
        /\ shadow' \in [Idx -> Int]
        /\ reg' \in [Vcpus -> ReadResult \cup {NoRead}]
    BY <1>8, <2>1, CompleteType DEF cb_on_rw_access
  <2>. QED
    BY <1>8, <2>2 DEF cb_on_rw_access, search, flags
<1>9. ASSUME NEW v \in Vcpus, NEW e \in Accesses, GuestAccess(v, e)
      PROVE TypeOK'
  BY <1>9, AccessesAreEvents, CompleteType DEF GuestAccess, search, flags
<1>10. ASSUME NEW v \in Vcpus, NEW e \in Accesses, GuestTrap(v, e)
       PROVE TypeOK'
  BY <1>10, AccessesAreEvents DEF GuestTrap, search, flags
<1>11. CASE close_handler
  BY <1>11 DEF close_handler, search, flags, guest
<1>12. CASE UNCHANGED vars
  BY <1>12 DEF vars, search, flags, guest
<1>. QED
  BY <1>1, <1>2, <1>3, <1>4, <1>5, <1>6, <1>7, <1>8, <1>9, <1>10, <1>11,
     <1>12 DEF Next, Main

(* The type invariant: the search index stays within the table, the found *)
(* index is an entry or -1, and every read returns an integer.             *)
THEOREM TypeCorrect == Spec => []TypeOK
BY TypeInit, TypeStep, PTL DEF Spec
-----------------------------------------------------------------------------
(***************************************************************************)
(* The guest never runs unwatched on a patched table.                     *)
(***************************************************************************)

\* The found index, once set, is an entry of the table.
LEMMA NotIdx == -1 \notin Idx
BY ConstantsAssumption DEF Idx

(* What an access the guest completes does to the table: nothing, or the  *)
(* same store to mem and shadow at an entry the guest may write, of a     *)
(* value it may store.                                                     *)
LEMMA CompleteTable ==
    ASSUME NEW v, NEW e \in Accesses, NEW handled, Complete(v, e, handled)
    PROVE  \/ UNCHANGED <<mem, shadow>>
           \/ /\ e.gla \in GuestWritable /\ e.wval \in GuestValues
              /\ mem' = [mem EXCEPT ![e.gla] = e.wval]
              /\ shadow' = [shadow EXCEPT ![e.gla] = e.wval]
<1>1. CASE e.insn.access = "R"
  BY <1>1 DEF Complete
<1>2. CASE e.insn.access = "W"
  <2>1. e.gla \in GuestWritable /\ e.wval \in GuestValues
    BY <1>2 DEF Accesses
  <2>. QED
    BY <1>2, <2>1 DEF Complete
<1>. QED
  BY <1>1, <1>2 DEF Complete

(* A store of the guest keeps the parts of the invariant about the table, *)
(* whatever else the step leaves alone.                                    *)
LEMMA StoreKeepsTable ==
    ASSUME GuestStoresElsewhere, TypeOK, GuestShadowOK, FoundOK, PatchOK,
           NEW k \in GuestWritable, NEW w \in GuestValues,
           mem' = [mem EXCEPT ![k] = w], shadow' = [shadow EXCEPT ![k] = w],
           UNCHANGED <<search, is_corrupted>>
    PROVE  /\ \A j \in GuestWritable : SyscallAddr(shadow'[j]) # NtLoadDriverAddr
           /\ FoundOK'
           /\ PatchOK'
           /\ mem = shadow => mem' = shadow'
<1>1. \A j \in GuestWritable : SyscallAddr(shadow'[j]) # NtLoadDriverAddr
  BY ConstantsAssumption DEF GuestStoresElsewhere, GuestShadowOK, TypeOK
<1>2. FoundOK'
  BY ConstantsAssumption DEF FoundOK, TypeOK, search
<1>3. PatchOK'
  BY ConstantsAssumption DEF PatchOK, TypeOK, search
<1>4. mem = shadow => mem' = shadow'
  OBVIOUS
<1>. QED
  BY <1>1, <1>2, <1>3, <1>4

\* The invariant holds initially.
LEMMA IInvInit ==
    ASSUME GuestStoresElsewhere, Init PROVE IInv
<1>1. TypeOK
  BY TypeInit
<1>2. GuestShadowOK
  BY DEF Init, GuestStoresElsewhere, GuestShadowOK, NoEvent
<1>3. FoundOK /\ PatchOK /\ PhaseOK
  BY DEF Init, FoundOK, PatchOK, PhaseOK, BeforePatch, WhilePaused,
         AfterRestore
<1>. QED
  BY <1>1, <1>2, <1>3 DEF IInv

(* A step that leaves the table, the search's result, is_corrupted and    *)
(* the blocked accesses alone keeps every part of the invariant but the   *)
(* phases.                                                                 *)
LEMMA TableFrame ==
    ASSUME IInv,
           UNCHANGED <<search, is_corrupted, mem, shadow, pending>>
    PROVE  GuestShadowOK' /\ FoundOK' /\ PatchOK'
BY DEF IInv, GuestShadowOK, FoundOK, PatchOK, search

(* A step that leaves main()'s position, the VM's state, the flags and    *)
(* the table alone keeps the phases.                                       *)
LEMMA PhaseFrame ==
    ASSUME PhaseOK,
           UNCHANGED <<pc, paused, registered, is_corrupted, restore_failed,
                       mem, shadow, ntload_service_table_index>>
    PROVE  PhaseOK'
BY DEF PhaseOK

\* Every step keeps the invariant.
LEMMA IInvStep ==
    ASSUME GuestStoresElsewhere, IInv, [Next]_vars PROVE IInv'
<1>. USE DEF IInv
<1>0. TypeOK'
  BY TypeStep
<1>1. ASSUME NEW from \in Pcs, NEW next \in Pcs, Step(from, next),
             from \in BeforePatch \cup WhilePaused,
             next \in BeforePatch => from \in BeforePatch,
             next \in WhilePaused => from \in WhilePaused,
             next \notin {"corrupt", "resume", "listen"} \cup AfterRestore
      PROVE  IInv'
  <2>1. UNCHANGED <<paused, registered, is_corrupted, restore_failed, mem,
                    shadow, ntload_service_table_index>>
    BY <1>1 DEF Step, search, flags, guest
  <2>2. PhaseOK'
    BY <1>1, <2>1 DEF Step, PhaseOK, BeforePatch, WhilePaused, AfterRestore
  <2>. QED
    BY <1>0, <1>1, <2>2, TableFrame DEF Step, guest, flags
<1>14. CASE vmi_init \/ translate_ksyms \/ read_nb_services \/ reread_entry
            \/ lookup_frame
  <2>. USE DEF Pcs, BeforePatch, WhilePaused, AfterRestore
  <2>1. CASE vmi_init
    BY <2>1, <1>1 DEF vmi_init
  <2>2. CASE translate_ksyms
    BY <2>2, <1>1 DEF translate_ksyms
  <2>3. CASE read_nb_services
    BY <2>3, <1>1 DEF read_nb_services
  <2>4. CASE reread_entry
    BY <2>4, <1>1 DEF reread_entry
  <2>5. CASE lookup_frame
    BY <2>5, <1>1 DEF lookup_frame
  <2>. QED
    BY <1>14, <2>1, <2>2, <2>3, <2>4, <2>5
<1>2. CASE vmi_pause_vm
  <2>1. PhaseOK'
    BY <1>2 DEF vmi_pause_vm, PhaseOK, BeforePatch, WhilePaused,
                AfterRestore, flags, guest
  <2>. QED
    BY <1>0, <1>2, <2>1, TableFrame DEF vmi_pause_vm, guest, flags
<1>3. CASE search_entry
  <2>1. CASE i < NbServices /\ SyscallAddr(mem[i]) = NtLoadDriverAddr
             /\ found_entry(i) /\ pc' = "corrupt" /\ UNCHANGED i
    <3>1. i \in Idx /\ ~is_corrupted /\ mem = shadow
      BY <1>3, <2>1, ConstantsAssumption DEF search_entry, Idx, TypeOK,
                                          PhaseOK, BeforePatch, PatchOK
    <3>2. i \notin GuestWritable
      BY <2>1, <3>1 DEF GuestShadowOK
    <3>3. FoundOK'
      BY <1>3, <2>1, <3>1, <3>2 DEF search_entry, found_entry, FoundOK,
                                    guest
    <3>4. PhaseOK'
      BY <1>3, <2>1, <3>1, NotIdx DEF search_entry, found_entry, PhaseOK,
                                      flags, BeforePatch, WhilePaused,
                                      AfterRestore
    <3>5. GuestShadowOK' /\ PatchOK'
      BY <1>3, <3>1 DEF search_entry, flags, guest, GuestShadowOK, PatchOK
    <3>. QED
      BY <1>0, <3>3, <3>4, <3>5
  <2>2. CASE /\ pc' \in {"search", "error_exit"}
             /\ UNCHANGED <<ntload_service_table_index, ntload_service_table_val>>
    <3>1. /\ pc = "search"
          /\ UNCHANGED <<paused, registered, is_corrupted, restore_failed,
                         mem, shadow, pending>>
      BY <1>3 DEF search_entry, flags, guest
    <3>2. PhaseOK'
      BY <2>2, <3>1 DEF PhaseOK, BeforePatch, WhilePaused, AfterRestore
    <3>3. GuestShadowOK' /\ FoundOK' /\ PatchOK'
      BY <2>2, <3>1 DEF GuestShadowOK, FoundOK, PatchOK
    <3>. QED
      BY <1>0, <3>2, <3>3
  <2>. QED
    BY <1>3, <2>1, <2>2 DEF search_entry, search
<1>4. CASE corrupt_entry
  <2>1. /\ ~is_corrupted /\ mem = shadow
        /\ ntload_service_table_index \in Idx
    BY <1>4, NotIdx DEF corrupt_entry, PhaseOK, BeforePatch, PatchOK, TypeOK
  <2>2. PatchOK'
    BY <1>0, <1>4, <2>1 DEF corrupt_entry, PatchOK, search, TypeOK
  <2>3. PhaseOK'
    BY <1>4, <2>1 DEF corrupt_entry, PhaseOK, BeforePatch, WhilePaused,
                      AfterRestore
  <2>4. GuestShadowOK' /\ FoundOK'
    BY <1>4 DEF corrupt_entry, search, GuestShadowOK, FoundOK
  <2>. QED
    BY <1>0, <2>2, <2>3, <2>4
<1>5. CASE register_event \/ vmi_resume_vm \/ loop_exit \/ listen_failure
  <2>1. PhaseOK'
    <3>1. CASE register_event
      BY <3>1 DEF register_event, PhaseOK, BeforePatch, WhilePaused,
                  AfterRestore, flags, guest
    <3>2. CASE vmi_resume_vm
      BY <3>2 DEF vmi_resume_vm, PhaseOK, BeforePatch, WhilePaused,
                  AfterRestore, flags, guest
    <3>3. CASE loop_exit \/ listen_failure
      BY <3>3 DEF loop_exit, listen_failure, PhaseOK, BeforePatch,
                  WhilePaused, AfterRestore, flags, guest
    <3>. QED
      BY <1>5, <3>1, <3>2, <3>3
  <2>2. UNCHANGED <<search, is_corrupted, mem, shadow, pending>>
    BY <1>5 DEF register_event, vmi_resume_vm, loop_exit, listen_failure,
                flags, guest
  <2>. QED
    BY <1>0, <2>1, <2>2, TableFrame
<1>6. CASE restore_entry
  <2>0. ASSUME is_corrupted,
               mem' = [mem EXCEPT ![ntload_service_table_index] =
                                    ntload_service_table_val]
        PROVE  mem' = shadow
    BY <2>0, NotIdx DEF PatchOK, FoundOK, TypeOK
  <2>1. is_corrupted => mem' = shadow \/ restore_failed'
    BY <1>6, <2>0 DEF restore_entry
  <2>2. ~is_corrupted => mem' = shadow
    BY <1>6 DEF restore_entry, PatchOK
  <2>3. PhaseOK'
    BY <1>6, <2>1, <2>2 DEF restore_entry, PhaseOK, BeforePatch,
                            WhilePaused, AfterRestore
  <2>4. PatchOK'
    <3>1. UNCHANGED <<search, is_corrupted, shadow>>
      BY <1>6 DEF restore_entry
    <3>2. CASE UNCHANGED mem
      BY <3>1, <3>2 DEF PatchOK, search
    <3>3. CASE mem' = shadow
      BY <3>1, <3>3, NotIdx DEF PatchOK, search, TypeOK
    <3>. QED
      BY <1>6, <2>0, <2>2, <3>2, <3>3 DEF restore_entry
  <2>5. GuestShadowOK' /\ FoundOK'
    BY <1>6 DEF restore_entry, search, GuestShadowOK, FoundOK
  <2>. QED
    BY <1>0, <2>3, <2>4, <2>5
<1>7. CASE resume_at_exit
  <2>1. PhaseOK'
    BY <1>7 DEF resume_at_exit, PhaseOK, BeforePatch, WhilePaused,
                AfterRestore, flags, guest
  <2>. QED
    BY <1>0, <1>7, <2>1, TableFrame DEF resume_at_exit, guest, flags
<1>8. CASE vmi_destroy
  <2>1. PhaseOK'
    BY <1>8 DEF vmi_destroy, PhaseOK, BeforePatch, WhilePaused,
                AfterRestore, flags
  <2>2. GuestShadowOK'
    BY <1>8 DEF vmi_destroy, GuestShadowOK
  <2>3. FoundOK' /\ PatchOK'
    BY <1>8 DEF vmi_destroy, search, flags, FoundOK, PatchOK
  <2>. QED
    BY <1>0, <2>1, <2>2, <2>3
<1>9. ASSUME NEW v \in Vcpus, cb_on_rw_access(v) PROVE IInv'
  <2>1. pending[v] \in Accesses
    BY <1>9 DEF cb_on_rw_access, GuestShadowOK
  <2>2. /\ \A j \in GuestWritable : SyscallAddr(shadow'[j]) # NtLoadDriverAddr
        /\ FoundOK' /\ PatchOK'
        /\ mem = shadow => mem' = shadow'
    <3>1. CASE UNCHANGED <<mem, shadow>>
      BY <1>9, <3>1 DEF cb_on_rw_access, GuestShadowOK, FoundOK, PatchOK,
                        search, flags
    <3>2. CASE /\ pending[v].gla \in GuestWritable
               /\ pending[v].wval \in GuestValues
               /\ mem' = [mem EXCEPT ![pending[v].gla] = pending[v].wval]
               /\ shadow' = [shadow EXCEPT ![pending[v].gla] = pending[v].wval]
      BY <1>9, <3>2, StoreKeepsTable DEF cb_on_rw_access, search, flags
    <3>. QED
      BY <1>9, <2>1, <3>1, <3>2, CompleteTable DEF cb_on_rw_access
  <2>3. \A u \in Vcpus : pending'[u] = NoEvent \/ pending'[u] \in Accesses
    BY <1>9 DEF cb_on_rw_access, GuestShadowOK, TypeOK
  <2>4. PhaseOK'
    BY <1>9, <2>2 DEF cb_on_rw_access, PhaseOK, BeforePatch, WhilePaused,
                      AfterRestore, flags
  <2>. QED
    BY <1>0, <2>2, <2>3, <2>4 DEF GuestShadowOK
<1>10. ASSUME NEW v \in Vcpus, NEW e \in Accesses, GuestAccess(v, e)
       PROVE IInv'
  <2>1. /\ \A j \in GuestWritable : SyscallAddr(shadow'[j]) # NtLoadDriverAddr
        /\ FoundOK' /\ PatchOK'
        /\ mem = shadow => mem' = shadow'
    <3>1. CASE UNCHANGED <<mem, shadow>>
      BY <1>10, <3>1 DEF GuestAccess, GuestShadowOK, FoundOK, PatchOK,
                         search, flags
    <3>2. CASE /\ e.gla \in GuestWritable /\ e.wval \in GuestValues
               /\ mem' = [mem EXCEPT ![e.gla] = e.wval]
               /\ shadow' = [shadow EXCEPT ![e.gla] = e.wval]
      BY <1>10, <3>2, StoreKeepsTable DEF GuestAccess, search, flags
    <3>. QED
      BY <1>10, <3>1, <3>2, CompleteTable DEF GuestAccess
  <2>2. PhaseOK'
    BY <1>10, <2>1 DEF GuestAccess, PhaseOK, BeforePatch, WhilePaused,
                       AfterRestore, flags
  <2>3. \A u \in Vcpus : pending'[u] = NoEvent \/ pending'[u] \in Accesses
    BY <1>10 DEF GuestAccess, GuestShadowOK
  <2>. QED
    BY <1>0, <2>1, <2>2, <2>3 DEF GuestShadowOK
<1>11. ASSUME NEW v \in Vcpus, NEW e \in Accesses, GuestTrap(v, e)
       PROVE IInv'
  <2>1. \A u \in Vcpus : pending'[u] = NoEvent \/ pending'[u] \in Accesses
    BY <1>11 DEF GuestTrap, GuestShadowOK, TypeOK
  <2>2. PhaseOK'
    BY <1>11 DEF GuestTrap, PhaseOK, BeforePatch, WhilePaused,
                 AfterRestore, flags
  <2>3. FoundOK' /\ PatchOK'
    BY <1>11 DEF GuestTrap, search, flags, FoundOK, PatchOK
  <2>4. \A j \in GuestWritable : SyscallAddr(shadow'[j]) # NtLoadDriverAddr
    BY <1>11 DEF GuestTrap, GuestShadowOK
  <2>. QED
    BY <1>0, <2>1, <2>2, <2>3, <2>4 DEF GuestShadowOK
<1>12. CASE close_handler
  <2>1. PhaseOK'
    BY <1>12, PhaseFrame DEF close_handler, flags, guest, search
  <2>. QED
    BY <1>0, <1>12, <2>1, TableFrame DEF close_handler, guest, flags
<1>13. CASE UNCHANGED vars
  <2>1. PhaseOK'
    BY <1>13, PhaseFrame DEF vars, flags, guest, search
  <2>. QED
    BY <1>0, <1>13, <2>1, TableFrame DEF vars, guest, flags
<1>. QED
  BY <1>14, <1>2, <1>3, <1>4, <1>5, <1>6, <1>7, <1>8, <1>9, <1>10, <1>11,
     <1>12, <1>13 DEF Next, Main

\* The invariant implies the property.
LEMMA IInvProtected == IInv => ProtectedWhileExposed
<1> SUFFICES ASSUME IInv, ~paused, mem # shadow
             PROVE  registered \/ restore_failed
  BY DEF ProtectedWhileExposed
<1>1. is_corrupted
  BY DEF IInv, PatchOK
<1>2. pc \in {"listen", "error_exit"} \cup AfterRestore
  BY <1>1 DEF IInv, TypeOK, Pcs, PhaseOK, BeforePatch, WhilePaused,
              AfterRestore
<1>. QED
  BY <1>1, <1>2 DEF IInv, PhaseOK

(* While the guest runs with a table that differs from the one it wrote,  *)
(* the memory event watching the patched entry is registered, unless the  *)
(* restoring write of error_exit failed: fool-patchguard.c pauses before  *)
(* the corrupting write, registers before vmi_resume_vm, and restores     *)
(* before vmi_destroy clears the event.  It rests on the guest never      *)
(* storing to the patched entry or a value designating NtLoadDriver.      *)
THEOREM Protected ==
    ASSUME GuestStoresElsewhere PROVE Spec => []ProtectedWhileExposed
<1>1. Init => IInv
  BY IInvInit
<1>2. IInv /\ [Next]_vars => IInv'
  BY IInvStep
<1>3. IInv => ProtectedWhileExposed
  BY IInvProtected
<1>. QED
  BY <1>1, <1>2, <1>3, PTL DEF Spec

(* When main() returns, the table holds exactly what the guest itself     *)
(* wrote, unless the restoring write failed: every goto error_exit path   *)
(* of fool-patchguard.c reaches the restore before vmi_destroy.  Same     *)
(* invariant, same assumption on the guest.                                *)
THEOREM NoTrace ==
    ASSUME GuestStoresElsewhere PROVE Spec => []NoTraceAtExit
<1>1. IInv => NoTraceAtExit
  BY DEF IInv, PhaseOK, AfterRestore, NoTraceAtExit
<1>. QED
  BY <1>1, IInvInit, IInvStep, PTL DEF Spec
-----------------------------------------------------------------------------
(***************************************************************************)
(* On 32-bit guests the emulated read returns the entry's true bytes.     *)
(***************************************************************************)

(* The strengthening of EmulatedReadFaithful: every cell the guest wrote   *)
(* is a LONG, the value the search kept is a LONG designating NtLoadDriver, *)
(* and no read is emulated before the patch (so the found index is set    *)
(* before any emulated read refers to it).                                 *)
FaithfulOK ==
    /\ \A k \in Idx : shadow[k] \in LONG
    /\ ntload_service_table_index # -1 =>
          /\ ntload_service_table_val \in LONG
          /\ SyscallAddr(ntload_service_table_val) = NtLoadDriverAddr
    /\ pc \in BeforePatch => \A v \in Vcpus : reg[v] = NoRead \/ ~reg[v].emulated
    /\ EmulatedReadFaithful

(* The three widths of Low, one case each.                                *)
LEMMA LowCases ==
    ASSUME NEW x, NEW w
    PROVE  /\ w = 1 => Low(x, w) = x % 256
           /\ w = 2 => Low(x, w) = x % 65536
           /\ (w # 1 /\ w # 2) => Low(x, w) = Signed32(x)
BY DEF Low

(* A 32-bit cell x designating NtLoadDriver is its address zero-extended, *)
(* so the low w bytes of the address cb_data.emul_read holds are the low  *)
(* w bytes of x, for every width a read may have.                         *)
LEMMA EmulatedMatches ==
    ASSUME ~Is64, NEW x \in LONG, SyscallAddr(x) = NtLoadDriverAddr,
           NEW w \in {1, 2, 4}
    PROVE  EmulatedValue(emul_read, w) = Low(x, w)
<1>1. EmulatedValue(emul_read, w) = Low(Unsigned32(x), w)
  BY DEF SyscallAddr, EmulatedValue, emul_read
<1>2. Unsigned32(x) % 256 = x % 256 /\ Unsigned32(x) % 65536 = x % 65536
  BY LongMaxValue DEF LONG, Unsigned32
<1>3. Signed32(Unsigned32(x)) = x
  BY LongMaxValue DEF LONG, Unsigned32, Signed32
<1>5. Signed32(x) = x
  BY DEF Signed32
<1>4. Low(Unsigned32(x), w) = Low(x, w)
  <2>1. CASE w = 1
    BY <1>2, <2>1, LowCases
  <2>2. CASE w = 2
    BY <1>2, <2>2, LowCases
  <2>3. CASE w = 4
    <3>1. w # 1 /\ w # 2
      BY <2>3
    <3>. QED
      BY <1>3, <1>5, <3>1, LowCases
  <2>. QED
    BY <2>1, <2>2, <2>3
<1>. QED
  BY <1>1, <1>4

\* The invariant holds initially.
LEMMA FaithfulInit == Init => FaithfulOK
<1> SUFFICES ASSUME Init PROVE FaithfulOK
  OBVIOUS
<1>1. \A k \in Idx : shadow[k] \in LONG
  BY ConstantsAssumption DEF Init
<1>2. pc \in BeforePatch /\ ntload_service_table_index = -1
  BY DEF Init, BeforePatch
<1>3. \A v \in Vcpus : reg[v] = NoRead
  BY DEF Init
<1>. QED
  BY <1>1, <1>2, <1>3 DEF FaithfulOK, EmulatedReadFaithful

(* The statements of main() other than the search leave the reads, the    *)
(* shadow and the search's result alone, and never go back before the     *)
(* patch.                                                                  *)
LEMMA MainFrame ==
    ASSUME TypeOK, Main, ~search_entry
    PROVE  /\ UNCHANGED <<reg, shadow, search>>
           /\ pc' \in BeforePatch => pc \in BeforePatch
<1>. USE DEF BeforePatch, Step, flags, guest, search
<1>1. CASE vmi_init \/ vmi_pause_vm \/ translate_ksyms \/ read_nb_services
  BY <1>1 DEF vmi_init, vmi_pause_vm, translate_ksyms, read_nb_services
<1>2. CASE corrupt_entry \/ reread_entry \/ lookup_frame \/ register_event
  BY <1>2 DEF corrupt_entry, reread_entry, lookup_frame, register_event
<1>3. CASE vmi_resume_vm \/ loop_exit \/ listen_failure
  BY <1>3 DEF vmi_resume_vm, loop_exit, listen_failure
<1>4. CASE restore_entry \/ resume_at_exit \/ vmi_destroy
  BY <1>4 DEF restore_entry, resume_at_exit, vmi_destroy
<1>. QED
  BY <1>1, <1>2, <1>3, <1>4 DEF Main

(* Completing an access changes at most the register of its own vCPU: a  *)
(* store leaves it, a read fills it with a record of the entry read, the   *)
(* bytes the guest expected there and, when emulated, the emulated bytes. *)
LEMMA CompleteReg ==
    ASSUME NEW v \in Vcpus, NEW e, NEW handled \in BOOLEAN,
           reg \in [Vcpus -> ReadResult \cup {NoRead}],
           Complete(v, e, handled)
    PROVE  /\ \A u \in Vcpus \ {v} : reg'[u] = reg[u]
           /\ \/ reg'[v] = reg[v]
              \/ /\ reg'[v] # NoRead
                 /\ reg'[v].addr = e.gla
                 /\ reg'[v].emulated = (handled /\ EmulatesRead(e))
                 /\ reg'[v].expected = Low(shadow[e.gla], e.insn.memSize)
                 /\ reg'[v].emulated =>
                       reg'[v].value = EmulatedValue(emul_read, e.insn.memSize)
<1>1. CASE e.insn.access = "W"
  BY <1>1 DEF Complete
<1>2. CASE e.insn.access # "W"
  <2>. DEFINE r == [addr |-> e.gla,
                    value |-> IF handled /\ EmulatesRead(e)
                              THEN EmulatedValue(emul_read, e.insn.memSize)
                              ELSE Low(mem[e.gla], e.insn.memSize),
                    expected |-> Low(shadow[e.gla], e.insn.memSize),
                    emulated |-> handled /\ EmulatesRead(e),
                    sized |-> handled /\ Sized(e)]
  <2>1. reg' = [reg EXCEPT ![v] = r]
    BY <1>2 DEF Complete
  <2>2. reg'[v] = r /\ \A u \in Vcpus \ {v} : reg'[u] = reg[u]
    BY <2>1
  <2>3. r # NoRead
    BY DEF NoRead
  <2>4. /\ r.addr = e.gla
        /\ r.emulated = (handled /\ EmulatesRead(e))
        /\ r.expected = Low(shadow[e.gla], e.insn.memSize)
        /\ r.emulated => r.value = EmulatedValue(emul_read, e.insn.memSize)
    BY Zenon
  <2>. QED
    BY <2>2, <2>3, <2>4, Zenon
<1>. QED
  BY <1>1, <1>2

(* A store of the guest writes a value of GuestValues, a LONG; a read     *)
(* leaves the shadow alone.                                                *)
LEMMA ShadowLong ==
    ASSUME FaithfulOK, NEW v, NEW e \in Accesses, NEW handled,
           Complete(v, e, handled)
    PROVE  \A k \in Idx : shadow'[k] \in LONG
<1>1. CASE UNCHANGED <<mem, shadow>>
  BY <1>1 DEF FaithfulOK
<1>2. CASE /\ e.gla \in GuestWritable /\ e.wval \in GuestValues
           /\ shadow' = [shadow EXCEPT ![e.gla] = e.wval]
  BY <1>2, ConstantsAssumption DEF FaithfulOK
<1>. QED
  BY <1>1, <1>2, CompleteTable

\* Every step keeps the invariant, on a 32-bit guest.
LEMMA FaithfulStep ==
    ASSUME ~Is64, IInv, FaithfulOK, [Next]_vars PROVE FaithfulOK'
<1>1. CASE search_entry
  <2>1. pc \in BeforePatch /\ UNCHANGED <<reg, shadow>>
    BY <1>1 DEF search_entry, BeforePatch, guest
  <2>2. \A v \in Vcpus : reg'[v] = NoRead \/ ~reg'[v].emulated
    BY <2>1 DEF FaithfulOK
  <2>3. ntload_service_table_index' # -1 =>
           /\ ntload_service_table_val' \in LONG
           /\ SyscallAddr(ntload_service_table_val') = NtLoadDriverAddr
    <3>1. CASE UNCHANGED <<ntload_service_table_index, ntload_service_table_val>>
      BY <3>1 DEF FaithfulOK
    <3>2. CASE /\ i < NbServices /\ SyscallAddr(mem[i]) = NtLoadDriverAddr
               /\ found_entry(i)
      <4>2. i \in Idx
        <5>1. i \in 0 .. NbServices /\ NbServices \in Nat
          BY ConstantsAssumption DEF IInv, TypeOK
        <5>. QED
          BY <3>2, <5>1 DEF Idx
      <4>3. ~is_corrupted
        BY <1>1 DEF search_entry, IInv, PhaseOK, BeforePatch
      <4>1. i \in Idx /\ mem = shadow
        BY <4>2, <4>3 DEF IInv, PatchOK
      <4>. QED
        BY <3>2, <4>1 DEF found_entry, FaithfulOK
    <3>. QED
      BY <1>1, <3>1, <3>2 DEF search_entry, search
  <2>. QED
    BY <2>1, <2>2, <2>3 DEF FaithfulOK, EmulatedReadFaithful
<1>2. CASE Main /\ ~search_entry
  <2>1. /\ UNCHANGED <<reg, shadow, search>>
        /\ pc' \in BeforePatch => pc \in BeforePatch
    BY <1>2, MainFrame DEF IInv
  <2>. QED
    BY <2>1 DEF FaithfulOK, EmulatedReadFaithful, search
<1>3. ASSUME NEW v \in Vcpus, cb_on_rw_access(v) PROVE FaithfulOK'
  <2>. DEFINE e == pending[v]
  <2>1. e \in Accesses /\ pc = "listen" /\ UNCHANGED <<pc, search>>
    BY <1>3 DEF cb_on_rw_access, IInv, GuestShadowOK, search
  <2>2. \A k \in Idx : shadow'[k] \in LONG
    BY <1>3, <2>1, ShadowLong DEF cb_on_rw_access
  <2>3. pc' \notin BeforePatch
    BY <2>1 DEF BeforePatch
  <2>4. EmulatedReadFaithful'
    <3>1. reg \in [Vcpus -> ReadResult \cup {NoRead}]
      BY DEF IInv, TypeOK
    <3>2. /\ \A u \in Vcpus \ {v} : reg'[u] = reg[u]
          /\ \/ reg'[v] = reg[v]
             \/ /\ reg'[v] # NoRead
                /\ reg'[v].addr = e.gla
                /\ reg'[v].emulated = (TRUE /\ EmulatesRead(e))
                /\ reg'[v].expected = Low(shadow[e.gla], e.insn.memSize)
                /\ reg'[v].emulated =>
                      reg'[v].value = EmulatedValue(emul_read, e.insn.memSize)
      <4>1. Complete(v, e, TRUE)
        BY <1>3 DEF cb_on_rw_access
      <4>. QED
        BY <3>1, <4>1, CompleteReg
    <3>3. ASSUME EmulatesRead(e), e.gla = ntload_service_table_index
          PROVE  EmulatedValue(emul_read, e.insn.memSize)
                   = Low(shadow[e.gla], e.insn.memSize)
      <4>1. ntload_service_table_index # -1
        BY <2>1, <3>3, NotIdx DEF Accesses
      <4>2. shadow[e.gla] = ntload_service_table_val
        BY <3>3, <4>1 DEF IInv, FoundOK
      <4>3. e.insn.memSize \in {1, 2, 4}
        BY <2>1, ConstantsAssumption DEF Accesses, Insn
      <4>. QED
        BY <4>1, <4>2, <4>3, EmulatedMatches DEF FaithfulOK
    <3>4. EmulatedReadFaithful
      BY DEF FaithfulOK
    <3>. QED
      BY <2>1, <3>2, <3>3, <3>4 DEF EmulatedReadFaithful, search
  <2>. QED
    BY <2>2, <2>3, <2>4, <2>1 DEF FaithfulOK, search
<1>4. ASSUME NEW v \in Vcpus, NEW e \in Accesses, GuestAccess(v, e)
      PROVE  FaithfulOK'
  <2>1. UNCHANGED <<pc, search>>
    BY <1>4 DEF GuestAccess, search
  <2>2. \A k \in Idx : shadow'[k] \in LONG
    BY <1>4, ShadowLong DEF GuestAccess
  <2>3. \A u \in Vcpus : reg'[u] = reg[u] \/ ~reg'[u].emulated
    <3>1. reg \in [Vcpus -> ReadResult \cup {NoRead}]
      BY DEF IInv, TypeOK
    <3>2. Complete(v, e, FALSE)
      BY <1>4 DEF GuestAccess
    <3>. QED
      BY <3>1, <3>2, CompleteReg
  <2>. QED
    BY <2>1, <2>2, <2>3 DEF FaithfulOK, EmulatedReadFaithful, search
<1>5. ASSUME NEW v \in Vcpus, NEW e \in Accesses, GuestTrap(v, e)
      PROVE  FaithfulOK'
  BY <1>5 DEF GuestTrap, FaithfulOK, EmulatedReadFaithful, search
<1>6. CASE close_handler \/ UNCHANGED vars
  BY <1>6 DEF close_handler, vars, guest, search, flags, FaithfulOK,
              EmulatedReadFaithful
<1>. QED
  BY <1>1, <1>2, <1>3, <1>4, <1>5, <1>6 DEF Next

(* A read of the patched entry that cb_on_rw_access answers with emulated *)
(* data returns what the guest would have read without the patch, on a    *)
(* 32-bit guest: cb_data.emul_read holds NtLoadDriver's address, which    *)
(* there is the entry's own value.  It rests on the same assumption on    *)
(* the guest as Protected (which gives the found entry's shadow).          *)
THEOREM Faithful32 ==
    ASSUME ~Is64, GuestStoresElsewhere PROVE Spec => []EmulatedReadFaithful
<1>1. Init => IInv /\ FaithfulOK
  BY IInvInit, FaithfulInit
<1>2. IInv /\ FaithfulOK /\ [Next]_vars => IInv' /\ FaithfulOK'
  BY IInvStep, FaithfulStep
<1>3. FaithfulOK => EmulatedReadFaithful
  BY DEF FaithfulOK
<1>. QED
  BY <1>1, <1>2, <1>3, PTL DEF Spec

=============================================================================
