--------------------------- MODULE FoolPatchguard ---------------------------
(***************************************************************************)
(* The patch session of src/examples/fool-patchguard.c: main() pauses the  *)
(* guest, searches nt!KiServiceTable for the entry of NtLoadDriver,       *)
(* overwrites that entry with 0, registers a read/write memory event on   *)
(* the entry's frame, resumes the guest and dispatches events until a     *)
(* signal arrives; on every exit path it restores the entry, resumes the  *)
(* guest and destroys the LibVMI instance.  The event callback            *)
(* cb_on_rw_access decodes the faulting instruction and may answer a read *)
(* with emulated data.                                                     *)
(*                                                                         *)
(* The guest is the environment: each vCPU reads or writes entries of the *)
(* table page while the VM is not paused; while the event is registered   *)
(* such an access traps and the vCPU stays blocked until the callback     *)
(* (or the teardown) answers it.  The ghost variable shadow is the table  *)
(* as the guest alone would have left it: what a stealthy patch must show *)
(* to the guest.                                                           *)
(***************************************************************************)
EXTENDS Integers, FiniteSets

CONSTANTS
    Is64,               \* vmi_get_address_width(vmi) == sizeof(uint64_t)
    NbServices,         \* SSDT.NumberOfServices as read from the guest
    KiServiceTables,    \* the contents nt!KiServiceTable's LONG entries may have
    KiServiceTableAddr, \* virtual address of nt!KiServiceTable
    NtLoadDriverAddr,   \* virtual address of nt!NtLoadDriver
    CodeAddrs,          \* addresses of guest code outside the table page
    Vcpus,              \* the guest's virtual CPUs
    Insns,              \* instructions the guest may run on the table page
    GuestValues,        \* values the guest itself may store in the table
    GuestWritable       \* table indices the guest itself may store to

Idx == 0 .. NbServices - 1

(* The largest LONG, 2^31 - 1, written out so that TLC stays within its  *)
(* integers; the proofs use it only through LongMaxValue.                 *)
LongMax == 2147483647

ASSUME LongMaxValue == LongMax = 2^30 + (2^30 - 1)

(* The values of a 32-bit table cell, as the LONG the SSDT declares them   *)
(* (line 257).                                                             *)
LONG == (-LongMax - 1) .. LongMax

(* The instruction as bddisasm sees it: valid is NdDecodeEx's success,     *)
(* mnemonic the decoded insn->Instruction, access the MemoryAccess         *)
(* direction, dstSize insn->Operands[0].Size and memSize the width of the  *)
(* memory operand the CPU really accesses.                                *)
Insn == [valid : BOOLEAN, mnemonic : {"MOV", "MOVZX", "MOVSXD", "OTHER"},
         access : {"R", "W"}, dstSize : {1, 2, 4, 8}, memSize : {1, 2, 4}]

ASSUME ConstantsAssumption ==
    /\ Is64 \in BOOLEAN
    /\ NbServices \in Nat
    /\ KiServiceTables \subseteq [Idx -> LONG]
    /\ KiServiceTableAddr \in Nat
    /\ NtLoadDriverAddr \in Nat
    /\ CodeAddrs \subseteq Nat
    /\ Insns \subseteq Insn
    /\ GuestValues \subseteq LONG
    /\ GuestWritable \subseteq Idx

\* The value a successful vmi_write_32_va stores over the entry.
corrupted_value == 0

\* The address of entry k of the table (lines 282 and 314).
EntryAddr(k) == KiServiceTableAddr + 4 * k

\* The uint32_t ki_service_entry_val holding the bits of a cell.
Unsigned32(x) == IF x < 0 THEN x + 2^32 ELSE x

(* ki_service_entry_val >> 4 on the uint32_t: a logical shift, so the     *)
(* sign bit of a negative cell is shifted in as a 1 at bit 27.            *)
ShiftRight4(x) == IF x < 0 THEN x \div 16 + 2^28 ELSE x \div 16

(* syscall_addr: the cell zero-extended on 32-bit guests, on 64-bit        *)
(* guests the table's address plus the shifted cell (lines 288-295).       *)
SyscallAddr(entry) == IF Is64 THEN KiServiceTableAddr + ShiftRight4(entry)
                              ELSE Unsigned32(entry)

(* The bits of x as a LONG: what a 4-byte read of x returns in the model's *)
(* representation of a cell.                                               *)
Signed32(x) == IF x \in LONG THEN x ELSE ((x + 2^31) % 2^32) - 2^31

(* The low w bytes of a value, the bytes a w-byte read of it returns: an   *)
(* unsigned byte or word, or a LONG for a 4-byte read.                     *)
Low(x, w) == IF w = 1 THEN x % 256 ELSE IF w = 2 THEN x % 65536 ELSE Signed32(x)

\* Mutant: the emulated data copied from corrupted_value instead.
emul_read_corrupted == [dont_free |-> 1, size |-> 8, data |-> corrupted_value]

(* cb_data.emul_read: dont_free set, size = sizeof(ntload_driver_addr) and *)
(* the data the bytes of the resolved NtLoadDriver address.               *)
emul_read == [dont_free |-> 1, size |-> 8, data |-> NtLoadDriverAddr]

(* What the hypervisor returns to a memSize-byte read answered with        *)
(* emulated data er: the low min(size, memSize) bytes of er.data.          *)
EmulatedValue(er, w) == Low(er.data, IF er.size < w THEN er.size ELSE w)

(* mem_access_size_from_insn: the destination operand's size for a read   *)
(* by MOV, MOVZX or MOVSXD, and 0 (the function returns false) otherwise.  *)
mem_access_size_from_insn(insn) ==
    IF insn.access = "R" /\ insn.mnemonic \in {"MOV", "MOVZX", "MOVSXD"}
    THEN insn.dstSize ELSE 0

NoEvent == [none |-> TRUE]
NoRead  == [none |-> TRUE]

\* A trapped access: faulting entry, instruction, RIP, whether the 15 bytes
\* at RIP could be read, and the value a write stores.
Event == [gla : Idx, insn : Insns, rip : Nat, window : BOOLEAN, wval : Int]

\* What a read leaves in reg: the entry read, the value returned, the value
\* the guest would have read without the patch, whether the data was
\* emulated, and whether cb_on_rw_access could size the instruction.
ReadResult == [addr : Idx, value : Int, expected : Int, emulated : BOOLEAN,
               sized : BOOLEAN]

VARIABLES
    pc,             \* the statement of main() that runs next
    paused,         \* the guest is paused by vmi_pause_vm
    registered,     \* read_event is registered with LibVMI
    interrupted,    \* set by close_handler on a signal
    i,              \* the search loop's index
    ntload_service_table_index, \* the entry found, -1 before
    ntload_service_table_val,   \* the entry's value before the patch
    is_corrupted,   \* the corrupting write succeeded
    restore_failed, \* the restoring write failed
    retcode,        \* the process's exit code
    mem,            \* the table in guest memory
    shadow,         \* ghost: the table with only the guest's own stores
    pending,        \* per vCPU: the access it is blocked on, or NoEvent
    reg             \* per vCPU: what its last read returned

search == <<i, ntload_service_table_index, ntload_service_table_val>>
flags  == <<is_corrupted, restore_failed, retcode>>
guest  == <<mem, shadow, pending, reg>>
vars   == <<pc, paused, registered, interrupted, search, flags, guest>>

Pcs == {"init", "pause", "ksym", "nb_services", "search", "corrupt", "reread",
        "lookup", "register", "resume", "listen", "error_exit", "resume_exit",
        "destroy", "done"}

TypeOK ==
    /\ pc \in Pcs
    /\ paused \in BOOLEAN
    /\ registered \in BOOLEAN
    /\ interrupted \in BOOLEAN
    /\ i \in 0 .. NbServices
    /\ ntload_service_table_index \in Idx \cup {-1}
    /\ ntload_service_table_val \in Int
    /\ is_corrupted \in BOOLEAN
    /\ restore_failed \in BOOLEAN
    /\ retcode \in {0, 1}
    /\ mem \in [Idx -> Int]
    /\ shadow \in [Idx -> Int]
    /\ pending \in [Vcpus -> Event \cup {NoEvent}]
    /\ reg \in [Vcpus -> ReadResult \cup {NoRead}]

Init ==
    /\ pc = "init"
    /\ paused = FALSE
    /\ registered = FALSE
    /\ interrupted = FALSE
    /\ i = 0
    /\ ntload_service_table_index = -1
    /\ ntload_service_table_val = 0
    /\ is_corrupted = FALSE
    /\ restore_failed = FALSE
    /\ retcode = 1
    /\ mem \in KiServiceTables
    /\ shadow = mem
    /\ pending = [v \in Vcpus |-> NoEvent]
    /\ reg = [v \in Vcpus |-> NoRead]
-----------------------------------------------------------------------------
(***************************************************************************)
(* main(): one action per statement that can fail.  Every failure jumps   *)
(* to error_exit, as the goto statements of the code do.                   *)
(***************************************************************************)

\* A step that changes no modelled state: it succeeds and goes on to next,
\* or fails and jumps to error_exit.
Step(from, next) ==
    /\ pc = from
    /\ pc' \in {next, "error_exit"}
    /\ UNCHANGED <<paused, registered, interrupted, search, flags, guest>>

\* vmi_init_complete and the address width (lines 207-218).
vmi_init == Step("init", "pause")

\* Mutant: vmi_pause_vm reports success without pausing.
vmi_pause_vm_noop == Step("pause", "ksym")

\* vmi_pause_vm (lines 220-225).
vmi_pause_vm ==
    /\ pc = "pause"
    /\ \/ pc' = "ksym" /\ paused' = TRUE
       \/ pc' = "error_exit" /\ UNCHANGED paused
    /\ UNCHANGED <<registered, interrupted, search, flags, guest>>

\* The three vmi_translate_ksym2v calls (lines 227-249).
translate_ksyms == Step("ksym", "nb_services")

\* vmi_read_addr_va of SSDT.NumberOfServices (lines 269-276).
read_nb_services == Step("nb_services", "search")

\* Mutant: the found entry's index recorded one too high.
found_entry_off_by_one(k) ==
    ntload_service_table_index' = k + 1 /\ ntload_service_table_val' = mem[k]

\* The entry k designates NtLoadDriver: its index and value are kept
\* (lines 300-304).
found_entry(k) ==
    ntload_service_table_index' = k /\ ntload_service_table_val' = mem[k]

(* One iteration of the search loop (lines 278-310): read entry i and stop *)
(* at the first entry that designates NtLoadDriver.  An exhausted table or *)
(* a failed vmi_read_32_va jumps to error_exit.                            *)
search_entry ==
    /\ pc = "search"
    /\ \/ /\ i >= NbServices
          /\ pc' = "error_exit" /\ UNCHANGED search
       \/ /\ i < NbServices
          /\ pc' = "error_exit" /\ UNCHANGED search
       \/ /\ i < NbServices /\ SyscallAddr(mem[i]) = NtLoadDriverAddr
          /\ found_entry(i)
          /\ pc' = "corrupt" /\ UNCHANGED i
       \/ /\ i < NbServices /\ SyscallAddr(mem[i]) # NtLoadDriverAddr
          /\ i' = i + 1
          /\ UNCHANGED <<pc, ntload_service_table_index,
                         ntload_service_table_val>>
    /\ UNCHANGED <<paused, registered, interrupted, flags, guest>>

\* Mutant: the entry is overwritten but is_corrupted is never set.
corrupt_entry_unflagged ==
    /\ pc = "corrupt"
    /\ mem' = [mem EXCEPT ![ntload_service_table_index] = corrupted_value]
    /\ pc' = "reread"
    /\ UNCHANGED <<paused, registered, interrupted, search, flags, shadow,
                   pending, reg>>

(* The corrupting vmi_write_32_va, is_corrupted = true and the page-cache  *)
(* flush (lines 312-323).                                                  *)
corrupt_entry ==
    /\ pc = "corrupt"
    /\ \/ /\ mem' = [mem EXCEPT ![ntload_service_table_index] = corrupted_value]
          /\ is_corrupted' = TRUE
          /\ pc' = "reread"
       \/ pc' = "error_exit" /\ UNCHANGED <<mem, is_corrupted>>
    /\ UNCHANGED <<paused, registered, interrupted, search, restore_failed,
                   retcode, shadow, pending, reg>>

\* Re-reading the entry (lines 325-330).
reread_entry == Step("reread", "lookup")

\* vmi_get_vcpureg(CR3) and vmi_pagetable_lookup of the entry (332-347).
lookup_frame == Step("lookup", "register")

(* SETUP_MEM_EVENT on the entry's frame with VMI_MEMACCESS_RW, cb_data,   *)
(* and vmi_register_event (lines 348-364).                                 *)
register_event ==
    /\ pc = "register"
    /\ \/ pc' = "resume" /\ registered' = TRUE
       \/ pc' = "error_exit" /\ UNCHANGED registered
    /\ UNCHANGED <<paused, interrupted, search, flags, guest>>

\* vmi_resume_vm before the event loop (lines 366-372).
vmi_resume_vm ==
    /\ pc = "resume"
    /\ \/ pc' = "listen" /\ paused' = FALSE
       \/ pc' = "error_exit" /\ UNCHANGED paused
    /\ UNCHANGED <<registered, interrupted, search, flags, guest>>

\* Mutant: the event loop never looks at interrupted.
loop_exit_never == FALSE

\* The loop's exit on a signal, and retcode = 0 (lines 373, 379-381).
loop_exit ==
    /\ pc = "listen" /\ interrupted
    /\ pc' = "error_exit" /\ retcode' = 0
    /\ UNCHANGED <<paused, registered, interrupted, search, is_corrupted,
                   restore_failed, guest>>

\* A failing vmi_events_listen (lines 374-377).
listen_failure ==
    /\ pc = "listen" /\ ~interrupted
    /\ pc' = "error_exit"
    /\ UNCHANGED <<paused, registered, interrupted, search, flags, guest>>

\* Restoring the entry if it was corrupted (lines 382-389).
restore_entry ==
    /\ pc = "error_exit"
    /\ pc' = "resume_exit"
    /\ \/ /\ is_corrupted
          /\ mem' = [mem EXCEPT ![ntload_service_table_index] =
                                    ntload_service_table_val]
          /\ UNCHANGED restore_failed
       \/ is_corrupted /\ restore_failed' = TRUE /\ UNCHANGED mem
       \/ ~is_corrupted /\ UNCHANGED <<mem, restore_failed>>
    /\ UNCHANGED <<paused, registered, interrupted, search, is_corrupted,
                   retcode, shadow, pending, reg>>

\* The unconditional vmi_resume_vm, whose result is ignored (line 390).
resume_at_exit ==
    /\ pc = "resume_exit"
    /\ pc' = "destroy"
    /\ paused' \in {FALSE, paused}
    /\ UNCHANGED <<registered, interrupted, search, flags, guest>>

\* Mutant: vmi_destroy leaves the blocked accesses unanswered.
vmi_destroy_no_drain ==
    /\ pc = "destroy"
    /\ pc' = "done" /\ registered' = FALSE
    /\ UNCHANGED <<paused, interrupted, search, flags, guest>>

(* vmi_destroy (line 392): the event is cleared, and the accesses still   *)
(* blocked on it are released to retry natively.                           *)
vmi_destroy ==
    /\ pc = "destroy"
    /\ pc' = "done" /\ registered' = FALSE
    /\ pending' = [v \in Vcpus |-> NoEvent]
    /\ UNCHANGED <<paused, interrupted, search, flags, mem, shadow, reg>>
-----------------------------------------------------------------------------
(***************************************************************************)
(* The event callback and the guest.                                      *)
(***************************************************************************)

\* The addresses a faulting instruction may sit at: guest code, or (on a
\* page without NX) the table page itself.
Rips == CodeAddrs \cup {EntryAddr(a) : a \in Idx}

\* The accesses a vCPU may make to the table page: a read, or a store of a
\* guest value to an entry the guest writes.
Accesses ==
    {e \in [gla : Idx, insn : Insns, rip : Rips, window : BOOLEAN,
            wval : GuestValues \cup {0}] :
        \/ e.insn.access = "R" /\ e.wval = 0
        \/ e.insn.access = "W" /\ e.gla \in GuestWritable /\ e.wval \in GuestValues}

(* cb_on_rw_access can size the access: a read, all 15 bytes at RIP read, *)
(* the bytes decode, and mem_access_size_from_insn accepts the insn        *)
(* (lines 116-154).                                                        *)
Sized(e) ==
    /\ e.insn.access = "R"
    /\ e.window
    /\ e.insn.valid
    /\ mem_access_size_from_insn(e.insn) # 0

(* cb_on_rw_access answers VMI_EVENT_RESPONSE_SET_EMUL_READ_DATA when the  *)
(* access is sized and RIP equals cb_data->ntload_driver_entry_addr        *)
(* (lines 157-163), and VMI_EVENT_RESPONSE_NONE otherwise.                 *)
EmulatesRead(e) ==
    /\ Sized(e)
    /\ e.rip = EntryAddr(ntload_service_table_index)

(* The access e of vCPU v completes, handled by cb_on_rw_access or not: a *)
(* read fills reg[v] with the emulated data or the bytes in memory, a     *)
(* store writes memory (and the shadow).                                   *)
Complete(v, e, handled) ==
    LET emulate == handled /\ EmulatesRead(e) IN
    \/ /\ e.insn.access = "R"
       /\ reg' = [reg EXCEPT ![v] =
                    [addr |-> e.gla,
                     value |-> IF emulate
                               THEN EmulatedValue(emul_read, e.insn.memSize)
                               ELSE Low(mem[e.gla], e.insn.memSize),
                     expected |-> Low(shadow[e.gla], e.insn.memSize),
                     emulated |-> emulate,
                     sized |-> handled /\ Sized(e)]]
       /\ UNCHANGED <<mem, shadow>>
    \/ /\ e.insn.access = "W"
       /\ mem' = [mem EXCEPT ![e.gla] = e.wval]
       /\ shadow' = [shadow EXCEPT ![e.gla] = e.wval]
       /\ UNCHANGED reg

(* vmi_events_listen dispatches the access vCPU v is blocked on to         *)
(* cb_on_rw_access, and the vCPU resumes with its response                 *)
(* (lines 102-166 and 374).                                                *)
cb_on_rw_access(v) ==
    /\ pc = "listen" /\ ~interrupted
    /\ pending[v] # NoEvent
    /\ Complete(v, pending[v], TRUE)
    /\ pending' = [pending EXCEPT ![v] = NoEvent]
    /\ UNCHANGED <<pc, paused, registered, interrupted, search, flags>>

\* A running vCPU accesses the page while no event is registered on it.
GuestAccess(v, e) ==
    /\ ~paused /\ ~registered
    /\ pending[v] = NoEvent
    /\ Complete(v, e, FALSE)
    /\ UNCHANGED <<pc, paused, registered, interrupted, search, flags, pending>>

\* A running vCPU accesses the watched page: it traps and blocks.
GuestTrap(v, e) ==
    /\ ~paused /\ registered
    /\ pending[v] = NoEvent
    /\ pending' = [pending EXCEPT ![v] = e]
    /\ UNCHANGED <<pc, paused, registered, interrupted, search, flags, mem,
                   shadow, reg>>

\* close_handler: SIGHUP, SIGTERM, SIGINT or SIGALRM sets interrupted.
close_handler ==
    /\ ~interrupted /\ interrupted' = TRUE
    /\ UNCHANGED <<pc, paused, registered, search, flags, guest>>

\* The statements of main(), in the order the code runs them.
Main ==
    \/ vmi_init \/ vmi_pause_vm \/ translate_ksyms \/ read_nb_services
    \/ search_entry \/ corrupt_entry \/ reread_entry \/ lookup_frame
    \/ register_event \/ vmi_resume_vm \/ loop_exit \/ listen_failure
    \/ restore_entry \/ resume_at_exit \/ vmi_destroy

Next ==
    \/ Main
    \/ \E v \in Vcpus : cb_on_rw_access(v)
    \/ \E v \in Vcpus, e \in Accesses : GuestAccess(v, e) \/ GuestTrap(v, e)
    \/ close_handler

Spec == Init /\ [][Next]_vars

(* The statements of main() that the thread itself is bound to take: all *)
(* but a failing vmi_events_listen, which is the hypervisor's doing.       *)
MainProgress ==
    \/ vmi_init \/ vmi_pause_vm \/ translate_ksyms \/ read_nb_services
    \/ search_entry \/ corrupt_entry \/ reread_entry \/ lookup_frame
    \/ register_event \/ vmi_resume_vm \/ loop_exit
    \/ restore_entry \/ resume_at_exit \/ vmi_destroy

(* main() is a single thread that always gets to run, and the hypervisor   *)
(* hands the blocked accesses to the listener in ring order: weak fairness *)
(* for main()'s own progress and for the dispatch of each vCPU's access.  *)
(* The guest, the signal and a listen failure are not fair: none is bound *)
(* to happen.                                                              *)
FairSpec == Spec /\ WF_vars(MainProgress) /\ \A v \in Vcpus : WF_vars(cb_on_rw_access(v))
-----------------------------------------------------------------------------
(***************************************************************************)
(* Properties.                                                             *)
(***************************************************************************)

(* Whenever the guest runs while its table differs from what it wrote     *)
(* itself, the read/write event is registered on the page, unless the     *)
(* restoring write failed: pausing before the corruption, registering     *)
(* before vmi_resume_vm and restoring before vmi_destroy keep the patched *)
(* entry from ever being read unwatched.                                   *)
ProtectedWhileExposed ==
    (~paused /\ mem # shadow) => (registered \/ restore_failed)

(* When main() returns, every entry holds what the guest itself last wrote *)
(* there, unless the restoring write failed: every exit path, through any  *)
(* goto error_exit, undoes the patch.                                      *)
NoTraceAtExit ==
    (pc = "done" /\ ~restore_failed) => mem = shadow

(* A read of the patched entry that cb_on_rw_access answers with emulated *)
(* data returns the bytes the guest would have read without the patch:    *)
(* cb_data.emul_read must hold the entry's true value.                    *)
EmulatedReadFaithful ==
    \A v \in Vcpus :
        (reg[v] # NoRead /\ reg[v].emulated
         /\ reg[v].addr = ntload_service_table_index)
            => reg[v].value = reg[v].expected

(* The handler a cell designates as Windows reads it: the LONG offset     *)
(* shifted arithmetically on 64-bit guests (the SSDT's LONG* of line 257). *)
HandlerOf(entry) == IF Is64 THEN KiServiceTableAddr + entry \div 16
                            ELSE Unsigned32(entry)

(* The search passes over only entries that do not designate NtLoadDriver, *)
(* so it gives up (i = NbServices, no index) only when the table has no   *)
(* such entry: the comment of lines 290-292 and the SSDT's LONG entries.  *)
SearchSound ==
    ntload_service_table_index = -1 =>
        \A k \in 0 .. i - 1 : HandlerOf(mem[k]) # NtLoadDriverAddr

(* Every read of the patched entry that traps to the callback, by an       *)
(* instruction the callback can decode and size, returns the value the     *)
(* guest would have read without the patch: the stealth the tool exists   *)
(* for.                                                                    *)
StealthRead ==
    \A v \in Vcpus :
        (reg[v] # NoRead /\ reg[v].sized
         /\ reg[v].addr = ntload_service_table_index)
            => reg[v].value = reg[v].expected

(* After a signal, main() leaves the event loop and returns.               *)
Termination == interrupted ~> (pc = "done")

(* A vCPU blocked on a trapped access is eventually released, by the       *)
(* callback or by vmi_destroy: the guest is never left hanging.            *)
VcpuReleased == \A v \in Vcpus : (pending[v] # NoEvent) ~> (pending[v] = NoEvent)
=============================================================================
