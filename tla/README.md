# Formal models of fool-patchguard and the Xen altp2m wrappers

This directory holds TLA+ models of the two source files of the repository:

- `src/examples/fool-patchguard.c` patches a Windows guest's system-call table. Its main loop and event callback are modelled.
- `src/libvmi/driver/xen/altp2m.c` holds LibVMI's wrappers over Xen's alternate-view (altp2m) and memory hypercalls.

The directory also holds:

- the TLC configurations that check the models on small instances;
- TLAPS proofs of the most important invariants and of a refinement, for all values of the constants.

`PROJECT.json` lists the components, runs, mutants, the map from definitions to source lines, the findings, the hazards and the theorems.

## The system

`spec.md` names five components. This is how they appear in the code.

| Component (spec.md) | Code | Module |
|---|---|---|
| Patch Session Controller (§4.5) | `main()`, lines 168-392 | `FoolPatchguard` |
| Access Monitor (§4.4) | the read/write event registered at 348-364, the `vmi_events_listen` loop at 373-378, and `vmi_destroy` | `FoolPatchguard` |
| Instruction Access-Size Resolver (§4.1) | `mem_access_size_from_insn`, 72-100 | `FoolPatchguard` |
| Emulation Substitution Builder (§4.2) | `cb_data.emul_read`, 350-356 | `FoolPatchguard` |
| View Manager (§4.3) | every function of `altp2m.c` | `Altp2m` refines `ViewManager` |
| CLI and signals (§6) | `close_handler` (modelled); argument parsing (not modelled) | `FoolPatchguard` |

How the components interact:

- **Pausing and searching.** `main()` pauses the guest. It then resolves three symbols and reads `NumberOfServices`. Next it searches `nt!KiServiceTable` for the entry whose handler is `NtLoadDriver`. On 64-bit guests an entry is an offset: the handler is at `table + (entry >> 4)`.
- **Patching.** It overwrites the entry with 0. It then re-reads the entry and finds the entry's frame.
- **Protecting.** It registers a read/write memory event on that frame, resumes the guest and dispatches events until a signal sets `interrupted`.
- **Teardown.** Every exit goes through `error_exit`. This path restores the entry if the corrupting write succeeded, resumes the guest (ignoring the result) and calls `vmi_destroy`.
- **The callback.** Each trapped access reaches `cb_on_rw_access`. For a read, the callback:
  1. reads 15 bytes at RIP;
  2. decodes them with bddisasm;
  3. sizes the access;
  4. answers with emulated data (`cb_data.emul_read`) when RIP equals the entry's address.
- **The View Manager.** It is independent of the patch session. Its wrappers forward to libxc after checking the handle and the domain id.

## The modules

### `FoolPatchguard` (patch session, access monitor, resolver, builder)

**State.** `main()`'s locals that the control flow depends on:

- `pc`, one label per statement that can fail;
- `i`, `ntload_service_table_index` and `ntload_service_table_val`;
- `is_corrupted` and `retcode`.

Plus the environment LibVMI and Xen present:

- `paused` and `registered`;
- `mem`, the table in guest memory;
- `pending`, the access each vCPU is blocked on;
- `reg`, what each vCPU's last read returned.

It also has two variables the code does not have:

- `restore_failed` records that the restoring write failed. The properties exempt that case, which the code accepts.
- `shadow` is a ghost: the table as the guest alone would have left it. It is the value a stealthy patch must show.

**Actions.** There is one action per statement of `main()`, in code order.

- A LibVMI call that can fail has a disjunct that jumps to `error_exit`, as the `goto`s do.
- Calls that change no modelled state use `Step(from, next)`. These are init, the symbol lookups, the count read, the re-read and the frame lookup.
- `search_entry` is one iteration of the loop at 281-306. Its disjuncts are: exhausted table, failed read, found, next entry.
- `restore_entry`, `resume_at_exit` and `vmi_destroy` are the `error_exit` path, lines 382-392.
- `cb_on_rw_access(v)` is one dispatch of vCPU `v`'s blocked access by `vmi_events_listen`. The whole callback is a single step, so its early returns are the cases of `Sized`. The response is applied as the vCPU resumes (`Complete`).
- The guest is the environment:
  - `GuestAccess` reads or writes the page while it is not watched;
  - `GuestTrap` blocks a vCPU on the watched page;
  - `close_handler` is any of the four signals.

**Data abstraction.**

- Instructions are records: `valid`, `mnemonic`, `access`, destination size and memory-operand size.
- Addresses are small naturals. `0x1234` is NtLoadDriver, as in spec §8.
- A w-byte read returns the low w bytes (`Low`). A read answered with emulated data returns the low `min(size, w)` bytes of `emul_read.data` (`EmulatedValue`).
- A table cell holds the LONG the SSDT declares (line 257): an integer in `LONG`, -2^31 .. 2^31-1. The code reads it into a `uint32_t`, which the model writes as:
  - `Unsigned32`, the zero-extension that line 289 performs;
  - `ShiftRight4`, the logical `>> 4` of line 294, which shifts the sign bit in at bit 27;
  - `Signed32`, the 4-byte read of a value as a LONG.
- `LongMax` is 2^31-1 written out, because TLC's integers stop there. The assumption `LongMaxValue` states its value as `2^30 + (2^30 - 1)`, which TLC can evaluate and the provers can use.

### `ViewManager` (abstract) and `Altp2m` (the wrappers)

`ViewManager` states the view lifecycle spec §3 and §4.3 promise a View Manager caller:

- views exist between a successful create and a successful destroy;
- view 0 and the active view are never destroyed;
- disabling drops every view;
- a remap is last-write-wins;
- every call either succeeds with its effect or reports failure and has none.

`status` records which call ran and whether it succeeded. A success must therefore match an effect of that same call.

A view's default access is not part of `ViewManager`: it is visible only in Xen's state. The fail-closed default of spec §4.3 is checked on `Altp2m` as `CreatedFailClosed`.

`Altp2m` models each wrapper of `altp2m.c` as one action. The action contains the handle checks, the libxc call and the test of `rc`, in code order. Xen is the environment:

- any hypercall may be rejected with no effect;
- `create_view` takes the lowest free id. It gives the view the default access whose `xenmem_access_t` code it is passed, decoded in the order of Xen's enum (`XenAccess`: 0 is `n`, 1 is `r`, and so on up to 10, the domain default). A code out of range is rejected;
- `destroy_view` refuses view 0 and the active view;
- `change_gfn` needs a populated target, and `INVALID_GFN` removes a redirection;
- `populate_physmap` respects the ceiling;
- `XEN_DOMCTL_max_mem` accepts any ceiling, including 0.

Line 149 passes `VMI_MEMACCESS_N` as that code. LibVMI's public header, which is not in this repository, defines it as the event flag `1 << 0`. The model gives it that value, so Xen decodes it as `r`.

The caller calls `xen_altp2m_init` once, then any wrapper in any order, then `xen_altp2m_deinit`. `held` is the set of spare frames the caller believes it holds, going by the statuses the page wrappers return.

The refinement mapping is the identity on the out-parameters and on Xen's enabled flag, active view and redirections. Xen's views map through `AbsView`, which keeps only whether each view exists and forgets its default access: `VM == INSTANCE ViewManager WITH enabled <- hv_enabled, view <- AbsView, ...`. The memory bookkeeping (ceiling, frames, phase) is invisible to the abstract spec. So init, deinit and the page wrappers are stuttering steps of it.

## Runs

`MC_FoolPatchguard` and `MC_Altp2m` fix the constants.

| Run | Config | Expect | Properties | What it shows |
|---|---|---|---|---|
| safety | `MC_FoolPatchguard_safety.cfg` | pass (40,522 states) | TypeOK, ProtectedWhileExposed, NoTraceAtExit, EmulatedReadFaithful | Every interleaving of `main()`, the callback, guest accesses and a signal, with any LibVMI call failing, satisfies three things: the patched entry is watched whenever the guest runs; every exit path undoes the patch; on a 32-bit guest emulated reads return the true entry. |
| liveness | `MC_FoolPatchguard_liveness.cfg` | pass | Termination, VcpuReleased | A signal always leads `main()` to return, and a blocked vCPU is always released. |
| stealth | `MC_FoolPatchguard_stealth.cfg` | violation | StealthRead | A decodable read of the patched entry from ordinary code returns the corrupted 0 (finding 1). |
| emul64 | `MC_FoolPatchguard_emul64.cfg` | violation | EmulatedReadFaithful | On a 64-bit guest the emulated data is not the entry's value (finding 2). |
| offset64 | `MC_FoolPatchguard_offset64.cfg` | violation | SearchSound | On a 64-bit guest whose NtLoadDriver lies below the table, the search skips its entry and gives up (finding 5). |
| altp2m_refine | `MC_Altp2m_refine.cfg` | pass (93,524 states) | TypeOK, ImplementsViewManager | The wrappers implement the View Manager's view lifecycle over a Xen that may reject anything. |
| altp2m_ceiling | `MC_Altp2m_ceiling.cfg` | violation | CeilingRestored | Init after a failed `xc_domain_getinfo` reports success, and deinit then sets the ceiling to 0 (finding 3). |
| altp2m_failclosed | `MC_Altp2m_failclosed.cfg` | violation | CreatedFailClosed | A successful `xen_altp2m_create_p2m` leaves a view that defaults to read access, not no access (finding 4). |

**Bounds.** Each choice is the smallest that makes the interesting cases happen.

- **Table.** Two entries: one designates NtLoadDriver and one does not. The search therefore both skips and finds an entry. A second table has no NtLoadDriver entry, which covers the exhausted-search path.
- **vCPUs and values.**
  - One vCPU.
  - One guest value. The guest writes only entry 0.
  - One code address outside the page, plus the table's own addresses as possible RIPs.
- **Instructions.** Six:
  - 4-byte and 1-byte `mov` reads;
  - a `movzx` read;
  - an unsupported mnemonic;
  - a write;
  - bytes that fail to decode.
- **Views and frames.**
  - Two alternate view ids, so create picks the lowest and destroy can leave a hole.
  - One guest frame and one spare frame.
  - A baseline ceiling of 1 and an "unlimited" ceiling of 4.
- Every action and every disjunct fires in the passing runs.

A run with two vCPUs did not finish within the time limit. Blocked accesses of different vCPUs are independent in the code (each is answered by its own dispatch), so one vCPU already exercises every ordering of a vCPU against `main()`.

**Deadlock** is not checked. Once `main()` returns, the tool takes no more steps. A guest left paused by a failed resume takes none either. For the wrappers, a caller may stop after deinit or after a failed init.

**Fairness** (liveness run only):

- weak fairness of `MainProgress`, because `main()` is a single thread that always gets to run. `MainProgress` is every statement of `main()` except a failing `vmi_events_listen`, which is the hypervisor's doing and is not bound to happen;
- weak fairness of each vCPU's `cb_on_rw_access`, because `vmi_events_listen` returns within 500 ms and the hypervisor's ring hands over every pending request.

The guest, the signal and a listen failure get no fairness. Nothing obliges the guest to touch the page or anyone to send a signal.

**Mutants.** Every property of a passing run is broken by a plausible bug in the definition it is about. `PROJECT.json` lists them:

- an off-by-one index;
- a pause that does nothing;
- `is_corrupted` never set;
- emulated data copied from the corrupted value;
- a loop that never looks at `interrupted`;
- a `vmi_destroy` that leaves blocked vCPUs hanging;
- swapped `change_gfn` arguments;
- `create_view`'s `rc` not tested.

## Findings

1. **Stealth only for instructions located at the entry.** `fool-patchguard.c:157` compares RIP, not the faulting address, with the entry's address. Only an instruction placed at the entry itself is answered with emulated data. Ordinary code that reads the entry sees 0.
2. **Wrong emulated value on 64-bit guests.** `fool-patchguard.c:356` emulates with the 8-byte NtLoadDriver address. On 64-bit guests the entry is `offset << 4 | argc`, so the value the guest sees is not the one it would have read.
3. **Init succeeds without a baseline.** `altp2m.c:35-38` records a baseline of 0 when `xc_domain_getinfo` fails, and init still returns `VMI_SUCCESS`. `deinit` (line 53) then sets the domain's ceiling to 0. Spec §4.3 says init fails in that case.
4. **New views are not fail-closed.** `altp2m.c:149` passes LibVMI's `VMI_MEMACCESS_N`, the event flag `1 << 0`, unconverted as the `xenmem_access_t` default of `xc_altp2m_create_view`. Xen reads 1 as `XENMEM_access_r`, so every page of a new view is readable until it is remapped. Spec §4.3 (line 49) says `create_view` defaults every page to no access. The altp2m_failclosed run shows a create that succeeds and leaves view 1 at `r`.
5. **Negative offsets are shifted as unsigned.** `fool-patchguard.c:294` computes `ki_sv_table_addr + (ki_service_entry_val >> 4)` on a `uint32_t`. The SSDT's entries are LONG (line 257), and Windows adds them sign-extended. An entry with a negative offset, for a handler placed below `KiServiceTable`, therefore resolves 2^28 too high. `SearchSound` asks that the search skip only entries that do not designate NtLoadDriver, reading each entry as Windows does (`HandlerOf`). The offset64 run's table holds NtLoadDriver at 4032, below the table at 4096, in entry 1 = -1021. TLC shows the search passing over entry 1 and reaching the end with no index; `main()` then exits with "Failed to find NtLoadDriver SSDT entry". The comment at line 292 writes the shift as `>>>`, but the entries it shifts are signed.

## Proofs

TLAPS checks three modules for every value of the constants that satisfies the named assumptions: the two proof modules, and `ViewManager` itself, which holds the abstract invariant's proof.

**`FoolPatchguard_proofs`**

- `TypeCorrect`: `Spec => []TypeOK`.
- `Protected`: `Spec => []ProtectedWhileExposed`.
- `NoTrace`: `Spec => []NoTraceAtExit`.
- `Faithful32`: `Spec => []EmulatedReadFaithful` on 32-bit guests (`~Is64`).

The last three assume `GuestStoresElsewhere`:

- the guest never stores to an entry that designates NtLoadDriver;
- the guest never stores a value that would designate NtLoadDriver.

Spec §8 assumes the same ("no intervening corruption by a third party"). Without it, the restore at line 386 could overwrite a guest store with the stale value. `PROJECT.json` lists that case as a hazard.

Neither invariant is inductive by itself. The strengthening `IInv` adds these parts:

- `GuestShadowOK`: the shadow table never gains an entry the search would take for NtLoadDriver, and blocked accesses are real accesses.
- `FoundOK`: the found entry is one the guest never writes, and its saved value is the shadow's.
- `PatchOK`: `mem` and `shadow` agree everywhere before the patch, and everywhere except the found entry after it.
- `PhaseOK`: which statements run unpatched, which run paused and which run registered; and at `error_exit` a patched guest is paused or watched.

The step proof has one case per action. Under each case there is one step per conjunct the action can disturb. Frame lemmas cover the actions that leave the table or the phase alone.

`Faithful32` rests on `IInv` and a second strengthening, `FaithfulOK`:

- every shadow cell is a LONG;
- once found, the kept value is a LONG that designates NtLoadDriver;
- no read is emulated before the patch, so every emulated read refers to the found index;
- `EmulatedReadFaithful` itself.

The callback case uses `FoundOK`: the entry's shadow is the kept value. It then uses the lemma `EmulatedMatches`: on a 32-bit guest the NtLoadDriver address is the cell zero-extended, so for each width 1, 2 and 4 its low bytes are the cell's own bytes. That lemma, with `LowCases` (one equation per read width), is where `~Is64` is needed; run emul64 shows the property fails without it. `LongMaxValue` gives the provers the value of 2^31 - 1; the literal itself is beyond both backends.

**`Altp2m_proofs`**

- `TypeCorrect`: `Spec => []TypeOK`.
- `Refinement`: `Spec => ImplementsViewManager`, that is, `Spec => VM!VMSpec`.

The refinement proof maps:

- each failing wrapper to the abstract `Fail`;
- each successful wrapper to the abstract operation of the same name;
- init, deinit and the page wrappers to stuttering steps.

It needs only `TypeOK`: the wrappers' guards are the abstract guards under the mapping. Two lemmas carry Xen's views through `AbsView`:

- `AbsViewSet`: setting one view in `hv_view` sets the same view of `AbsView` to its existence;
- `ExistingAbs`: the abstract set of existing views is Xen's.

`TypeOK` supplies the domain of `hv_view` that `AbsViewSet` needs.


**`ViewManager`**

- `VMConsistentInvariant`: `VMSpec => []VMConsistent`, assuming `0 \notin ViewIds`. Xen's alternate ids start at 1, and `Altp2mAssumption` states the same.

`VMConsistent` says three things: the active view exists (view 0 while altp2m is off); no redirection outlives its view; and a successful `create_view` returns an id that exists and is not the host view 0.

`VMConsistent` is not inductive. A disable step must drop every view and redirection, and a destroy must not leave the active view dangling, so the strengthening `VMInv` adds:

- the types;
- `remap` a function on every view;
- an empty state while altp2m is off.

`VMInvStep` has one case per abstract operation.

**Only model-checked.**

- `Termination` and `VcpuReleased` need fairness and `ENABLED`, which the provers do not handle.
- The findings are violations TLC exhibits. They are not theorems.

## Not modelled

- **LibVMI's internals, Xen and bddisasm.** These are external collaborators. Only the effects visible at their interfaces are modelled, as environment actions and as the `Insn` record.
- **Argument parsing and the `init_data` allocation.** These are I/O with no effect on the properties.
- **The `(int)nb_services` cast (line 281).** The model's tables hold a small count.
- **Page release accounting.** The wrapper's ignored release result (`altp2m.c:130`) is modelled. No property is stated about it, because spec §4.3 makes `release_page` best-effort.

## Plan for later work

- **Two vCPUs.** Run two vCPUs with a symmetry set, once a state constraint on `reg` keeps the run under the time limit.
- **Release pairing.** Add a caller model for the View Manager that pairs every create and reserve with a destroy and release on every exit path (spec §5), and check that no view or frame outlives `deinit`.
