CONSTANTS
    Is64 = FALSE
    NbServices <- MCNbServices
    KiServiceTables <- MCTables32
    KiServiceTableAddr <- MCTableAddr
    NtLoadDriverAddr <- MCDriverAddr
    CodeAddrs <- MCCodeAddrs
    Vcpus = {v1}
    Insns <- MCInsns
    GuestValues <- MCGuestValues
    GuestWritable <- MCGuestWritable

SPECIFICATION FairSpec

PROPERTY Termination
PROPERTY VcpuReleased

\* Once main() has returned (pc = "done") the tool takes no step, and a guest
\* left paused by a failed resume takes none either: the run may stop there.
CHECK_DEADLOCK FALSE
