CONSTANTS
    Is64 = TRUE
    NbServices <- MCNbServices
    KiServiceTables <- MCTablesNeg64
    KiServiceTableAddr <- MCTableAddr
    NtLoadDriverAddr <- MCDriverBelow
    CodeAddrs <- MCCodeAddrs
    Vcpus = {v1}
    Insns <- MCInsns
    GuestValues <- MCGuestValues
    GuestWritable <- MCGuestWritable

SPECIFICATION Spec
INVARIANT SearchSound

\* Once main() has returned (pc = "done") the tool takes no step, and a guest
\* left paused by a failed resume takes none either: the run may stop there.
CHECK_DEADLOCK FALSE
