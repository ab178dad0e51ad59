------------------------- MODULE MC_FoolPatchguard -------------------------
(* Instances of FoolPatchguard for TLC.  Numbers are small stand-ins for  *)
(* guest addresses; 0x1234 = 4660 is NtLoadDriver's address, as in the    *)
(* scenario of the design notes.                                          *)
EXTENDS FoolPatchguard

\* A two-entry table on one page.
MCNbServices == 2
MCTableAddr == 4096
MCDriverAddr == 4660

(* 32-bit guest: entries are absolute addresses.  Entry 1 designates     *)
(* NtLoadDriver, or (a table of another build) no entry does.             *)
MCTable32 == [j \in 0 .. 1 |-> IF j = 1 THEN 4660 ELSE 291]
MCTables32 == {MCTable32, [j \in 0 .. 1 |-> 291 + j]}

\* 64-bit guest: entries are (handler - table) << 4 | argument count.
MCTables64 == {[j \in 0 .. 1 |-> IF j = 1 THEN (4660 - 4096) * 16 + 3
                                           ELSE 80 * 16 + 1]}

(* 64-bit guest whose NtLoadDriver lies below the table: its entry is a  *)
(* negative offset, (4032 - 4096) * 16 + 3.                               *)
MCDriverBelow == 4032
MCTablesNeg64 == {[j \in 0 .. 1 |-> IF j = 1 THEN (4032 - 4096) * 16 + 3
                                              ELSE 80 * 16 + 1]}

MCCodeAddrs == {64}

\* mov eax,[m]; mov al,[m]; movzx eax,byte [m]; cmp eax,[m]; mov [m],eax;
\* and bytes bddisasm cannot decode.
MCInsns ==
    { [valid |-> TRUE,  mnemonic |-> "MOV",   access |-> "R", dstSize |-> 4, memSize |-> 4],
      [valid |-> TRUE,  mnemonic |-> "MOV",   access |-> "R", dstSize |-> 1, memSize |-> 1],
      [valid |-> TRUE,  mnemonic |-> "MOVZX", access |-> "R", dstSize |-> 4, memSize |-> 1],
      [valid |-> TRUE,  mnemonic |-> "OTHER", access |-> "R", dstSize |-> 4, memSize |-> 4],
      [valid |-> TRUE,  mnemonic |-> "MOV",   access |-> "W", dstSize |-> 4, memSize |-> 4],
      [valid |-> FALSE, mnemonic |-> "OTHER", access |-> "R", dstSize |-> 4, memSize |-> 4] }

MCGuestValues == {7}

\* The guest stores only to entries other than NtLoadDriver's.
MCGuestWritable == {0}
=============================================================================
