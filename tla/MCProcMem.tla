----------------------------- MODULE MCProcMem -----------------------------
(* ProcMem on a machine with 28 pages of two units and tables of four entries. *)
EXTENDS ProcMem, TLC

BiosDef == <<0, 1, 2, 3, 4, 5>>
LayoutsDef == {[roEnd |-> 6, kernelEnd |-> 7, ramEnd |-> 28, acpiEnd |-> 28]}

Seg(ty, v, fs, ms, fl) == [type |-> ty, vaddr |-> v, filesz |-> fs, memsz |-> ms,
                           flags |-> fl]
RX == {"R", "X"}
RW == {"R", "W"}

\* Segments as user.ld lays them out: code, constants and data on pages of their
\* own, data with a part that is not in the file.
Program == [magic |-> TRUE, segs |-> <<Seg("LOAD", 8, 2, 2, RX), Seg("STACK", 0, 0, 0, RW),
                                       Seg("LOAD", 10, 3, 5, RW)>>]
\* The same with the data first, up to the end of a table.
DataFirst == [magic |-> TRUE, segs |-> <<Seg("LOAD", 12, 1, 4, RW), Seg("LOAD", 8, 3, 3, RX)>>]
\* A segment that begins inside a page.
Unaligned == [magic |-> TRUE, segs |-> <<Seg("LOAD", 9, 2, 3, RW)>>]
NotElf == [magic |-> FALSE, segs |-> <<>>]

Files == {Program, DataFirst, Unaligned, NotElf}
Programs == {Program}

Symmetry == Permutations(Process) \cup Permutations(Kthread)
=============================================================================
