------------------------------ MODULE MCVmemDisk ------------------------------
(* Two disks of five sectors.  On the first: a write of two even segments, a   *)
(* read of the same sectors, and a write of uneven segments that can be merged *)
(* with the first, its second segment being taken to end beyond the disk.  On  *)
(* the second: a read of uneven segments and a non-fs request.                *)
EXTENDS VmemDisk

CONSTANTS w, r, u, v, pc, a1, a2

Bios(b) ==
  CASE b = w  -> [dev |-> 0, sector |-> 0, ends |-> <<1, 2>>, dir |-> "write"]
    [] b = r  -> [dev |-> 0, sector |-> 0, ends |-> <<1, 2>>, dir |-> "read"]
    [] b = u  -> [dev |-> 0, sector |-> 2, ends |-> <<2, 3>>, dir |-> "write"]
    [] b = v  -> [dev |-> 1, sector |-> 0, ends |-> <<2, 3>>, dir |-> "read"]
    [] b = pc -> [dev |-> 1, sector |-> 0, ends |-> <<>>, dir |-> "pc"]

Io == [b \in Bio |-> Bios(b)]
===============================================================================
