------------------------------ MODULE MCSystem ------------------------------
(* Small instances of System: a configuration, an address map and workloads. *)
EXTENDS SystemProperties

Base ==
  [clock |-> 1, ns |-> 1,
   tRCD |-> 3, tRP |-> 2, tRAS |-> 7, tCL |-> 3, tCWL |-> 1,
   tCCD_S |-> 1, tCCD_L |-> 3, tRRD_S |-> 2, tRRD_L |-> 5, tFAW |-> 12,
   tWTR_S |-> 1, tWTR_L |-> 3, tRTP |-> 2, tWR |-> 4,
   tREFI |-> 1000, tRFC |-> 20, rd_wr_turnaround |-> 3, wr_rd_turnaround |-> 1,
   page_policy |-> "open", page_close_timer |-> 4,
   write_policy |-> "interleave", write_drain_high |-> 0, write_drain_low |-> 0,
   write_batch_min |-> 2,
   command_queue_depth |-> 2, data_bus_bytes |-> 8]

(* bound: no chunk takes longer than this. *)
UpTo60 == 1 .. 60

OneChannel(window) == 0

(* Windows interleave over the groups, then over their banks, then over rows. *)
Interleaved(window) ==
  [bank |-> <<0, window % 2, (window \div 2) % 2>>, row |-> window \div 4]

(* A transaction of whole 16-byte windows. *)
Txn(window, count, type) ==
  [addr |-> 16 * window, size_bytes |-> 16, len_beats |-> count, type |-> type]

(* Reads of three banks. *)
ThreeBanks == {Txn(0, 1, "Read"), Txn(1, 1, "Read"), Txn(2, 1, "Read")}

(* Two windows over two banks, another row of the first bank, and a write. *)
Bursts == {Txn(0, 2, "Read"), Txn(4, 1, "Read"), Txn(1, 1, "Write")}
=============================================================================
