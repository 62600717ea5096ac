------------------------------ MODULE MCChannel ------------------------------
(* Small instances of ChannelScheduler: configurations and workloads for TLC. *)
EXTENDS ChannelProperties

(* One rank, durations in whole cycles (a cycle is a nanosecond), refresh out
   of the way. *)
Base ==
  [clock |-> 1, ns |-> 1,
   tRCD |-> 3, tRP |-> 2, tRAS |-> 7, tCL |-> 3, tCWL |-> 1,
   tCCD_S |-> 1, tCCD_L |-> 3, tRRD_S |-> 2, tRRD_L |-> 5, tFAW |-> 12,
   tWTR_S |-> 1, tWTR_L |-> 3, tRTP |-> 2, tWR |-> 4,
   tREFI |-> 1000, tRFC |-> 20, rd_wr_turnaround |-> 3, wr_rd_turnaround |-> 1,
   page_policy |-> "open", page_close_timer |-> 4,
   write_policy |-> "interleave", write_drain_high |-> 0, write_drain_low |-> 0,
   write_batch_min |-> 2,
   command_queue_depth |-> 3, data_bus_bytes |-> 8]

R(group, id, row) == [bank |-> <<0, group, id>>, row |-> row, type |-> "Read", bytes |-> 16]
W(group, id, row) == [bank |-> <<0, group, id>>, row |-> row, type |-> "Write", bytes |-> 16]

(* tRTP of 2.5 ns and tWR of 4.5 ns on a clock of 0.5 ns: the other durations
   are the same number of cycles as in Base. *)
HalfNanoseconds == [Base EXCEPT !.ns = 2, !.tRTP = 5, !.tWR = 9]

(* Refreshes as frequent as a few commands. *)
FrequentRefresh == [Base EXCEPT !.tREFI = 12, !.tRFC = 5, !.tRCD = 2, !.tCL = 2, !.tCWL = 2]

(* The same, with rows left open no longer than a refresh interval's quarter. *)
TimerPage == [FrequentRefresh EXCEPT !.page_policy = "timer", !.page_close_timer = 3]

(* Row misses bunched by fast columns: only the ACT constraints separate them. *)
ClosedPage == [Base EXCEPT !.page_policy = "closed", !.tRCD = 1, !.tFAW = 20, !.tCCD_S = 0,
                           !.tCCD_L = 0, !.rd_wr_turnaround = 0]

Batch == [Base EXCEPT !.write_policy = "batch", !.write_drain_high = 2]

(* Hits, conflicts and direction changes over two bank groups. *)
TwoGroups == {R(0, 0, 0), R(0, 0, 1), R(1, 0, 0), W(0, 0, 0), W(1, 0, 0)}

(* One row against reads and, on another row, writes of another bank. *)
Competing == {R(0, 0, 0), R(1, 0, 0), W(1, 0, 1)}

(* Reads of three banks, and writes to one of them. *)
ThreeBanks == {R(0, 0, 0), R(0, 1, 0), R(1, 0, 0), W(0, 0, 0)}

(* Single-beat reads of one bank per rank; the ranks' banks differ in group. *)
TwoRanks ==
  {[bank |-> <<r, r, 0>>, row |-> row, type |-> "Read", bytes |-> 8] : r \in Ranks, row \in Rows}
=============================================================================
