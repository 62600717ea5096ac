------------------------------ MODULE MCRefresh ------------------------------
(* Small instances of RefreshLoop. *)
EXTENDS RefreshLoop

(* Refresh switched off: a refresh interval of zero, which validate() accepts. *)
NoRefresh ==
  [clock |-> 1, ns |-> 1,
   tRCD |-> 3, tRP |-> 2, tRAS |-> 7, tCL |-> 3, tCWL |-> 1,
   tCCD_S |-> 1, tCCD_L |-> 3, tRRD_S |-> 2, tRRD_L |-> 5, tFAW |-> 12,
   tWTR_S |-> 1, tWTR_L |-> 3, tRTP |-> 2, tWR |-> 4,
   tREFI |-> 0, tRFC |-> 3, rd_wr_turnaround |-> 3, wr_rd_turnaround |-> 1,
   page_close_timer |-> 4]

Frequent == [NoRefresh EXCEPT !.tREFI = 5]

(* The first cursor of a rank, or one some refreshes on, and a command wanted
   before or after it. *)
FirstDue ==
  {[refresh |-> [at |-> at, due |-> k * Cyc("tREFI"), end |-> 0, blocked |-> 0],
    bank |-> [open_row |-> 1, col_ready |-> 2, precharge_ready |-> 7, act_ready |-> 12]] :
     at \in 0 .. 30, k \in 1 .. 3}
=============================================================================
