----------------------------- MODULE DramTiming -----------------------------
(***************************************************************************)
(* The timing arithmetic one DDR channel is scheduled with: unit           *)
(* conversion, the refresh cursor of a rank, ACTIVATE spacing, and the     *)
(* shared command bus.  Everything here is a pure operator; the state it   *)
(* is applied to lives in ChannelScheduler.                                *)
(*                                                                         *)
(* Cfg is the DdrcConfig the scheduler reads.  Durations are integers in   *)
(* units of which Cfg.clock make one model cycle and Cfg.ns make one       *)
(* nanosecond, so a fractional number of nanoseconds is representable.     *)
(***************************************************************************)
EXTENDS Integers, Sequences, FiniteSetsExt

CONSTANTS
  Cfg,             \* the configuration record
  CmdSlotCycles    \* kCmdSlotCycles: cycles one command holds the command bus

Durations ==
  {"tRCD", "tRP", "tRAS", "tCL", "tCWL", "tCCD_S", "tCCD_L", "tRRD_S", "tRRD_L",
   "tFAW", "tWTR_S", "tWTR_L", "tRTP", "tWR", "tREFI", "tRFC",
   "rd_wr_turnaround", "wr_rd_turnaround", "page_close_timer"}

(* std::max(a, b) *)
Later(a, b) == IF a >= b THEN a ELSE b

(* Mutant: the subtraction without its guard. *)
MonusUnguarded(a, b) == a - b

(* The guarded subtraction "a > b ? a - b : 0" the code uses on unsigned cycles. *)
Monus(a, b) == IF a > b THEN a - b ELSE 0

(* ns_to_cycles: a duration rounded up to whole cycles. *)
ToCycles(duration) == (duration + Cfg.clock - 1) \div Cfg.clock

(* cyc(cfg_.f) *)
Cyc(f) == ToCycles(Cfg[f])

(* What validate() guarantees of the durations. *)
ASSUME DurationsAssumption ==
  /\ Cfg.clock \in Nat \ {0}
  /\ Cfg.ns \in Nat \ {0}
  /\ \A f \in Durations : Cfg[f] \in Nat
  /\ Cfg.tCCD_L >= Cfg.tCCD_S
  /\ Cfg.tRRD_L >= Cfg.tRRD_S
  /\ Cfg.tWTR_L >= Cfg.tWTR_S
  /\ Cfg.tFAW >= 4 * Cfg.tRRD_S

(* What it does not check and apply_refresh_if_due needs to terminate: a
   refresh is over before the next one is due. *)
RefreshesEnd == Cyc("tRFC") < Cyc("tREFI")

ASSUME SlotAssumption == CmdSlotCycles \in Nat \ {0}

-----------------------------------------------------------------------------
(***************************************************************************)
(* Refresh.  A rank's refresh cursor is the cycle its next REFRESH falls   *)
(* due.  Advancing it to `cycle` performs every refresh due by then; where *)
(* a refresh ends before the next is due, only the last of them can still  *)
(* hold the command up, and the program's loop is this closed form (module *)
(* RefreshLoop).  The record threads one drain's progress:                 *)
(*   at      the cycle after any refresh that blocked it,                  *)
(*   due     the cursor,                                                   *)
(*   end     end of the last refresh performed, 0 if none was,             *)
(*   blocked cycles spent waiting for refreshes so far.                    *)
(***************************************************************************)
RefreshProgress == [at : Nat, due : Nat, end : Nat, blocked : Nat]

LastBoundary(due, cycle) ==
  due + ((cycle - due) \div Cyc("tREFI")) * Cyc("tREFI")

(* Mutant: a command at the very boundary does not see the refresh due there. *)
ApplyRefreshLate(r, cycle) ==
  IF cycle <= r.due
  THEN [r EXCEPT !.at = cycle]
  ELSE LET boundary == LastBoundary(r.due, cycle)
           end      == boundary + Cyc("tRFC")
       IN  [at |-> Later(cycle, end), due |-> boundary + Cyc("tREFI"), end |-> end,
            blocked |-> r.blocked + Monus(end, cycle)]

ApplyRefresh(r, cycle) ==
  IF cycle < r.due
  THEN [r EXCEPT !.at = cycle]
  ELSE LET boundary == LastBoundary(r.due, cycle)
           end      == boundary + Cyc("tRFC")
       IN  [at      |-> Later(cycle, end),
            due     |-> boundary + Cyc("tREFI"),
            end     |-> end,
            blocked |-> r.blocked + Monus(end, cycle)]

(* The effect of a refresh ending at `end` on a bank it precharged. *)
NoRow == -1

Refreshed(bank, end) ==
  IF end = 0 THEN bank
  ELSE [bank EXCEPT !.open_row        = NoRow,
                    !.col_ready       = Later(@, end),
                    !.precharge_ready = Later(@, end),
                    !.act_ready       = Later(@, end)]

-----------------------------------------------------------------------------
(***************************************************************************)
(* ACTIVATE spacing.  `acts` are the rank's recent activates, oldest       *)
(* first.  Gated is the earliest cycle tRRD and tFAW allow; StillInWindow  *)
(* is what the rolling window keeps once an ACTIVATE is placed there.      *)
(***************************************************************************)
(* Mutant: no four-activate window. *)
GatedByTrrd(acts, last_group, group, cycle) ==
  IF acts = <<>> THEN cycle
  ELSE Later(cycle, acts[Len(acts)] + Cyc(IF last_group = group THEN "tRRD_L" ELSE "tRRD_S"))

Gated(acts, last_group, group, cycle) ==
  LET gap    == Cyc(IF last_group = group THEN "tRRD_L" ELSE "tRRD_S")
      spaced == IF acts = <<>> THEN cycle ELSE Later(cycle, acts[Len(acts)] + gap)
  IN  IF Len(acts) >= 4 THEN Later(spaced, acts[1] + Cyc("tFAW")) ELSE spaced

StillInWindow(acts, cycle) ==
  LET first == Min({i \in 1 .. Len(acts) + 1 :
                      i <= Len(acts) => acts[i] + Cyc("tFAW") > cycle})
  IN  SubSeq(acts, first, Len(acts))

-----------------------------------------------------------------------------
(***************************************************************************)
(* The command bus.  `slots` are the start cycles already reserved; each   *)
(* holds the bus for CmdSlotCycles.                                        *)
(***************************************************************************)
Overlap(s, t) == s < t + CmdSlotCycles /\ t < s + CmdSlotCycles

Free(slots, t) == \A s \in slots : ~ Overlap(s, t)

(* reserve_cmd_slot: the first free cycle from `desired` on.  It is `desired`
   itself or the end of some reserved slot. *)
ReserveSlot(slots, desired) ==
  Min({t \in {desired} \cup {s + CmdSlotCycles : s \in slots} :
         t >= desired /\ Free(slots, t)})

(* prune_cmd_bus_slots: forget the slots that end by the horizon. *)
Prune(slots, horizon) == {s \in slots : s + CmdSlotCycles > horizon}
=============================================================================
