-------------------------- MODULE ChannelScheduler --------------------------
(***************************************************************************)
(* One DDR channel's scheduler: a bounded command queue, FR-FCFS           *)
(* arbitration with starvation and page-match limits, read/write batching, *)
(* and the placement in time of every PRECHARGE, ACTIVATE and column       *)
(* command.  The caller (Engine) admits commands and drains them one at a  *)
(* time; a drain picks a command and computes, at once, when each of its   *)
(* DRAM commands issues, possibly earlier in time than commands placed by  *)
(* previous drains.                                                        *)
(*                                                                         *)
(* Variables carry the names of the members of class ChannelScheduler.     *)
(* bus_used_ and had_col_cmd_ are set together, and last_drain_col_start_  *)
(* equals last_col_start_cycle_, so each pair is one variable.  `log` is a *)
(* history variable: what each drain decided and placed.                   *)
(***************************************************************************)
EXTENDS DramTiming

CONSTANTS
  Ranks, Groups, BankIds,  \* topology
  Rows,
  StarvationLimit,         \* kStarvationLimit
  PagematchLimit,          \* kPagematchLimit
  Requests,                \* commands the engine may admit
  Arrivals,                \* ready cycles it may admit them with
  InOrderArrivals,         \* TRUE: ready cycles never decrease
  Admissions               \* the numbers commands may be admitted under: bounds a behaviour

VARIABLES
  pending,                 \* pending_, a set: entries are ordered by seq
  next_seq, last_admitted_ready_cycle,
  banks, ranks,
  bus_free_cycle, last_bus_type, bus_used,
  last_col_start_cycle, last_col_bankgroup,
  last_write_complete_cycle, last_write_bankgroup, had_write_cmd,
  cmd_bus_slots,
  last_hit_bank, consecutive_hit_count,
  draining_writes, writes_in_batch,
  stats,
  log

queueVars == <<pending, next_seq, last_admitted_ready_cycle>>
busVars == <<bus_free_cycle, last_bus_type, bus_used, last_col_start_cycle,
             last_col_bankgroup, last_write_complete_cycle, last_write_bankgroup,
             had_write_cmd, cmd_bus_slots>>
policyVars == <<last_hit_bank, consecutive_hit_count, draining_writes, writes_in_batch>>
vars == <<queueVars, banks, ranks, busVars, policyVars, stats, log>>

Bank == Ranks \X Groups \X BankIds
RankOf(bank) == bank[1]
GroupOf(bank) == bank[2]
NoBank == <<>>

Types == {"Read", "Write"}
Command == [bank : Bank, row : Rows, type : Types, bytes : Nat]

ASSUME RefreshAssumption == RefreshesEnd

ASSUME TopologyAssumption ==
  /\ Groups \subseteq Nat /\ 0 \in Groups
  /\ Rows \subseteq Nat

ASSUME PolicyAssumption ==
  /\ StarvationLimit \in Nat \ {0}
  /\ PagematchLimit \in Nat \ {0}
  /\ Cfg.command_queue_depth \in Nat \ {0}
  /\ Cfg.data_bus_bytes \in Nat \ {0}
  /\ Cfg.page_policy \in {"open", "closed", "timer"}
  /\ Cfg.write_policy \in {"interleave", "batch"}
  /\ {Cfg.write_drain_high, Cfg.write_drain_low, Cfg.write_batch_min} \subseteq Nat

ASSUME CallerAssumption ==
  /\ Requests \subseteq Command
  /\ Arrivals \subseteq Nat
  /\ InOrderArrivals \in BOOLEAN
  /\ Admissions \subseteq Nat

-----------------------------------------------------------------------------
(***************************************************************************)
(* Arbitration.                                                            *)
(***************************************************************************)
DecisionCycle ==
  LET oldest == Min({p.ready : p \in pending})
  IN  IF bus_used THEN Later(oldest, last_col_start_cycle + Cyc("tCCD_S")) ELSE oldest

Arrived == {p \in pending : p.ready <= DecisionCycle}

(* peek_priority: 0 hit, 1 closed bank, 2 conflict, judged on the bank state
   left by the last drain. *)
Priority(p) ==
  CASE banks[p.bank].open_row = p.row -> 0
    [] banks[p.bank].open_row = NoRow -> 1
    [] OTHER -> 2

DrainHigh ==
  IF Cfg.write_drain_high > 0 THEN Cfg.write_drain_high
  ELSE Later(1, Cfg.command_queue_depth \div 2)

(* choose_direction_filter: whether writes are drained from this pick on. *)
DrainsWrites ==
  LET queued_writes == {p \in pending : p.type = "Write"}
      ready_writes  == queued_writes \cap Arrived
      ready_reads   == Arrived \ queued_writes
      long_enough   == writes_in_batch >= Cfg.write_batch_min
  IN  IF draining_writes
      THEN ~ \/ ready_writes = {}
             \/ Cardinality(queued_writes) <= Cfg.write_drain_low
             \/ long_enough /\ ready_reads # {}
      ELSE /\ ready_writes # {}
           /\ Cardinality(queued_writes) >= DrainHigh \/ ready_reads = {}

(* The candidates the direction filter leaves; it is dropped if it leaves none. *)
Eligible ==
  LET wanted == {p \in Arrived : p.type = (IF DrainsWrites THEN "Write" ELSE "Read")}
  IN  IF Cfg.write_policy # "batch" \/ wanted = {} THEN Arrived ELSE wanted

(* Mutant: only the filtered direction is looked at. *)
StarvedInDirection == {p \in Eligible : p.skip_count >= StarvationLimit}

Starved == {p \in Arrived : p.skip_count >= StarvationLimit}

(* Mutant: the limit off by one. *)
StreakOverLimit == consecutive_hit_count > PagematchLimit

StreakAtLimit == consecutive_hit_count >= PagematchLimit

(* Hits that must yield: their bank's streak is at the limit and a candidate
   on another bank could go instead. *)
MustYield ==
  {p \in Eligible : /\ StreakAtLimit
                    /\ p.bank = last_hit_bank
                    /\ Priority(p) = 0
                    /\ \E q \in Eligible : q.bank # last_hit_bank}

Contenders ==
  IF Starved # {} THEN Starved
  ELSE LET open == Eligible \ MustYield
       IN  {p \in open : \A q \in open : Priority(p) <= Priority(q)}

(* Mutant: the youngest contender. *)
PickYoungest == CHOOSE p \in Contenders : \A q \in Contenders : p.seq >= q.seq

(* pick_best_index: the oldest contender. *)
Pick == CHOOSE p \in Contenders : \A q \in Contenders : p.seq <= q.seq

-----------------------------------------------------------------------------
(***************************************************************************)
(* Column floors: what keeps the column command of p from issuing earlier. *)
(***************************************************************************)
SameGroup(p, group) == GroupOf(p.bank) = group

CasCycles(type) == Cyc(IF type = "Read" THEN "tCL" ELSE "tCWL")

TransferCycles(p) ==
  Later(1, (p.bytes + Cfg.data_bus_bytes - 1) \div Cfg.data_bus_bytes)

TccdFloor(p) ==
  IF bus_used
  THEN last_col_start_cycle + Cyc(IF SameGroup(p, last_col_bankgroup) THEN "tCCD_L" ELSE "tCCD_S")
  ELSE 0

BusFloor(p) == IF bus_used THEN Monus(bus_free_cycle, CasCycles(p.type)) ELSE 0

(* Mutant: the CAS latency of the wrong direction. *)
TurnFloorOtherCas(p) ==
  LET turn == Cyc(IF last_bus_type = "Read" THEN "rd_wr_turnaround" ELSE "wr_rd_turnaround")
  IN  IF bus_used /\ last_bus_type # p.type
      THEN Monus(bus_free_cycle + turn, CasCycles(last_bus_type)) ELSE 0

TurnFloor(p) ==
  LET turn == Cyc(IF last_bus_type = "Read" THEN "rd_wr_turnaround" ELSE "wr_rd_turnaround")
  IN  IF bus_used /\ last_bus_type # p.type
      THEN Monus(bus_free_cycle + turn, CasCycles(p.type)) ELSE 0

TwtrFloor(p) ==
  IF p.type = "Read" /\ had_write_cmd
  THEN last_write_complete_cycle
         + Cyc(IF SameGroup(p, last_write_bankgroup) THEN "tWTR_L" ELSE "tWTR_S")
  ELSE 0

BusReady(p) == Later(Later(p.ready, TccdFloor(p)), BusFloor(p))

ColumnFloor(p) == Later(Later(BusReady(p), TurnFloor(p)), TwtrFloor(p))

-----------------------------------------------------------------------------
(***************************************************************************)
(* Placement.  Synced is the refresh cursor of p's rank brought up to      *)
(* p's column floor; FoundBank is the state p finds its bank in after      *)
(* that and, under page_policy "timer", after the idle timer closed it.    *)
(***************************************************************************)
Synced(p) ==
  ApplyRefresh([at |-> 0, due |-> ranks[RankOf(p.bank)].next_refresh_due_cycle,
                end |-> 0, blocked |-> 0], ColumnFloor(p))

CloseAt(bank) == bank.last_col_start + Cyc("page_close_timer")

(* Mutant: judged at the cycle the command was ready rather than known. *)
TimedOutWhenReady(p, bank) ==
  Cfg.page_policy = "timer" /\ bank.open_row # NoRow /\ p.ready > CloseAt(bank)

TimedOut(p, bank) ==
  Cfg.page_policy = "timer" /\ bank.open_row # NoRow /\ p.visible > CloseAt(bank)

(* Mutant: the timer's precharge does not wait for tRAS, tRTP and tWR. *)
TimerPrechargeEarly(bank) == CloseAt(bank)

TimerPrecharge(bank) == Later(CloseAt(bank), bank.precharge_ready)

FoundBank(p) ==
  LET bank == Refreshed(banks[p.bank], Synced(p).end)
  IN  IF TimedOut(p, bank)
      THEN [bank EXCEPT !.open_row = NoRow,
                        !.act_ready = Later(@, TimerPrecharge(bank) + Cyc("tRP"))]
      ELSE bank

NoCycle == -1

(* The ACT at the first free slot from r.at on; `gated` is where the activate
   window was last trimmed. *)
ActivateFrom(p, r, gated, slots) ==
  LET act == ReserveSlot(slots, r.at)
  IN  [act |-> act, refresh |-> r, slots |-> slots \cup {act},
       acts |-> Append(StillInWindow(ranks[RankOf(p.bank)].recent_activates, gated), act)]

(* place_activate, from refresh progress r and reserved slots, at or after floor. *)
PlaceActivate(p, r, slots, floor) ==
  LET rank  == ranks[RankOf(p.bank)]
      first == ApplyRefresh(r, floor)
      gated == Gated(rank.recent_activates, rank.last_activate_bankgroup,
                     GroupOf(p.bank), first.at)
  IN  ActivateFrom(p, ApplyRefresh(first, gated), gated, slots)

(* Mutant: as early as the bank allows. *)
FromBank(p, cycle) == cycle

(* A row operation p asks for issues no earlier than p was known of. *)
FromVisible(p, cycle) == Later(p.visible, cycle)

(* What a miss with this ACT hands to the column command: row_ready is tRCD
   after the ACT, moved past a refresh that falls due by then. *)
MissOps(status, pre, placed) ==
  LET refresh == ApplyRefresh(placed.refresh, placed.act + Cyc("tRCD"))
  IN  [status |-> status, pre |-> pre, act |-> placed.act, acts |-> placed.acts,
       row_ready |-> refresh.at, refresh |-> refresh, slots |-> placed.slots]

(* The row operations a miss needs: ACT alone on a closed bank, PRE then ACT
   on one that holds another row. *)
RowOps(p, bank) ==
  IF bank.open_row = NoRow
  THEN MissOps("Empty", NoCycle,
               PlaceActivate(p, Synced(p), cmd_bus_slots, FromVisible(p, bank.act_ready)))
  ELSE LET before == ApplyRefresh(Synced(p), FromVisible(p, bank.precharge_ready))
           pre    == ReserveSlot(cmd_bus_slots, before.at)
       IN  MissOps("Conflict", pre,
                   PlaceActivate(p, before, cmd_bus_slots \cup {pre}, pre + Cyc("tRP")))

HitOps(p, bank) ==
  LET rank == ranks[RankOf(p.bank)]
  IN  [status |-> "Hit", pre |-> NoCycle, act |-> NoCycle, acts |-> rank.recent_activates,
       row_ready |-> bank.col_ready, refresh |-> Synced(p), slots |-> cmd_bus_slots]

(* Where the drain of p puts its commands: the row operations, `wanted` (the
   column command's cycle before the command bus is consulted), col and the
   data burst [data, complete). *)
PlacedWith(p, bank, ops) ==
  LET wanted == Later(Synced(p).at, ops.row_ready)
      col    == ReserveSlot(ops.slots, wanted)
      data   == col + CasCycles(p.type)
  IN  [bank |-> bank, ops |-> ops, wanted |-> wanted, col |-> col, data |-> data,
       complete |-> data + TransferCycles(p)]

Placement(p) ==
  LET bank == FoundBank(p)
  IN  PlacedWith(p, bank, IF bank.open_row = p.row THEN HitOps(p, bank) ELSE RowOps(p, bank))

-----------------------------------------------------------------------------
(***************************************************************************)
(* Accounting: the bubble before p's data burst is charged to what bound   *)
(* its column command.                                                     *)
(***************************************************************************)
Causes == {"refresh", "row_miss", "twtr", "turnaround", "tccd_l_excess",
           "frontend_idle", "other"}

(* The single highest floor, ties broken in the order of the code's else-ifs. *)
BindingCause(p, t) ==
  LET binds(floor) == floor > 0 /\ floor = t.wanted
  IN  IF Synced(p).at > ColumnFloor(p) /\ binds(Synced(p).at) THEN "refresh"
      ELSE IF t.ops.status # "Hit" /\ binds(t.ops.row_ready) THEN "row_miss"
      ELSE IF binds(TwtrFloor(p)) THEN "twtr"
      ELSE IF binds(TurnFloor(p)) THEN "turnaround"
      ELSE IF binds(TccdFloor(p)) THEN "tccd_l_excess"
      ELSE IF p.ready = t.wanted THEN "frontend_idle"
      ELSE "other"

(* Mutant: measured from the previous command instead of the end of its data. *)
PrevEndAtColumn == last_col_start_cycle

PrevEnd == IF bus_used THEN bus_free_cycle ELSE 0

(* The idle bus cycles before p's data, the slot search's push left out. *)
Bubble(p, t) == Monus(t.wanted + CasCycles(p.type), PrevEnd)

Pushed(t) == t.col - t.wanted

(* The cycles each cause is charged: blocked refresh cycles first, the slot
   search's push to "other", the rest of the bubble to the binding cause (of
   tCCD only what tCCD_L adds to tCCD_S). *)
Charge(p, t) ==
  LET gap     == Bubble(p, t)
      blocked == IF gap <= t.ops.refresh.blocked THEN gap ELSE t.ops.refresh.blocked
      rest    == gap - blocked
      cause   == BindingCause(p, t)
      excess  == IF SameGroup(p, last_col_bankgroup)
                 THEN Monus(Cyc("tCCD_L"), Cyc("tCCD_S")) ELSE 0
      charged == IF cause = "tccd_l_excess" /\ excess < rest THEN excess ELSE rest
  IN  [c \in Causes |-> (IF c = cause THEN charged ELSE 0)
                        + (IF c = "refresh" THEN blocked ELSE 0)
                        + (IF c = "other" THEN Pushed(t) + (rest - charged) ELSE 0)]

Counted(p, t) ==
  LET charge == Charge(p, t)
      missed == t.ops.status # "Hit"
      late   == Monus(t.ops.row_ready, Synced(p).at)
  IN  [served                  |-> [stats.served EXCEPT ![t.ops.status] = @ + 1],
       refresh_cycles          |-> stats.refresh_cycles + t.ops.refresh.blocked,
       turnaround_cycles       |-> stats.turnaround_cycles + Monus(TurnFloor(p), BusReady(p)),
       busy_cycles             |-> stats.busy_cycles + TransferCycles(p),
       bankgroup_reuse_count   |-> stats.bankgroup_reuse_count
                                   + (IF bus_used /\ SameGroup(p, last_col_bankgroup) THEN 1 ELSE 0),
       direction_switches      |-> stats.direction_switches
                                   + (IF bus_used /\ last_bus_type # p.type THEN 1 ELSE 0),
       row_miss_hidden         |-> stats.row_miss_hidden + (IF missed /\ late = 0 THEN 1 ELSE 0),
       row_miss_exposed        |-> stats.row_miss_exposed + (IF missed /\ late > 0 THEN 1 ELSE 0),
       row_miss_exposed_cycles |-> stats.row_miss_exposed_cycles + (IF missed THEN late ELSE 0),
       attr                    |-> [c \in Causes |-> stats.attr[c] + charge[c]],
       last_data_end_cycle     |-> t.complete]

-----------------------------------------------------------------------------
(***************************************************************************)
(* The state after a drain.                                                *)
(***************************************************************************)
(* Mutant: tRTP and tWR exchanged. *)
RecoverySwapped(type) ==
  ToCycles((Cfg[IF type = "Read" THEN "tWR" ELSE "tRTP"] \div Cfg.ns) * Cfg.ns)

(* tRTP/tWR go through an integer number of nanoseconds on their way to cycles. *)
Recovery(type) ==
  ToCycles((Cfg[IF type = "Read" THEN "tRTP" ELSE "tWR"] \div Cfg.ns) * Cfg.ns)

(* Mutant: a fresh ACTIVATE is not recorded. *)
OpenedAtStale(t) == t.bank.row_opened_at

OpenedAt(t) == IF t.ops.status = "Hit" THEN t.bank.row_opened_at ELSE t.ops.act

PrechargeReady(p, t) == Later(t.col + Recovery(p.type), OpenedAt(t) + Cyc("tRAS"))

(* Mutant: the automatic precharge takes no time. *)
ActReadyNoTrp(p, t) ==
  LET refreshed == Refreshed(t.bank, t.ops.refresh.end).act_ready
  IN  IF Cfg.page_policy = "closed" THEN Later(refreshed, PrechargeReady(p, t)) ELSE refreshed

ActReady(p, t) ==
  LET refreshed == Refreshed(t.bank, t.ops.refresh.end).act_ready
  IN  IF Cfg.page_policy = "closed"
      THEN Later(refreshed, PrechargeReady(p, t) + Cyc("tRP")) ELSE refreshed

(* The bank p used, once its column command is placed. *)
UsedBank(p, t) ==
  [open_row        |-> IF Cfg.page_policy = "closed" THEN NoRow ELSE p.row,
   row_opened_at   |-> OpenedAt(t),
   col_ready       |-> t.col + TransferCycles(p),
   precharge_ready |-> PrechargeReady(p, t),
   act_ready       |-> ActReady(p, t),
   last_col_start  |-> t.col]

BanksAfter(p, t) ==
  [b \in Bank |-> IF b = p.bank THEN UsedBank(p, t)
                  ELSE IF RankOf(b) = RankOf(p.bank)
                  THEN Refreshed(banks[b], t.ops.refresh.end) ELSE banks[b]]

RanksAfter(p, t) ==
  [ranks EXCEPT ![RankOf(p.bank)] =
     [recent_activates        |-> t.ops.acts,
      last_activate_bankgroup |-> IF t.ops.status = "Hit" THEN @.last_activate_bankgroup
                                  ELSE GroupOf(p.bank),
      next_refresh_due_cycle  |-> t.ops.refresh.due]]

(* Everyone passed over grows one selection older. *)
Aged(rest) == {[q EXCEPT !.skip_count = @ + 1] : q \in rest}

(* Mutant: commands still pending are not considered. *)
HorizonIgnoringPending(rest) == last_admitted_ready_cycle

Horizon(rest) == Min({last_admitted_ready_cycle} \cup {q.ready : q \in rest})

(* Mutant: a new batch starts with the count of the last one. *)
BatchCountKept == writes_in_batch

(* Writes the batch in progress has drained; a batch starts from zero. *)
BatchCount == IF DrainsWrites /\ ~ draining_writes THEN 0 ELSE writes_in_batch

(* What the drain looked like, for the properties. *)
Entry(p, t) ==
  [seq |-> p.seq, bank |-> p.bank, row |-> p.row, type |-> p.type,
   ready |-> p.ready, visible |-> p.visible, decided |-> DecisionCycle,
   status |-> t.ops.status, pre |-> t.ops.pre, act |-> t.ops.act,
   col |-> t.col, data |-> t.data, complete |-> t.complete,
   peeked_hit |-> Priority(p) = 0, starved |-> p \in Starved,
   alternative |-> \E q \in Eligible : q.bank # p.bank,
   writes_queued |-> Cardinality({q \in pending : q.type = "Write"}),
   writes_arrived |-> Cardinality({q \in Arrived : q.type = "Write"})]

TryAdmit(cmd, ready) ==
  /\ Cardinality(pending) < Cfg.command_queue_depth
  /\ pending' = pending \cup
       {[bank |-> cmd.bank, row |-> cmd.row, type |-> cmd.type, bytes |-> cmd.bytes,
         ready |-> ready, visible |-> Later(ready, last_col_start_cycle),
         seq |-> next_seq, skip_count |-> 0]}
  /\ next_seq' = next_seq + 1
  /\ last_admitted_ready_cycle' = Later(last_admitted_ready_cycle, ready)
  /\ UNCHANGED <<banks, ranks, busVars, policyVars, stats, log>>

Drain(p, t) ==
  /\ pending' = Aged(pending \ {p})
  /\ draining_writes' = (Cfg.write_policy = "batch" /\ DrainsWrites)
  /\ writes_in_batch' =
       IF Cfg.write_policy = "batch"
       THEN BatchCount + (IF DrainsWrites /\ p.type = "Write" THEN 1 ELSE 0)
       ELSE writes_in_batch
  /\ last_hit_bank' = IF Priority(p) = 0 THEN p.bank ELSE NoBank
  /\ consecutive_hit_count' =
       IF Priority(p) # 0 THEN 0
       ELSE IF p.bank = last_hit_bank THEN consecutive_hit_count + 1 ELSE 1
  /\ banks' = BanksAfter(p, t)
  /\ ranks' = RanksAfter(p, t)
  /\ bus_free_cycle' = t.complete
  /\ last_bus_type' = p.type
  /\ bus_used' = TRUE
  /\ last_col_start_cycle' = t.col
  /\ last_col_bankgroup' = GroupOf(p.bank)
  /\ last_write_complete_cycle' = IF p.type = "Write" THEN t.complete ELSE last_write_complete_cycle
  /\ last_write_bankgroup' = IF p.type = "Write" THEN GroupOf(p.bank) ELSE last_write_bankgroup
  /\ had_write_cmd' = (had_write_cmd \/ p.type = "Write")
  /\ cmd_bus_slots' = Prune(t.ops.slots \cup {t.col}, Horizon(pending \ {p}))
  /\ stats' = Counted(p, t)
  /\ log' = Append(log, Entry(p, t))
  /\ UNCHANGED <<next_seq, last_admitted_ready_cycle>>

DrainOne == pending # {} /\ Drain(Pick, Placement(Pick))

ClosedBank ==
  [open_row |-> NoRow, row_opened_at |-> 0, col_ready |-> 0, precharge_ready |-> 0,
   act_ready |-> 0, last_col_start |-> 0]

Init ==
  /\ pending = {}
  /\ next_seq = 0
  /\ last_admitted_ready_cycle = 0
  /\ banks = [b \in Bank |-> ClosedBank]
  /\ ranks = [r \in Ranks |-> [recent_activates |-> <<>>,
                               last_activate_bankgroup |-> 0,
                               next_refresh_due_cycle |-> Cyc("tREFI")]]
  /\ bus_free_cycle = 0 /\ last_bus_type = "Read" /\ bus_used = FALSE
  /\ last_col_start_cycle = 0 /\ last_col_bankgroup = 0
  /\ last_write_complete_cycle = 0 /\ last_write_bankgroup = 0
  /\ had_write_cmd = FALSE
  /\ cmd_bus_slots = {}
  /\ last_hit_bank = NoBank /\ consecutive_hit_count = 0
  /\ draining_writes = FALSE /\ writes_in_batch = 0
  /\ stats = [served |-> [s \in {"Hit", "Conflict", "Empty"} |-> 0],
              refresh_cycles |-> 0, turnaround_cycles |-> 0, busy_cycles |-> 0,
              bankgroup_reuse_count |-> 0, direction_switches |-> 0,
              row_miss_hidden |-> 0, row_miss_exposed |-> 0, row_miss_exposed_cycles |-> 0,
              attr |-> [c \in Causes |-> 0], last_data_end_cycle |-> 0]
  /\ log = <<>>

(* What a caller may admit next. *)
Submit(cmd, ready) ==
  /\ next_seq \in Admissions
  /\ InOrderArrivals => ready >= last_admitted_ready_cycle
  /\ TryAdmit(cmd, ready)

Next ==
  \/ \E cmd \in Requests, ready \in Arrivals : Submit(cmd, ready)
  \/ DrainOne

Spec == Init /\ [][Next]_vars
=============================================================================
