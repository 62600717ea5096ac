------------------------- MODULE ChannelProperties -------------------------
(***************************************************************************)
(* What ChannelScheduler promises.  The properties about DRAM commands are *)
(* stated over `log`, the commands the drains placed, and never over the   *)
(* cursors (act_ready, col_ready, ...) the scheduler steers by.            *)
(***************************************************************************)
EXTENDS ChannelScheduler

Cycle == Nat
Status == {"Hit", "Conflict", "Empty"}

PendingCmd ==
  [bank : Bank, row : Rows, type : Types, bytes : Nat, ready : Cycle, visible : Cycle,
   seq : Nat, skip_count : Nat]

BankState ==
  [open_row : Rows \cup {NoRow}, row_opened_at : Cycle, col_ready : Cycle,
   precharge_ready : Cycle, act_ready : Cycle, last_col_start : Cycle]

RankState ==
  [recent_activates : Seq(Cycle), last_activate_bankgroup : Groups,
   next_refresh_due_cycle : Cycle]

ChannelStats ==
  [served : [Status -> Nat], refresh_cycles : Nat, turnaround_cycles : Nat,
   busy_cycles : Nat, bankgroup_reuse_count : Nat, direction_switches : Nat,
   row_miss_hidden : Nat, row_miss_exposed : Nat, row_miss_exposed_cycles : Nat,
   attr : [Causes -> Nat], last_data_end_cycle : Cycle]

(* Every member of ChannelScheduler holds a value of its declared type; no
   unsigned cycle arithmetic goes below zero. *)
TypeOK ==
  /\ pending \subseteq PendingCmd
  /\ next_seq \in Nat /\ last_admitted_ready_cycle \in Cycle
  /\ banks \in [Bank -> BankState]
  /\ ranks \in [Ranks -> RankState]
  /\ bus_free_cycle \in Cycle /\ last_bus_type \in Types /\ bus_used \in BOOLEAN
  /\ last_col_start_cycle \in Cycle /\ last_col_bankgroup \in Groups
  /\ last_write_complete_cycle \in Cycle /\ last_write_bankgroup \in Groups
  /\ had_write_cmd \in BOOLEAN
  /\ cmd_bus_slots \subseteq Cycle
  /\ last_hit_bank \in Bank \cup {NoBank} /\ consecutive_hit_count \in Nat
  /\ draining_writes \in BOOLEAN /\ writes_in_batch \in Nat
  /\ stats \in ChannelStats

-----------------------------------------------------------------------------
(***************************************************************************)
(* The buses.                                                              *)
(***************************************************************************)
(* The command-bus start cycles of a drain: its PRE, ACT and column command. *)
Issued(e) ==
  {a \in {<<"PRE", e.pre>>, <<"ACT", e.act>>, <<"COL", e.col>>} : a[2] # NoCycle}

(* No two commands the channel ever placed hold the command bus at once, the
   forgotten slots of prune_cmd_bus_slots() included. *)
CommandBusExclusive ==
  \A i, j \in DOMAIN log : \A a \in Issued(log[i]), b \in Issued(log[j]) :
    <<i, a>> # <<j, b>> => ~ Overlap(a[2], b[2])

(* Column commands keep their distance: data bursts follow one another without
   overlap, with the turnaround between bursts of opposite directions, tCCD
   between consecutive commands, and tWTR from every earlier write to a read. *)
ColumnSpacing ==
  \A i, j \in DOMAIN log : i < j =>
    LET e == log[i]  f == log[j]
        turn == Cyc(IF e.type = "Read" THEN "rd_wr_turnaround" ELSE "wr_rd_turnaround")
    IN  /\ f.data >= e.complete + (IF e.type # f.type THEN turn ELSE 0)
        /\ f.col >= e.col + Cyc("tCCD_S")
        /\ j = i + 1 /\ GroupOf(e.bank) = GroupOf(f.bank) => f.col >= e.col + Cyc("tCCD_L")
        /\ e.type = "Write" /\ f.type = "Read" => f.col >= e.complete + Cyc("tWTR_S")

-----------------------------------------------------------------------------
(***************************************************************************)
(* Banks and ranks.                                                        *)
(***************************************************************************)
(* The drain before j that used the same bank, 0 if j is the first. *)
Previous(j) ==
  LET earlier == {i \in 1 .. j - 1 : log[i].bank = log[j].bank}
  IN  IF earlier = {} THEN 0 ELSE Max(earlier)

(* The ACT that opened the row drain i used. *)
OpenedBy(i) ==
  Max({k \in 1 .. i : log[k].bank = log[i].bank /\ log[k].act # NoCycle})

(* tRTP/tWR in cycles, rounded once. *)
RecoveryTime(type) == Cyc(IF type = "Read" THEN "tRTP" ELSE "tWR")

(* Some refresh falls due after cycle a and by cycle b. *)
RefreshBetween(a, b) == a \div Cyc("tREFI") < b \div Cyc("tREFI")

(* A row is closed by a PRE only tRTP/tWR after the last column command to it;
   and, unless a refresh that fell due since that command was decided closed it,
   the bank's next ACT waits for that recovery and tRP, whether the precharge was
   explicit, automatic or by idle timer. *)
RecoveryRespected ==
  \A j \in DOMAIN log : \A i \in {Previous(j)} \ {0} :
    LET recovered == log[i].col + RecoveryTime(log[i].type)
        act       == log[j].act
    IN  /\ log[j].pre # NoCycle => log[j].pre >= recovered
        /\ act # NoCycle /\ ~ RefreshBetween(log[i].decided, act) => act >= recovered + Cyc("tRP")

(* PRE, ACT and column command of one bank keep tRAS, tRP and tRCD between them,
   and two ACTs of a bank with no refresh between them are tRAS + tRP apart:
   config.hpp's reason for never reading tRC. *)
RowCycle ==
  \A j \in DOMAIN log :
    LET f == log[j] IN
    /\ f.act # NoCycle => f.col >= f.act + Cyc("tRCD")
    /\ f.pre # NoCycle => f.act >= f.pre + Cyc("tRP")
    /\ Previous(j) # 0 =>
         LET opened == log[OpenedBy(Previous(j))].act IN
         /\ f.pre # NoCycle => f.pre >= opened + Cyc("tRAS")
         /\ f.act # NoCycle /\ ~ RefreshBetween(opened, f.act)
            => f.act >= opened + Cyc("tRAS") + Cyc("tRP")

(* A page hit finds its row open: the bank's previous command used that row, and
   by the time this one is picked neither a refresh nor the page policy has
   closed it. *)
HitsAreReal ==
  \A j \in DOMAIN log : log[j].status = "Hit" =>
    /\ Previous(j) # 0
    /\ LET e == log[Previous(j)] IN
       /\ e.row = log[j].row
       /\ ~ RefreshBetween(e.col, log[j].decided)
       /\ Cfg.page_policy # "closed"
       /\ Cfg.page_policy = "timer" => log[j].visible <= e.col + Cyc("page_close_timer")

(* ACTs of one rank keep their order, tRRD between neighbours and tFAW across
   any five, late corrections of the recorded cycle included. *)
ActivateSpacing ==
  \A i, j \in DOMAIN log :
    LET e == log[i]  f == log[j]
        acts == {k \in DOMAIN log : RankOf(log[k].bank) = RankOf(e.bank) /\ log[k].act # NoCycle}
        between == {k \in acts : i < k /\ k < j}
    IN  i < j /\ {i, j} \subseteq acts =>
          /\ f.act >= e.act + Cyc("tRRD_S")
          /\ between = {} /\ GroupOf(e.bank) = GroupOf(f.bank) => f.act >= e.act + Cyc("tRRD_L")
          /\ Cardinality(between) >= 3 => f.act >= e.act + Cyc("tFAW")

(* Cycle c falls inside a refresh of every rank. *)
InRefresh(c) == c >= Cyc("tREFI") /\ c % Cyc("tREFI") < Cyc("tRFC")

(* No ACT is placed inside a refresh window (the guarantee command_queue.cpp
   and its refresh test state). *)
NoActInRefresh ==
  \A i \in DOMAIN log : log[i].act # NoCycle => ~ InRefresh(log[i].act)

(* A row operation, or the column command that needed one, is inside a refresh
   window only because the command bus was taken from before the window up to
   the cycle it got: refresh itself is respected at every floor. *)
RefreshYieldsOnlyToContention ==
  \A i \in DOMAIN log : \A a \in Issued(log[i]) :
    LET c      == a[2]
        start  == c - (c % Cyc("tREFI"))
        others == {b[2] : b \in (UNION {Issued(log[k]) : k \in 1 .. i}) \ {a}}
    IN  InRefresh(c) /\ log[i].status # "Hit" => \A t \in start - 1 .. c - 1 : ~ Free(others, t)

-----------------------------------------------------------------------------
(***************************************************************************)
(* Arbitration.                                                            *)
(***************************************************************************)
(* A command is placed only at cycles the controller could know of it, and no
   earlier than the decision that picked it was made. *)
PlacedWhenKnown ==
  \A i \in DOMAIN log :
    /\ \A a \in Issued(log[i]) : a[2] >= log[i].visible
    /\ log[i].col >= log[i].decided
    /\ log[i].decided >= log[i].ready

(* How often a command younger than p was preferred to p, after p had arrived,
   in the first n drains. *)
Overtaken(p, n) ==
  Cardinality({k \in 1 .. n : log[k].seq > p.seq /\ log[k].decided >= p.ready})

(* The starvation bound: younger commands overtake an arrived one at most
   StarvationLimit times, whatever the policies prefer. *)
BoundedOvertaking ==
  /\ \A p \in pending : Overtaken(p, Len(log)) <= StarvationLimit
  /\ \A i \in DOMAIN log : Overtaken(log[i], i - 1) <= StarvationLimit

(* No bank is served more than PagematchLimit hits in a row while a candidate
   on another bank waits, except to relieve a starved command. *)
PagematchCapped ==
  \A i \in DOMAIN log :
    ~ /\ i + PagematchLimit \in DOMAIN log
      /\ \A k \in i .. i + PagematchLimit : log[k].peeked_hit /\ log[k].bank = log[i].bank
      /\ log[i + PagematchLimit].alternative /\ ~ log[i + PagematchLimit].starved

(* Commands of one type to one row of a bank are served in the order they were
   admitted (their ready cycles being in that order too). *)
SameRowInOrder ==
  \A i, j \in DOMAIN log :
    /\ i < j
    /\ <<log[i].bank, log[i].row, log[i].type>> = <<log[j].bank, log[j].row, log[j].type>>
    => log[i].seq < log[j].seq \/ log[i].ready < log[j].ready

(* Under write_policy "batch", a read that is not starved interrupts a batch
   only after write_batch_min writes, unless the queued writes ran down to the
   low mark or none is left that has arrived. *)
BatchServesMinimum ==
  \A j \in DOMAIN log :
    LET reads == {k \in 1 .. j - 1 : log[k].type = "Read" /\ ~ log[k].starved}
        batch == (IF reads = {} THEN 1 ELSE Max(reads) + 1) .. j - 1
    IN  /\ Cfg.write_policy = "batch"
        /\ log[j].type = "Read" /\ ~ log[j].starved
        /\ batch # {} /\ \A k \in batch : ~ log[k].starved
        /\ log[j].writes_arrived > 0
        /\ \A k \in batch \cup {j} : log[k].writes_queued > Cfg.write_drain_low
        => Cardinality(batch) >= Cfg.write_batch_min

-----------------------------------------------------------------------------
(***************************************************************************)
(* Accounting.                                                             *)
(***************************************************************************)
Attributed ==
  stats.attr["refresh"] + stats.attr["row_miss"] + stats.attr["twtr"]
    + stats.attr["turnaround"] + stats.attr["tccd_l_excess"]
    + stats.attr["frontend_idle"] + stats.attr["other"]

(* Bus-time attribution is a closed budget: every cycle up to the end of the
   last data burst is a transfer cycle or charged to exactly one cause. *)
BudgetCloses ==
  /\ stats.busy_cycles + Attributed = bus_free_cycle
  /\ stats.last_data_end_cycle = bus_free_cycle
=============================================================================
