------------------------------- MODULE System -------------------------------
(***************************************************************************)
(* The engine with its scheduler: the front end of FrontEnd driving one    *)
(* ChannelScheduler, every cycle computed as the program computes it.      *)
(* Nothing is left open between two calls of the API: which chunk returns, *)
(* and when, is the scheduler's decision.                                  *)
(*                                                                         *)
(* The scheduler's variables keep their names; `admitted` holds the part   *)
(* of a DramCommand the scheduler carries along untouched, by which a      *)
(* drained command finds its way back to its transaction.                  *)
(***************************************************************************)
EXTENDS FrontEnd

CONSTANTS
  Cfg, CmdSlotCycles, Ranks, Groups, BankIds, Rows, StarvationLimit, PagematchLimit,
  Decode(_)           \* the bank and row an address window decodes to

VARIABLES
  pending, next_seq, last_admitted_ready_cycle, banks, ranks,
  bus_free_cycle, last_bus_type, bus_used, last_col_start_cycle, last_col_bankgroup,
  last_write_complete_cycle, last_write_bankgroup, had_write_cmd, cmd_bus_slots,
  last_hit_bank, consecutive_hit_count, draining_writes, writes_in_batch,
  stats, log,
  admitted            \* the chunks admitted so far; the scheduler's seq counts them

channelVars ==
  <<pending, next_seq, last_admitted_ready_cycle, banks, ranks,
    bus_free_cycle, last_bus_type, bus_used, last_col_start_cycle, last_col_bankgroup,
    last_write_complete_cycle, last_write_bankgroup, had_write_cmd, cmd_bus_slots,
    last_hit_bank, consecutive_hit_count, draining_writes, writes_in_batch, stats, log>>

vars == <<frontVars, channelVars, admitted>>

ASSUME OneChannelAssumption == Channels = {0}

(* What a caller may admit is no parameter here: the front end is the caller,
   and only the scheduler's initial state and its two operations are used. *)
Channel ==
  INSTANCE ChannelScheduler
    WITH Requests <- {}, Arrivals <- {}, InOrderArrivals <- FALSE, Admissions <- {}

(* What ChannelScheduler assumes of its configuration, and the front end of the
   address map: a window lies in some row of some bank. *)
ASSUME SchedulerAssumption ==
  /\ Channel!DurationsAssumption /\ Channel!SlotAssumption /\ Channel!RefreshAssumption
  /\ Channel!TopologyAssumption /\ Channel!PolicyAssumption

ASSUME DecoderAssumption ==
  /\ ChunkBytes % Cfg.data_bus_bytes = 0
  /\ \A t \in Txns : \A i \in 0 .. NumChunks(t) - 1 :
       /\ Decode(FirstWindow(t) + i).bank \in Channel!Bank
       /\ Decode(FirstWindow(t) + i).row \in Rows

-----------------------------------------------------------------------------
HasRoom == Cardinality(pending) < Cfg.command_queue_depth

(* A chunk as the scheduler sees it: always one full burst. *)
CommandOf(chunk) ==
  [bank  |-> Decode(chunk.window).bank,
   row   |-> Decode(chunk.window).row,
   type  |-> Head(cursors[chunk.stream].pending).txn.type,
   bytes |-> ChunkBytes]

(* Mutant: what is drained is taken for the oldest command in the queue. *)
DrainedOldest == admitted[Min({p.seq : p \in pending}) + 1]

(* The chunk the next drain returns. *)
Drained == admitted[Channel!Pick.seq + 1]

(* drain_one, and route_completed_chunk of what it returns. *)
DrainOne ==
  /\ Channel!DrainOne
  /\ Route(Drained, Channel!Placement(Channel!Pick).complete)
  /\ UNCHANGED admitted

MakeRoom == turn # NoTurn /\ ~ HasRoom /\ DrainOne

Admit ==
  /\ turn # NoTurn /\ HasRoom
  /\ Channel!TryAdmit(CommandOf(ChunkOf(turn)), ChunkOf(turn).ready)
  /\ admitted' = Append(admitted, ChunkOf(turn))
  /\ AdmitTurn

DrainIdle == running /\ turn = NoTurn /\ heap = {} /\ DrainOne

Return ==
  /\ ReturnFromRun /\ pending = {}
  /\ UNCHANGED <<channelVars, admitted>>

Loop ==
  \/ (Reschedule \/ Issue \/ Resume) /\ UNCHANGED <<channelVars, admitted>>
  \/ MakeRoom
  \/ Admit
  \/ DrainIdle
  \/ Return

ChannelReport ==
  [ch \in Channels |->
     [bytes |-> stats.busy_cycles * Cfg.data_bus_bytes,
      charged |-> stats.busy_cycles + SumOf(stats.attr), data_end |-> stats.last_data_end_cycle]]

Init == FrontInit /\ Channel!Init /\ admitted = <<>>

Next ==
  \/ Call /\ UNCHANGED <<channelVars, admitted>> /\ Statistic(ChannelReport)
  \/ Loop /\ Statistic(ChannelReport)

Spec == Init /\ [][Next]_vars
=============================================================================
