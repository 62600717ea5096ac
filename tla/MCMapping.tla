------------------------------ MODULE MCMapping ------------------------------
(* Small instances of AddressMap: addresses of eight bits, two DRAM parts, and
   files that use presets, override them or place every bit by hand. *)
EXTENDS AddressMapProperties, TLC

Timings ==
  [tRCD |-> 3, tRP |-> 2, tRAS |-> 7, tRC |-> 9, tCL |-> 3, tCWL |-> 1,
   tCCD_S |-> 1, tCCD_L |-> 3, tRRD_S |-> 2, tRRD_L |-> 5, tFAW |-> 12,
   tWTR_S |-> 1, tWTR_L |-> 3, tRTP |-> 2, tWR |-> 4, tREFI |-> 100, tRFC |-> 20,
   rd_wr_turnaround |-> 3, wr_rd_turnaround |-> 1]

StructDefaults ==
  [topology       |-> [channels |-> 1, ranks_per_channel |-> 1, bankgroups |-> 1,
                       banks_per_group |-> 2, rows |-> 4, columns |-> 4,
                       data_bus_bytes |-> 1, burst_beats |-> 2, clock_mhz |-> 1600],
   timing_ns      |-> Timings,
   ddrc_resources |-> [command_queue_depth |-> 32, max_outstanding_per_id |-> 16,
                       scheduling_policy |-> "fr_fcfs", page_policy |-> "open",
                       page_close_timer_ns |-> 0, write_policy |-> "interleave",
                       write_drain_high |-> 0, write_drain_low |-> 0, write_batch_min |-> 8],
   reporting      |-> [history_window_ns |-> 0]]

(* With bank groups and columns beyond one burst; without either. *)
Parts ==
  [grouped   |-> [topology  |-> [bankgroups |-> 2, banks_per_group |-> 2, rows |-> 2,
                                 columns |-> 4, data_bus_bytes |-> 1, burst_beats |-> 2,
                                 clock_mhz |-> 3200],
                  timing_ns |-> [Timings EXCEPT !.tRAS = 8, !.tRC = 10]],
   ungrouped |-> [topology  |-> [bankgroups |-> 1, banks_per_group |-> 4, rows |-> 4,
                                 columns |-> 2, data_bus_bytes |-> 2, burst_beats |-> 4,
                                 clock_mhz |-> 4266],
                  timing_ns |-> Timings]]

-----------------------------------------------------------------------------
Drams ==
  {[preset |-> p, channels |-> c] : p \in {"grouped", "ungrouped"}, c \in {1, 2, 3}}
    \cup {[preset |-> "grouped", ranks_per_channel |-> 2]}
    \cup {[preset |-> "ungrouped", columns |-> 8]}

Presets == {"bankgroup-fast", "channel-low", "bank-per-core", "row-first"}

(* What may be written out next to a preset: nothing, or one field. *)
Overrides ==
  {<<>>}
    \cup {f :> [bits |-> bits] : f \in {"bank", "row"}, bits \in {<<0>>, <<7>>, <<5, 3>>, <<6, 7>>}}
    \cup {"bank" :> [bit_start |-> 2, bit_width |-> 1, hash_start |-> h] : h \in {2, 5, 7, 8}}

Topologies == {<<>>, [rows |-> 8], [columns |-> 2, banks_per_group |-> 1]}
TimingOverrides == {<<>>, [tRAS |-> 9]}

WithPresets ==
  {[dram |-> d, address_mapping |-> [preset |-> p] @@ o] :
     d \in Drams, p \in Presets, o \in Overrides}
    \cup {[dram |-> d, topology |-> t, timing_ns |-> ns, address_mapping |-> [preset |-> p]] :
            d \in Drams, p \in Presets, t \in Topologies, ns \in TimingOverrides}

(* A bank group and a row, scattered and hashed, over the defaults. *)
ByHand ==
  {[topology |-> [bankgroups |-> 4],
    address_mapping |-> [bankgroup |-> [bits |-> g, hash_start |-> h], bank |-> b,
                         row |-> [bits |-> r]]] :
     g \in {<<1, 4>>, <<4, 1>>, <<3>>}, h \in {-1, 4, 5, 6},
     b \in {[bits |-> <<2>>], [bit_start |-> 3, bit_width |-> 1]},
     r \in {<<5, 6>>, <<6, 3>>}}

AllFiles == WithPresets \cup ByHand

(* Ranges inside and across the region boundaries there are, up to the end. *)
SomeRanges == {<<0, 0>>, <<3, 10>>, <<12, 20>>, <<31, 32>>, <<60, 66>>, <<70, 70>>, <<124, 131>>, <<192, 255>>}
=============================================================================
