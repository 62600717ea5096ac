---------------------------- MODULE Configuration ----------------------------
(***************************************************************************)
(* DdrcConfig::load_from_file: a parsed JSON file is expanded by its       *)
(* presets, read section by section over the defaults of the struct, and   *)
(* validated.  A JSON object is a function from the keys it holds.         *)
(***************************************************************************)
EXTENDS Integers, Sequences, FiniteSetsExt

CONSTANTS
  AddressBits,        \* the width of a physical address: 64 in the program
  Defaults,           \* the member initialisers, one object per section
  DramPresets         \* kDramPresets: what a preset gives of topology and timing_ns

Fields == {"channel", "rank", "bankgroup", "bank", "row"}

(* The topology count a field selects from. *)
CountOf ==
  [channel |-> "channels", rank |-> "ranks_per_channel", bankgroup |-> "bankgroups",
   bank |-> "banks_per_group", row |-> "rows"]

(* An object, and another one's keys where it lacks them: TLC's @@, written
   out for the proofs. *)
Over(given, rest) ==
  [key \in DOMAIN given \cup DOMAIN rest |-> IF key \in DOMAIN given THEN given[key] ELSE rest[key]]

-----------------------------------------------------------------------------
(***************************************************************************)
(* Address fields: the physical bits gathered, lowest first, and the bits  *)
(* they are XORed with, none or one for each.                              *)
(***************************************************************************)
Contiguous(start, width) == [i \in 1 .. width |-> start + i - 1]

NoField == [bits |-> <<>>, hash_bits |-> <<>>]

ParseField(entry) ==
  LET span == Over(entry, [bit_start |-> 0, bit_width |-> 0])
      bits == IF "bits" \in DOMAIN entry THEN entry.bits
              ELSE Contiguous(span.bit_start, span.bit_width)
  IN  [bits      |-> bits,
       hash_bits |-> IF "hash_start" \in DOMAIN entry
                     THEN Contiguous(entry.hash_start, Len(bits)) ELSE <<>>]

-----------------------------------------------------------------------------
(***************************************************************************)
(* Presets.                                                                *)
(***************************************************************************)
Section(file, name) == IF name \in DOMAIN file THEN file[name] ELSE <<>>

WithoutPreset(obj) == [key \in DOMAIN obj \ {"preset"} |-> obj[key]]

(* expand_dram_preset: explicit keys first, then the preset's, and only then
   what else the dram object carries. *)
ExpandDram(file) ==
  IF "dram" \notin DOMAIN file THEN file
  ELSE LET given == DramPresets[file["dram"].preset]
       IN  Over([topology  |-> Over(Section(file, "topology"),
                                    Over(given.topology, WithoutPreset(file["dram"]))),
                 timing_ns |-> Over(Section(file, "timing_ns"), given.timing_ns)], file)

(* width_for: the bits that tell `count` values apart. *)
WidthFor(count) == Min({w \in 0 .. 30 : 2 ^ w >= count})

(* The fields of a mapping preset from the lowest bit up; row comes last. *)
PresetOrder == [preset \in {"bankgroup-fast", "channel-low", "bank-per-core"} |->
  CASE preset = "bankgroup-fast" -> <<"bankgroup", "bank", "channel", "rank", "gap", "row">>
    [] preset = "channel-low"    -> <<"channel", "bankgroup", "bank", "rank", "gap", "row">>
    [] preset = "bank-per-core"  -> <<"bankgroup", "channel", "gap", "bank", "rank", "row">>]

(* Mutant: the gap leaves room for the columns a burst already covers. *)
ColumnGapWhole(topology) == WidthFor(topology.columns)

(* col_gap: the column bits that lie above one burst. *)
ColumnGap(topology) ==
  Max({0, WidthFor(topology.columns) - WidthFor(topology.burst_beats)})

PresetWidth(topology, name) ==
  IF name = "gap" THEN ColumnGap(topology) ELSE WidthFor(topology[CountOf[name]])

PresetField(topology, order, name) ==
  LET place == CHOOSE k \in DOMAIN order : order[k] = name
      cursor[k \in DOMAIN order] ==
        IF k = 1 THEN WidthFor(topology.data_bus_bytes * topology.burst_beats)
        ELSE cursor[k - 1] + PresetWidth(topology, order[k - 1])
  IN  [bit_start |-> cursor[place], bit_width |-> PresetWidth(topology, name)]

(* expand_address_mapping_preset: a field written out wins over the preset's. *)
ExpandMapping(file) ==
  IF "preset" \notin DOMAIN Section(file, "address_mapping") THEN file
  ELSE LET given    == file["address_mapping"]
           topology == Over(Section(file, "topology"), Defaults.topology)
           order    == PresetOrder[given.preset]
           preset   == [f \in Fields |-> PresetField(topology, order, f)]
       IN  Over([address_mapping |-> Over(WithoutPreset(given), preset)], file)

UnknownPreset(file) ==
  \/ /\ "dram" \in DOMAIN file
     /\ "preset" \in DOMAIN file["dram"] => file["dram"].preset \notin DOMAIN DramPresets
  \/ /\ "preset" \in DOMAIN Section(file, "address_mapping")
     /\ file["address_mapping"].preset \notin DOMAIN PresetOrder

-----------------------------------------------------------------------------
(***************************************************************************)
(* Reading the expanded file.                                              *)
(***************************************************************************)
ReadTiming(given) ==
  LET timing == Over(given, Defaults.timing_ns)
  IN  IF "tRC" \in DOMAIN given THEN timing
      ELSE [timing EXCEPT !.tRC = timing.tRAS + timing.tRP]

ReadMapping(given) ==
  [f \in Fields |-> IF f \in DOMAIN given THEN ParseField(given[f]) ELSE NoField]

ConfigOf(file) ==
  LET root == ExpandMapping(ExpandDram(file))
  IN  [topology  |-> Over(Section(root, "topology"), Defaults.topology),
       map       |-> ReadMapping(Section(root, "address_mapping")),
       timing    |-> ReadTiming(Section(root, "timing_ns")),
       resources |-> Over(Section(root, "ddrc_resources"), Defaults.ddrc_resources),
       history_window |-> Over(Section(root, "reporting"), Defaults.reporting).history_window_ns]

-----------------------------------------------------------------------------
(***************************************************************************)
(* validate().                                                             *)
(***************************************************************************)
Counts ==
  {"channels", "ranks_per_channel", "bankgroups", "banks_per_group", "rows", "columns",
   "data_bus_bytes", "burst_beats"}

IsPowerOfTwo(v) == v >= 1 /\ \E w \in 0 .. 30 : v = 2 ^ w

TopologyValid(topology) ==
  /\ \A count \in Counts : IsPowerOfTwo(topology[count])
  /\ topology.clock_mhz \in 100 .. 20000

Elements(bits) == {bits[i] : i \in DOMAIN bits}

InAddress(map) == \A f \in Fields :
  Elements(map[f].bits) \cup Elements(map[f].hash_bits) \subseteq 0 .. AddressBits - 1

WidthsMatch(map, topology) == \A f \in Fields :
  Len(map[f].bits) = WidthFor(topology[CountOf[f]])

(* Mutant: a bit may not be gathered twice by one field, but by two. *)
DistinctInField(map) == \A f \in Fields : \A i, j \in DOMAIN map[f].bits :
  map[f].bits[i] = map[f].bits[j] => i = j

(* No physical bit is gathered twice, by one field or by two. *)
Distinct(map) == \A f, g \in Fields : \A i \in DOMAIN map[f].bits, j \in DOMAIN map[g].bits :
  map[f].bits[i] = map[g].bits[j] => f = g /\ i = j

MappingValid(map, topology) ==
  InAddress(map) /\ WidthsMatch(map, topology) /\ Distinct(map)

TimingValid(timing) ==
  /\ \A name \in DOMAIN timing : timing[name] >= 0
  /\ timing.tRC >= timing.tRAS + timing.tRP
  /\ timing.tCCD_L >= timing.tCCD_S
  /\ timing.tRRD_L >= timing.tRRD_S
  /\ timing.tWTR_L >= timing.tWTR_S
  /\ timing.tFAW >= 4 * timing.tRRD_S

ResourcesValid(r) ==
  /\ r.command_queue_depth >= 1 /\ r.max_outstanding_per_id >= 1
  /\ r.scheduling_policy = "fr_fcfs"
  /\ r.page_policy \in {"open", "closed", "timer"}
  /\ r.page_policy = "timer" => r.page_close_timer_ns > 0
  /\ r.page_close_timer_ns >= 0
  /\ r.write_policy \in {"interleave", "batch"}
  /\ r.write_drain_high >= 0 /\ r.write_drain_low >= 0 /\ r.write_batch_min >= 0
  /\ r.write_drain_high > 0 => r.write_drain_low < r.write_drain_high

Valid(cfg) ==
  /\ TopologyValid(cfg.topology)
  /\ MappingValid(cfg.map, cfg.topology)
  /\ TimingValid(cfg.timing)
  /\ ResourcesValid(cfg.resources)
  /\ cfg.history_window >= 0

Accepted(file) == ~ UnknownPreset(file) /\ Valid(ConfigOf(file))
=============================================================================
