------------------------------ MODULE AddressMap ------------------------------
(***************************************************************************)
(* A configuration file is loaded, and transactions are pushed to an       *)
(* engine built from it: where their addresses decode to, and the          *)
(* input-integrity count of the regions above the mapped bits.             *)
(*                                                                         *)
(* An address is its bits, bit 0 the lowest; a field's value is a sequence *)
(* of bits, lowest first.                                                  *)
(***************************************************************************)
EXTENDS Configuration

CONSTANTS
  Files,              \* the configuration files that may be loaded
  Ranges,             \* the first and last byte of the transactions pushed
  MaxTrackedHighRegions, \* kMaxTrackedHighRegions
  MaxPushes           \* bound on the transactions pushed

VARIABLES
  file,               \* the configuration file
  config,             \* the DdrcConfig once loaded, NoConfig if there is none
  high_address_regions,
  pushed              \* history: the ranges pushed

vars == <<file, config, high_address_regions, pushed>>

NoConfig == [topology |-> <<>>]

ASSUME AddressAssumption ==
  AddressBits \in Nat \ {0} /\ MaxTrackedHighRegions \in Nat \ {0, 1} /\ MaxPushes \in Nat

-----------------------------------------------------------------------------
Bit == {0, 1}
Address == [0 .. AddressBits - 1 -> Bit]

(* A number as a physical address, wrapping where it overflows. *)
BitsOf(number) == [b \in 0 .. AddressBits - 1 |-> (number \div 2 ^ b) % 2]

(* The bytes pushed have addresses. *)
ASSUME RangesAssumption ==
  \A range \in Ranges : BitsOf(range[1]) \in Address /\ BitsOf(range[2]) \in Address

(* The fields of a mapping are vectors of bit numbers. *)
TypedMap(map) ==
  \A f \in Fields :
    /\ DOMAIN map[f].bits = 1 .. Len(map[f].bits)
    /\ DOMAIN map[f].hash_bits \subseteq Nat

ASSUME FilesAssumption == \A given \in Files : Accepted(given) => TypedMap(ConfigOf(given).map)

(* The presets multiply bus width and burst length as an int, which holds powers
   of two up to 2 ^ 30. *)
BurstFits(topology) == topology.data_bus_bytes * topology.burst_beats <= 2 ^ 30

ASSUME BurstAssumption == \A given \in Files : Accepted(given) => BurstFits(ConfigOf(given).topology)

Xor(a, b) == IF a = b THEN 0 ELSE 1

(* extract *)
Extract(addr, field) ==
  [i \in DOMAIN field.bits |->
     IF i \in DOMAIN field.hash_bits
     THEN Xor(addr[field.bits[i]], addr[field.hash_bits[i]])
     ELSE addr[field.bits[i]]]

(* decode: channel, rank, bank group, bank and row.  The column it also fills
   in is informational and drives nothing. *)
Decode(map, addr) == [f \in Fields |-> Extract(addr, map[f])]

(* mapped_address_bits: one above the highest bit gathered or hashed in. *)
MappedAddressBits(map) ==
  Max({-1} \cup UNION {Elements(map[f].bits) \cup Elements(map[f].hash_bits) : f \in Fields}) + 1

(* addr >> mapped_address_bits *)
Region(map, addr) == [b \in MappedAddressBits(map) .. AddressBits - 1 |-> addr[b]]

(* note_high_address_region: with nothing mapped, or everything, there is
   nothing to tell. *)
NoteHighAddressRegion(map, regions, addr) ==
  IF \/ MappedAddressBits(map) \notin 1 .. AddressBits - 1
     \/ Cardinality(regions) >= MaxTrackedHighRegions
  THEN regions
  ELSE regions \cup {Region(map, addr)}

-----------------------------------------------------------------------------
Init ==
  /\ file \in Files
  /\ config = NoConfig
  /\ high_address_regions = {} /\ pushed = {}

Load ==
  /\ config = NoConfig /\ Accepted(file)
  /\ config' = ConfigOf(file)
  /\ UNCHANGED <<file, high_address_regions, pushed>>

(* load_from_file throws, and leaves nothing behind; another file is tried. *)
Refuse ==
  /\ config = NoConfig /\ ~ Accepted(file)
  /\ file' \in Files
  /\ UNCHANGED <<config, high_address_regions, pushed>>

(* Mutant: only where a transaction starts is noted. *)
PushFirst(range) ==
  /\ config # NoConfig
  /\ high_address_regions' =
       NoteHighAddressRegion(config.map, high_address_regions, BitsOf(range[1]))
  /\ pushed' = pushed \cup {range}
  /\ UNCHANGED <<file, config>>

(* push_txn, as far as addresses go: those of the first and the last byte. *)
Push(range) ==
  /\ config # NoConfig
  /\ high_address_regions' =
       NoteHighAddressRegion(config.map,
         NoteHighAddressRegion(config.map, high_address_regions, BitsOf(range[1])),
         BitsOf(range[2]))
  /\ pushed' = pushed \cup {range}
  /\ UNCHANGED <<file, config>>

Next ==
  \/ Load
  \/ Refuse
  \/ Cardinality(pushed) < MaxPushes /\ \E range \in Ranges : Push(range)

Spec == Init /\ [][Next]_vars
=============================================================================
