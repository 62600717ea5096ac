------------------------- MODULE AddressMapProperties -------------------------
(***************************************************************************)
(* What the presets, validate(), decode() and the aliasing count promise   *)
(* together.                                                               *)
(***************************************************************************)
EXTENDS AddressMap

Loaded == config # NoConfig

Gathered(map) == UNION {Elements(map[f].bits) : f \in Fields}

(* The hash a documented mapping uses: every bit XORed in is a bit of a field
   that is not hashed itself, "typically row bits". *)
HashesOnUnhashed(map) ==
  \A f \in Fields : \A h \in Elements(map[f].hash_bits) :
    \E g \in Fields : h \in Elements(map[g].bits) /\ map[g].hash_bits = <<>>

(* The values of a field the topology has a use for. *)
Values(topology, f) == [1 .. WidthFor(topology[CountOf[f]]) -> Bit]

Locations(topology) ==
  {loc \in [Fields -> UNION {Values(topology, f) : f \in Fields}] :
     \A f \in Fields : loc[f] \in Values(topology, f)}

(* Under an accepted mapping no address leaves the topology (the scheduler's
   bank arrays are indexed unchecked) and no bank or row is unreachable, hashed
   or not, wherever its bits are scattered. *)
EveryLocationOnce ==
  Loaded /\ pushed = {} /\ HashesOnUnhashed(config.map)
  => {Decode(config.map, addr) : addr \in Address} = Locations(config.topology)

(* A byte of DRAM: its location, and the address bits below the mapped ones'
   end that select nothing, which are the column and the byte of a burst. *)
DramByte(map, addr) ==
  <<Decode(map, addr),
    [b \in (0 .. MappedAddressBits(map) - 1) \ Gathered(map) |-> addr[b]]>>

(* Addresses pushed that stand for one byte of DRAM are never silent: the count
   of high regions then exceeds one. *)
AliasingReported ==
  /\ Loaded /\ HashesOnUnhashed(config.map) /\ Gathered(config.map) # {}
  /\ \E a, b \in UNION {{BitsOf(range[1]), BitsOf(range[2])} : range \in pushed} :
       a # b /\ DramByte(config.map, a) = DramByte(config.map, b)
  => Cardinality(high_address_regions) > 1

(* A file that leaves its mapping to a preset. *)
PresetOnly == DOMAIN Section(file, "address_mapping") = {"preset"}

(* A preset neither splits a burst nor wastes or invents capacity: all that
   lies below the end of its mapped bits is exactly the DRAM the topology
   describes, so a footprint that fits the DRAM is one high region. *)
PresetFillsDram ==
  Loaded /\ PresetOnly /\ config.topology.rows > 1 =>
    LET t == config.topology IN
    /\ 2 ^ MappedAddressBits(config.map)
         = t.channels * t.ranks_per_channel * t.bankgroups * t.banks_per_group * t.rows
             * Max({t.columns, t.burst_beats}) * t.data_bus_bytes
    /\ \A b \in Gathered(config.map) : 2 ^ b >= t.data_bus_bytes * t.burst_beats
=============================================================================
