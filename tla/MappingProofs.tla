---------------------------- MODULE MappingProofs ----------------------------
(***************************************************************************)
(* What validate() asks of an address mapping is enough, for every mapping *)
(* and every topology: no address leaves the topology, and every location  *)
(* has an address.  For the latter the address is written bit by bit: the  *)
(* bits of the fields that are not hashed as the location has them, those  *)
(* of the others XORed with what they are hashed with.                     *)
(*                                                                         *)
(* And a preset fits every topology: widths are exponents of two, and what *)
(* is laid out end to end multiplies to the size of the DRAM.              *)
(***************************************************************************)
EXTENDS AddressMapProperties, FiniteSetTheorems, WellFoundedInduction, TLAPS

Plain(map, g) == map[g].hash_bits = <<>>

-----------------------------------------------------------------------------
LEMMA XorBit ==
  ASSUME NEW a \in Bit, NEW b \in Bit
  PROVE  Xor(a, b) \in Bit /\ Xor(Xor(a, b), b) = a
BY DEF Xor, Bit

LEMMA FieldBits ==
  ASSUME NEW map, NEW topology, MappingValid(map, topology), NEW f \in Fields
  PROVE  /\ \A i \in DOMAIN map[f].bits : map[f].bits[i] \in 0 .. AddressBits - 1
         /\ \A i \in DOMAIN map[f].hash_bits : map[f].hash_bits[i] \in 0 .. AddressBits - 1
BY DEF MappingValid, InAddress, Elements

LEMMA FieldValues ==
  ASSUME NEW map, NEW topology, MappingValid(map, topology), TypedMap(map), NEW f \in Fields
  PROVE  Values(topology, f) = [DOMAIN map[f].bits -> Bit]
BY DEF MappingValid, WidthsMatch, TypedMap, Values

(* No address decodes to a location the topology lacks. *)
LEMMA DecodeInTopology ==
  ASSUME NEW map, NEW topology, MappingValid(map, topology), TypedMap(map),
         NEW addr \in Address
  PROVE  Decode(map, addr) \in Locations(topology)
<1>1. ASSUME NEW f \in Fields PROVE Extract(addr, map[f]) \in Values(topology, f)
  <2>1. ASSUME NEW i \in DOMAIN map[f].bits
        PROVE  addr[map[f].bits[i]] \in Bit
               /\ (i \in DOMAIN map[f].hash_bits => addr[map[f].hash_bits[i]] \in Bit)
    BY FieldBits DEF Address
  <2> QED
    BY <2>1, XorBit, FieldValues DEF Extract
<1>2. Decode(map, addr) = [f \in Fields |-> Extract(addr, map[f])]
  BY DEF Decode
<1> QED
  BY <1>1, <1>2 DEF Locations

(* The bit a location asks of an address, of those that no hash touches. *)
Asked(map, loc, b, v) ==
  \A g \in Fields : \A j \in DOMAIN map[g].bits :
    Plain(map, g) /\ map[g].bits[j] = b => v = loc[g][j]

LEMMA AskedOnce ==
  ASSUME NEW map, NEW topology, MappingValid(map, topology), TypedMap(map),
         NEW loc \in Locations(topology), NEW b
  PROVE  \E v \in Bit : Asked(map, loc, b, v)
<1>1. CASE \E g \in Fields : \E j \in DOMAIN map[g].bits : Plain(map, g) /\ map[g].bits[j] = b
  <2>1. PICK g \in Fields : \E j \in DOMAIN map[g].bits : Plain(map, g) /\ map[g].bits[j] = b
    BY <1>1
  <2>11. PICK j \in DOMAIN map[g].bits : Plain(map, g) /\ map[g].bits[j] = b
    BY <2>1
  <2>2. loc[g][j] \in Bit
    BY FieldValues DEF Locations
  <2>3. \A f \in Fields : \A i \in DOMAIN map[f].bits : map[f].bits[i] = b => f = g /\ i = j
    BY <2>11 DEF MappingValid, Distinct
  <2> QED
    BY <2>2, <2>3 DEF Asked
<1>2. CASE ~ \E g \in Fields : \E j \in DOMAIN map[g].bits : Plain(map, g) /\ map[g].bits[j] = b
  BY <1>2 DEF Asked, Bit
<1> QED
  BY <1>1, <1>2

(* Every location of the topology has an address. *)
LEMMA LocationHasAddress ==
  ASSUME NEW map, NEW topology, MappingValid(map, topology), TypedMap(map),
         HashesOnUnhashed(map), NEW loc \in Locations(topology)
  PROVE  \E addr \in Address : Decode(map, addr) = loc
<1> DEFINE plain == [b \in 0 .. AddressBits - 1 |-> CHOOSE v \in Bit : Asked(map, loc, b, v)]
           hash(f, i) == IF i \in DOMAIN map[f].hash_bits THEN plain[map[f].hash_bits[i]] ELSE 0
           Wanted(b, v) == \A f \in Fields : \A i \in DOMAIN map[f].bits :
                             map[f].bits[i] = b => v = Xor(loc[f][i], hash(f, i))
<1>1. \A b \in 0 .. AddressBits - 1 : plain[b] \in Bit /\ Asked(map, loc, b, plain[b])
  BY AskedOnce
<1> HIDE DEF plain
<1>2. ASSUME NEW f \in Fields, NEW i \in DOMAIN map[f].bits
      PROVE  loc[f][i] \in Bit /\ hash(f, i) \in Bit
  BY <1>1, FieldBits, FieldValues DEF Locations, Bit
<1> HIDE DEF hash
<1>3. ASSUME NEW b PROVE \E v \in Bit : Wanted(b, v)
  <2>1. CASE \E f \in Fields : \E i \in DOMAIN map[f].bits : map[f].bits[i] = b
    <3>0. PICK f \in Fields : \E i \in DOMAIN map[f].bits : map[f].bits[i] = b
      BY <2>1
    <3>1. PICK i \in DOMAIN map[f].bits : map[f].bits[i] = b
      BY <3>0
    <3>2. \A g \in Fields : \A j \in DOMAIN map[g].bits : map[g].bits[j] = b => g = f /\ j = i
      BY <3>1 DEF MappingValid, Distinct
    <3>3. Xor(loc[f][i], hash(f, i)) \in Bit
      BY <1>2, XorBit
    <3> QED
      BY <3>2, <3>3
  <2>2. CASE ~ \E f \in Fields : \E i \in DOMAIN map[f].bits : map[f].bits[i] = b
    BY <2>2 DEF Bit
  <2> QED
    BY <2>1, <2>2
<1> HIDE DEF Wanted
<1> DEFINE addr == [b \in 0 .. AddressBits - 1 |->
                      IF \E f \in Fields : \E i \in DOMAIN map[f].bits : map[f].bits[i] = b
                      THEN CHOOSE v \in Bit : Wanted(b, v) ELSE plain[b]]
<1>4. addr \in Address
  BY <1>1, <1>3 DEF Address
<1>5. ASSUME NEW f \in Fields, NEW i \in DOMAIN map[f].bits
      PROVE  addr[map[f].bits[i]] = Xor(loc[f][i], hash(f, i))
  <2>1. map[f].bits[i] \in 0 .. AddressBits - 1
    BY FieldBits
  <2>2. Wanted(map[f].bits[i], addr[map[f].bits[i]])
    BY <1>3, <2>1
  <2> HIDE DEF addr
  <2> QED
    BY <2>2 DEF Wanted
<1> HIDE DEF addr
<1>6. ASSUME NEW f \in Fields, NEW i \in DOMAIN map[f].bits, i \in DOMAIN map[f].hash_bits
      PROVE  addr[map[f].hash_bits[i]] = hash(f, i)
  <2> DEFINE h == map[f].hash_bits[i]
  <2>1. h \in Elements(map[f].hash_bits)
    BY <1>6 DEF Elements
  <2>2. PICK g \in Fields : h \in Elements(map[g].bits) /\ Plain(map, g)
    BY <2>1 DEF HashesOnUnhashed, Plain
  <2>3. PICK j \in DOMAIN map[g].bits : map[g].bits[j] = h
    BY <2>2 DEF Elements
  <2>4. h \in 0 .. AddressBits - 1
    BY <1>6, FieldBits
  <2>5. plain[h] = loc[g][j]
    BY <1>1, <2>2, <2>3, <2>4 DEF Asked
  <2>6. hash(g, j) = 0
    BY <2>2 DEF Plain, hash
  <2>7. addr[h] = Xor(loc[g][j], 0)
    BY <1>5, <2>3, <2>6
  <2>8. loc[g][j] \in Bit
    BY <1>2
  <2> QED
    BY <1>6, <2>5, <2>7, <2>8 DEF hash, Xor, Bit
<1>7. ASSUME NEW f \in Fields PROVE Extract(addr, map[f]) = loc[f]
  <2>1. loc[f] \in [DOMAIN map[f].bits -> Bit]
    BY FieldValues DEF Locations
  <2>2. ASSUME NEW i \in DOMAIN map[f].bits PROVE Extract(addr, map[f])[i] = loc[f][i]
    <3>1. CASE i \in DOMAIN map[f].hash_bits
      BY <1>2, <1>5, <1>6, <3>1, XorBit DEF Extract
    <3>2. CASE i \notin DOMAIN map[f].hash_bits
      BY <1>2, <1>5, <3>2 DEF Extract, hash, Xor, Bit
    <3> QED
      BY <3>1, <3>2
  <2>3. Extract(addr, map[f]) = [i \in DOMAIN map[f].bits |-> Extract(addr, map[f])[i]]
    BY DEF Extract
  <2> QED
    BY <2>1, <2>2, <2>3
<1>8. Decode(map, addr) = loc
  <2>1. loc = [f \in Fields |-> loc[f]]
    BY DEF Locations
  <2> QED
    BY <1>7, <2>1 DEF Decode
<1> QED
  BY <1>4, <1>8

-----------------------------------------------------------------------------
(* What is loaded was accepted. *)
LoadedFromFile == Loaded => \E given \in Files : Accepted(given) /\ config = ConfigOf(given)

LEMMA LoadedWasAccepted == Spec => []LoadedFromFile
<1>1. Init => LoadedFromFile
  BY DEF Init, LoadedFromFile, Loaded
<1>2. (file \in Files) /\ LoadedFromFile /\ [Next]_vars => LoadedFromFile'
  BY DEF LoadedFromFile, Loaded, Next, vars, Load, Refuse, Push
<1>3. Init => file \in Files
  BY DEF Init
<1>4. (file \in Files) /\ [Next]_vars => (file \in Files)'
  BY DEF Next, vars, Load, Refuse, Push
<1> QED
  BY <1>1, <1>2, <1>3, <1>4, PTL DEF Spec

(* Whatever file is loaded, no address of its mapping leaves its topology, and
   every bank and row of the topology has an address. *)
THEOREM AcceptedMappingsCover == Spec => []EveryLocationOnce
<1>1. LoadedFromFile => EveryLocationOnce
  <2> SUFFICES ASSUME LoadedFromFile, Loaded, HashesOnUnhashed(config.map)
               PROVE  {Decode(config.map, addr) : addr \in Address} = Locations(config.topology)
    BY DEF EveryLocationOnce
  <2>1. MappingValid(config.map, config.topology) /\ TypedMap(config.map)
    BY FilesAssumption DEF LoadedFromFile, Accepted, Valid
  <2>2. \A addr \in Address : Decode(config.map, addr) \in Locations(config.topology)
    BY <2>1, DecodeInTopology
  <2>3. \A loc \in Locations(config.topology) : \E addr \in Address : Decode(config.map, addr) = loc
    BY <2>1, LocationHasAddress
  <2> QED
    BY <2>2, <2>3
<1> QED
  BY <1>1, LoadedWasAccepted, PTL

-----------------------------------------------------------------------------
(***************************************************************************)
(* Aliasing.                                                               *)
(***************************************************************************)
(* Some bits have a last one. *)
LEMMA LastOfBits ==
  ASSUME NEW last \in Int, NEW S \in SUBSET (-1 .. last), S # {}
  PROVE  Max(S) \in S /\ \A x \in S : x <= Max(S)
<1> DEFINE D == {last - x : x \in S}
<1>1. D \in SUBSET Nat /\ D # {}
  <2>1. \A x \in S : last - x \in Nat
    OBVIOUS
  <2> QED
    BY <2>1
<1>2. PICK d \in D : \A e \in D : <<e, d>> \notin OpToRel(<, Nat)
  BY <1>1, WFMin, NatLessThanWellFounded, Zenon
<1>3. \A e \in D : ~ (e < d)
  BY <1>1, <1>2, Zenon DEF OpToRel
<1>4. PICK m \in S : d = last - m
  BY <1>2
<1>5. \A x \in S : m >= x
  <2> SUFFICES ASSUME NEW x \in S PROVE m >= x
    OBVIOUS
  <2>1. ~ (last - x < last - m)
    BY <1>3, <1>4
  <2> QED
    BY <2>1
<1> QED
  BY <1>5 DEF Max

(* The end of the mapped bits is in the address, and beyond every bit gathered. *)
LEMMA MappedBitsEnd ==
  ASSUME NEW map, NEW topology, MappingValid(map, topology)
  PROVE  /\ MappedAddressBits(map) \in 0 .. AddressBits
         /\ \A b \in Gathered(map) : b < MappedAddressBits(map) /\ b \in 0 .. AddressBits - 1
<1> DEFINE S == {-1} \cup UNION {Elements(map[f].bits) \cup Elements(map[f].hash_bits) : f \in Fields}
<1>1. AddressBits \in Nat \ {0}
  BY AddressAssumption
<1>2. S \in SUBSET (-1 .. AddressBits - 1) /\ S # {}
  <2>1. \A f \in Fields : Elements(map[f].bits) \cup Elements(map[f].hash_bits) \subseteq 0 .. AddressBits - 1
    BY DEF MappingValid, InAddress
  <2>2. 0 .. AddressBits - 1 \subseteq -1 .. AddressBits - 1 /\ -1 \in -1 .. AddressBits - 1
    BY <1>1
  <2> QED
    BY <2>1, <2>2
<1>3. AddressBits - 1 \in Int
  BY <1>1
<1> HIDE DEF S
<1>4. Max(S) \in S /\ \A x \in S : x <= Max(S)
  BY <1>2, <1>3, LastOfBits
<1>5. MappedAddressBits(map) = Max(S) + 1
  BY DEF MappedAddressBits, S
<1>6. Gathered(map) \subseteq S /\ Gathered(map) \subseteq 0 .. AddressBits - 1
  BY DEF Gathered, S, MappingValid, InAddress
<1>7. Max(S) \in -1 .. AddressBits - 1
  BY <1>2, <1>4
<1> QED
  BY <1>1, <1>4, <1>5, <1>6, <1>7

(* A location gives every bit gathered: what is XORed in is known. *)
LEMMA LocationGivesBits ==
  ASSUME NEW map, NEW topology, MappingValid(map, topology), HashesOnUnhashed(map),
         NEW a \in Address, NEW b \in Address, Decode(map, a) = Decode(map, b),
         NEW x \in Gathered(map)
  PROVE  a[x] = b[x]
<1>1. ASSUME NEW f \in Fields, NEW i \in DOMAIN map[f].bits
      PROVE  IF i \in DOMAIN map[f].hash_bits
             THEN Xor(a[map[f].bits[i]], a[map[f].hash_bits[i]])
                    = Xor(b[map[f].bits[i]], b[map[f].hash_bits[i]])
             ELSE a[map[f].bits[i]] = b[map[f].bits[i]]
  <2>1. Extract(a, map[f]) = Extract(b, map[f])
    BY DEF Decode
  <2>2. Extract(a, map[f])[i] = Extract(b, map[f])[i]
    BY <2>1
  <2> QED
    BY <2>2 DEF Extract
<1>2. ASSUME NEW g \in Fields, Plain(map, g), NEW y \in Elements(map[g].bits)
      PROVE  a[y] = b[y]
  <2>1. PICK j \in DOMAIN map[g].bits : map[g].bits[j] = y
    BY DEF Elements
  <2>2. j \notin DOMAIN map[g].hash_bits
    BY <1>2 DEF Plain
  <2> QED
    BY <1>1, <2>1, <2>2
<1>3. PICK f \in Fields : x \in Elements(map[f].bits)
  BY DEF Gathered
<1>4. PICK i \in DOMAIN map[f].bits : map[f].bits[i] = x
  BY <1>3 DEF Elements
<1>5. CASE i \notin DOMAIN map[f].hash_bits
  BY <1>1, <1>4, <1>5
<1>6. CASE i \in DOMAIN map[f].hash_bits
  <2> DEFINE h == map[f].hash_bits[i]
  <2>1. h \in Elements(map[f].hash_bits)
    BY <1>6 DEF Elements
  <2>2. PICK g \in Fields : h \in Elements(map[g].bits) /\ Plain(map, g)
    BY <2>1 DEF HashesOnUnhashed, Plain
  <2>3. a[h] = b[h]
    BY <1>2, <2>2
  <2>4. Xor(a[x], a[h]) = Xor(b[x], b[h])
    BY <1>1, <1>4, <1>6
  <2>5. a[x] \in Bit /\ b[x] \in Bit /\ a[h] \in Bit
    BY <1>4, <1>6, FieldBits DEF Address
  <2> HIDE DEF h
  <2> QED
    BY <2>3, <2>4, <2>5 DEF Xor, Bit
<1> QED
  BY <1>5, <1>6

(* Two addresses of one byte differ above the mapped bits. *)
LEMMA AliasesAreInTwoRegions ==
  ASSUME NEW map, NEW topology, MappingValid(map, topology), HashesOnUnhashed(map),
         Gathered(map) # {}, NEW a \in Address, NEW b \in Address, a # b,
         DramByte(map, a) = DramByte(map, b)
  PROVE  /\ MappedAddressBits(map) \in 1 .. AddressBits - 1
         /\ Region(map, a) # Region(map, b)
<1> DEFINE m == MappedAddressBits(map)
<1>1. /\ AddressBits \in Nat \ {0} /\ m \in 0 .. AddressBits
      /\ \A y \in Gathered(map) : y < m /\ y \in 0 .. AddressBits - 1
  BY MappedBitsEnd, AddressAssumption
<1>2. \A y \in Gathered(map) : a[y] = b[y]
  BY LocationGivesBits DEF DramByte
<1>3. PICK x \in 0 .. AddressBits - 1 : a[x] # b[x]
  <2>1. /\ a = [y \in 0 .. AddressBits - 1 |-> a[y]]
        /\ b = [y \in 0 .. AddressBits - 1 |-> b[y]]
    BY DEF Address
  <2> QED
    BY <2>1, Zenon
<1> HIDE DEF m
<1>4. x \notin Gathered(map)
  BY <1>2, <1>3
<1>5. ~ (x < m)
  <2> SUFFICES ASSUME x < m PROVE FALSE
    OBVIOUS
  <2>1. x \in (0 .. m - 1) \ Gathered(map)
    BY <1>1, <1>4
  <2> DEFINE rest(addr) == [y \in (0 .. m - 1) \ Gathered(map) |-> addr[y]]
  <2>2. rest(a) = rest(b)
    BY DEF DramByte, m
  <2>3. rest(a)[x] = rest(b)[x]
    BY <2>2
  <2> QED
    BY <1>3, <2>1, <2>3
<1>6. m \in 1 .. AddressBits - 1 /\ x \in m .. AddressBits - 1
  BY <1>1, <1>5
<1>7. Region(map, a)[x] # Region(map, b)[x]
  BY <1>3, <1>6 DEF Region, m
<1> QED
  BY <1>6, <1>7 DEF m

(* The regions of everything pushed are noted, up to the limit. *)
Noted(map, addr) ==
  \/ Cardinality(high_address_regions) >= MaxTrackedHighRegions
  \/ Region(map, addr) \in high_address_regions

RegionsNoted ==
  /\ IsFiniteSet(high_address_regions)
  /\ pushed \subseteq Ranges
  /\ pushed # {} => Loaded
  /\ MappedAddressBits(config.map) \in 1 .. AddressBits - 1 =>
       \A range \in pushed :
         Noted(config.map, BitsOf(range[1])) /\ Noted(config.map, BitsOf(range[2]))

LEMMA NoteRegion ==
  ASSUME NEW regions, IsFiniteSet(regions), NEW map, NEW addr
  PROVE  LET after == NoteHighAddressRegion(map, regions, addr)
         IN  /\ IsFiniteSet(after) /\ regions \subseteq after
             /\ Cardinality(regions) <= Cardinality(after)
             /\ MappedAddressBits(map) \in 1 .. AddressBits - 1 =>
                  \/ Cardinality(after) >= MaxTrackedHighRegions
                  \/ Region(map, addr) \in after
<1>1. Cardinality(regions) \in Nat
  BY FS_CardinalityType
<1>2. /\ IsFiniteSet(regions \cup {Region(map, addr)})
      /\ Cardinality(regions) <= Cardinality(regions \cup {Region(map, addr)})
  BY <1>1, FS_AddElement
<1> QED
  BY <1>1, <1>2 DEF NoteHighAddressRegion

LEMMA RegionsStayNoted == Spec => []RegionsNoted
<1>1. Init => RegionsNoted
  BY FS_EmptySet DEF Init, RegionsNoted
<1>2. RegionsNoted /\ [Next]_vars => RegionsNoted'
  <2> SUFFICES ASSUME RegionsNoted, [Next]_vars PROVE RegionsNoted'
    OBVIOUS
  <2>1. CASE Load \/ Refuse
    <3>1. config = NoConfig /\ UNCHANGED <<high_address_regions, pushed>>
      BY <2>1 DEF Load, Refuse
    <3>2. pushed = {}
      BY <3>1 DEF RegionsNoted, Loaded
    <3> QED
      BY <3>1, <3>2 DEF RegionsNoted
  <2>2. ASSUME NEW range \in Ranges, Push(range) PROVE RegionsNoted'
    <3> DEFINE map == config.map
               first == NoteHighAddressRegion(map, high_address_regions, BitsOf(range[1]))
               last == NoteHighAddressRegion(map, first, BitsOf(range[2]))
    <3>1. /\ high_address_regions' = last /\ pushed' = pushed \cup {range}
          /\ config' = config /\ Loaded
      BY <2>2 DEF Push, Loaded
    <3>2. IsFiniteSet(high_address_regions)
      BY DEF RegionsNoted
    <3>3. /\ IsFiniteSet(first) /\ high_address_regions \subseteq first
          /\ Cardinality(high_address_regions) <= Cardinality(first)
          /\ MappedAddressBits(map) \in 1 .. AddressBits - 1 =>
               \/ Cardinality(first) >= MaxTrackedHighRegions
               \/ Region(map, BitsOf(range[1])) \in first
      BY <3>2, NoteRegion
    <3> HIDE DEF first
    <3>4. /\ IsFiniteSet(last) /\ first \subseteq last /\ Cardinality(first) <= Cardinality(last)
          /\ MappedAddressBits(map) \in 1 .. AddressBits - 1 =>
               \/ Cardinality(last) >= MaxTrackedHighRegions
               \/ Region(map, BitsOf(range[2])) \in last
      BY <3>3, NoteRegion
    <3>5. /\ Cardinality(high_address_regions) \in Nat /\ Cardinality(first) \in Nat
          /\ Cardinality(last) \in Nat /\ MaxTrackedHighRegions \in Nat
      BY <3>2, <3>3, <3>4, FS_CardinalityType, AddressAssumption
    <3> HIDE DEF last, map
    <3>6. \A addr : Noted(map, addr) => Noted(map, addr)'
      BY <3>1, <3>3, <3>4, <3>5 DEF Noted, map
    <3> QED
      BY <3>1, <3>3, <3>4, <3>5, <3>6 DEF RegionsNoted, Noted, Loaded, map
  <2>3. CASE UNCHANGED vars
    BY <2>3 DEF RegionsNoted, Noted, Loaded, vars
  <2> QED
    BY <2>1, <2>2, <2>3 DEF Next
<1> QED
  BY <1>1, <1>2, PTL DEF Spec

LEMMA TwoElements ==
  ASSUME NEW x, NEW y, x # y
  PROVE  Cardinality({x, y}) = 2
<1>1. IsFiniteSet({x}) /\ Cardinality({x}) = 1
  BY FS_Singleton
<1>2. Cardinality({x} \cup {y}) = 1 + 1
  BY <1>1, FS_AddElement
<1>3. {x, y} = {x} \cup {y}
  OBVIOUS
<1> QED
  BY <1>2, <1>3

(* Two addresses that stand for one byte of DRAM never go unreported, whatever file
   is loaded and whatever else is pushed. *)
THEOREM AliasingIsReported == Spec => []AliasingReported
<1>1. LoadedFromFile /\ RegionsNoted => AliasingReported
  <2> SUFFICES ASSUME LoadedFromFile, RegionsNoted, Loaded, HashesOnUnhashed(config.map),
                      Gathered(config.map) # {},
                      NEW a \in UNION {{BitsOf(range[1]), BitsOf(range[2])} : range \in pushed},
                      NEW b \in UNION {{BitsOf(range[1]), BitsOf(range[2])} : range \in pushed},
                      a # b, DramByte(config.map, a) = DramByte(config.map, b)
               PROVE  Cardinality(high_address_regions) > 1
    BY DEF AliasingReported
  <2>1. MappingValid(config.map, config.topology)
    BY DEF LoadedFromFile, Accepted, Valid
  <2>2. a \in Address /\ b \in Address
    BY RangesAssumption DEF RegionsNoted
  <2>3. /\ MappedAddressBits(config.map) \in 1 .. AddressBits - 1
        /\ Region(config.map, a) # Region(config.map, b)
    BY <2>1, <2>2, AliasesAreInTwoRegions
  <2>4. Noted(config.map, a) /\ Noted(config.map, b)
    BY <2>3 DEF RegionsNoted
  <2>5. IsFiniteSet(high_address_regions) /\ Cardinality(high_address_regions) \in Nat
    BY FS_CardinalityType DEF RegionsNoted
  <2>6. CASE Cardinality(high_address_regions) >= MaxTrackedHighRegions
    BY <2>5, <2>6, AddressAssumption
  <2>7. CASE /\ Region(config.map, a) \in high_address_regions
             /\ Region(config.map, b) \in high_address_regions
    <3> DEFINE two == {Region(config.map, a), Region(config.map, b)}
    <3>3. Cardinality(two) = 2
      BY <2>3, TwoElements
    <3>4. two \in SUBSET high_address_regions
      BY <2>7
    <3> QED
      BY <2>5, <3>3, <3>4, FS_Subset
  <2> QED
    BY <2>4, <2>6, <2>7 DEF Noted
<1> QED
  BY <1>1, LoadedWasAccepted, RegionsStayNoted, PTL

-----------------------------------------------------------------------------
(***************************************************************************)
(* Presets.  Powers of two are the numbers of a set's subsets.             *)
(***************************************************************************)
LEMMA LeastNat ==
  ASSUME NEW S \in SUBSET Nat, S # {}
  PROVE  \E m \in S : \A x \in S : m <= x
<1>1. PICK m \in S : \A x \in S : <<x, m>> \notin OpToRel(<, Nat)
  BY WFMin, NatLessThanWellFounded, Zenon
<1>2. \A x \in S : ~ (x < m)
  BY <1>1, Zenon DEF OpToRel
<1> QED
  BY <1>2

LEMMA PowerPositive ==
  ASSUME NEW n \in Nat
  PROVE  2 ^ n \in Nat \ {0}
<1>1. PICK S : S = 1 .. n
  OBVIOUS
<1>2. IsFiniteSet(S) /\ Cardinality(S) = n
  BY <1>1, FS_Interval
<1>3. IsFiniteSet(SUBSET S) /\ Cardinality(SUBSET S) = 2 ^ n
  BY <1>2, FS_SUBSET
<1>4. SUBSET S # {}
  OBVIOUS
<1> QED
  BY <1>3, <1>4, FS_CardinalityType, FS_EmptySet

LEMMA PowerDoubles ==
  ASSUME NEW n \in Nat
  PROVE  2 ^ (n + 1) = 2 ^ n + 2 ^ n
<1>1. PICK S, T : S = 1 .. n /\ T = 1 .. n + 1
  OBVIOUS
<1>2. n + 1 \in T /\ n + 1 \notin S /\ T = S \cup {n + 1}
  BY <1>1
<1>3. IsFiniteSet(S) /\ Cardinality(S) = n /\ IsFiniteSet(T) /\ Cardinality(T) = n + 1
  BY <1>1, FS_Interval
<1>4. PICK A, B : A = SUBSET S /\ B = {s \in SUBSET T : n + 1 \in s}
  OBVIOUS
<1>5. IsFiniteSet(A) /\ Cardinality(A) = 2 ^ n
  BY <1>3, <1>4, FS_SUBSET
<1>6. Cardinality(SUBSET T) = 2 ^ (n + 1)
  BY <1>3, FS_SUBSET
<1>7. ExistsBijection(A, B)
  <2>1. PICK with : with = [s \in A |-> s \cup {n + 1}]
    OBVIOUS
  <2>2. with \in [A -> B]
    BY <1>2, <1>4, <2>1
  <2>3. \A s, t \in A : with[s] = with[t] => s = t
    BY <1>2, <1>4, <2>1, SMTT(30)
  <2>4. ASSUME NEW t \in B PROVE \E s \in A : with[s] = t
    <3>1. t \ {n + 1} \in A /\ (t \ {n + 1}) \cup {n + 1} = t
      BY <1>2, <1>4, <2>4
    <3> QED
      BY <2>1, <3>1
  <2>5. with \in Injection(A, B)
    BY <2>2, <2>3 DEF Injection, IsInjective
  <2>6. with \in Surjection(A, B)
    BY <2>2, <2>4 DEF Surjection
  <2> QED
    BY <2>5, <2>6 DEF ExistsBijection, Bijection
<1>8. IsFiniteSet(B) /\ Cardinality(B) = 2 ^ n
  BY <1>5, <1>7, FS_Bijection
<1>9. A \cup B = SUBSET T /\ A \cap B = {}
  BY <1>2, <1>4
<1>10. Cardinality({}) = 0
  BY FS_EmptySet
<1>11. Cardinality(A \cup B) = Cardinality(A) + Cardinality(B) - Cardinality(A \cap B)
  BY <1>5, <1>8, FS_Union
<1>12. PICK p \in Nat : p = 2 ^ n
  BY PowerPositive
<1>13. Cardinality(A \cup B) = p + p
  <2>1. Cardinality(A \cap B) = 0
    BY <1>9, <1>10
  <2> QED
    BY <1>5, <1>8, <1>11, <1>12, <2>1
<1> QED
  BY <1>6, <1>9, <1>12, <1>13

LEMMA PowerAdds ==
  ASSUME NEW a \in Nat, NEW b \in Nat
  PROVE  2 ^ (a + b) = (2 ^ a) * (2 ^ b)
<1> DEFINE bad == {n \in Nat : 2 ^ (a + n) # (2 ^ a) * (2 ^ n)}
<1>1. bad = {}
  <2> SUFFICES ASSUME bad # {} PROVE FALSE
    OBVIOUS
  <2>1. PICK m \in bad : \A x \in bad : m <= x
    BY LeastNat
  <2>2. PICK p \in Nat : p = 2 ^ a
    BY PowerPositive
  <2>3. CASE m = 0
    <3>1. 2 ^ 0 = 1 /\ a + 0 = a
      OBVIOUS
    <3>2. 2 ^ (a + m) = (2 ^ a) * (2 ^ m)
      BY <2>2, <2>3, <3>1
    <3> QED
      BY <3>2
  <2>4. CASE m # 0
    <3>1. PICK n \in Nat : m = n + 1
      BY <2>4
    <3>2. n \notin bad
      <4> HIDE DEF bad
      <4> QED
        BY <2>1, <3>1
    <3>3. PICK q \in Nat : q = 2 ^ n
      BY PowerPositive
    <3>4. 2 ^ (a + n) = p * q
      BY <2>2, <3>2, <3>3
    <3>5. 2 ^ m = q + q
      BY <3>1, <3>3, PowerDoubles
    <3>6. 2 ^ (a + n + 1) = p * q + p * q
      BY <3>4, PowerDoubles
    <3>7. a + m = a + n + 1 /\ p * (q + q) = p * q + p * q
      BY <3>1
    <3>8. 2 ^ (a + m) = (2 ^ a) * (2 ^ m)
      BY <2>2, <3>5, <3>6, <3>7
    <3> QED
      BY <3>8
  <2> QED
    BY <2>3, <2>4
<1> QED
  BY <1>1

LEMMA PowerGrows ==
  ASSUME NEW a \in Nat, NEW b \in Nat, a < b
  PROVE  2 ^ a < 2 ^ b
<1> DEFINE bad == {n \in Nat : a < n /\ ~ (2 ^ a < 2 ^ n)}
<1>1. bad = {}
  <2> SUFFICES ASSUME bad # {} PROVE FALSE
    OBVIOUS
  <2>1. PICK m \in bad : \A x \in bad : m <= x
    BY LeastNat
  <2>2. m \in Nat /\ a < m
    OBVIOUS
  <2>3. PICK n \in Nat : m = n + 1
    BY <2>2
  <2>4. n \notin bad
    <3> HIDE DEF bad
    <3> QED
      BY <2>1, <2>3
  <2>5. PICK p \in Nat \ {0}, q \in Nat \ {0} : p = 2 ^ a /\ q = 2 ^ n
    BY PowerPositive
  <2>6. 2 ^ m = q + q
    BY <2>3, <2>5, PowerDoubles
  <2>7. p <= q
    <3>1. CASE n = a
      BY <2>5, <3>1
    <3>2. CASE a < n
      BY <2>4, <2>5, <3>2
    <3> QED
      BY <2>2, <2>3, <3>1, <3>2
  <2>8. 2 ^ a < 2 ^ m
    BY <2>5, <2>6, <2>7
  <2> QED
    BY <2>8
<1> QED
  BY <1>1

(* The bits that tell a power of two apart are its exponent. *)
LEMMA WidthIsExponent ==
  ASSUME NEW w \in 0 .. 30
  PROVE  WidthFor(2 ^ w) = w
<1> DEFINE S == {u \in 0 .. 30 : 2 ^ u >= 2 ^ w}
<1>1. \A u \in 0 .. 30 : u < w => 2 ^ u < 2 ^ w
  BY PowerGrows
<1>2. \A u \in 0 .. 30 : 2 ^ u \in Nat
  BY PowerPositive
<1>3. PICK p \in Nat : p = 2 ^ w
  BY <1>2
<1>4. w \in S
  BY <1>3
<1>5. ASSUME NEW u \in S PROVE w <= u
  <2>1. u \in 0 .. 30 /\ 2 ^ u >= p
    BY <1>3
  <2>2. PICK q \in Nat : q = 2 ^ u
    BY <1>2, <2>1
  <2>3. u < w => q < p
    BY <1>1, <1>3, <2>1, <2>2
  <2> QED
    BY <2>1, <2>2, <2>3
<1>6. \A x \in S : (\A y \in S : x <= y) => x = w
  BY <1>4, <1>5
<1>7. WidthFor(2 ^ w) = Min(S)
  BY DEF WidthFor
<1> HIDE DEF S
<1> QED
  BY <1>4, <1>5, <1>6, <1>7 DEF Min

LEMMA CountIsPower ==
  ASSUME NEW count, IsPowerOfTwo(count)
  PROVE  /\ WidthFor(count) \in 0 .. 30 /\ count = 2 ^ WidthFor(count)
         /\ count \in Nat \ {0}
<1>1. PICK w \in 0 .. 30 : count = 2 ^ w
  BY DEF IsPowerOfTwo
<1>2. WidthFor(2 ^ w) = w
  BY WidthIsExponent
<1>3. w \in Nat
  OBVIOUS
<1>4. 2 ^ w \in Nat \ {0}
  BY <1>3, PowerPositive
<1> QED
  BY <1>1, <1>2, <1>4

LEMMA MaxOfTwo ==
  ASSUME NEW a \in Int, NEW b \in Int
  PROVE  Max({a, b}) = IF a >= b THEN a ELSE b
BY DEF Max

-----------------------------------------------------------------------------
(* A preset lays its fields out one above the other. *)
Laid(order, widths, first, starts) ==
  /\ starts \in [1 .. 6 -> Nat] /\ starts[1] = first
  /\ \A k \in 1 .. 5 : starts[k + 1] = starts[k] + widths[k]

(* Every field once, and the row on top. *)
Ordered(order) ==
  /\ DOMAIN order = 1 .. 6 /\ order[6] = "row"
  /\ \A j, k \in 1 .. 6 : order[j] = order[k] => j = k
  /\ Fields = {order[k] : k \in 1 .. 6} \ {"gap"}

WidthsOf(topology, order, widths) ==
  /\ widths \in [1 .. 6 -> Nat]
  /\ \A k \in 1 .. 6 : widths[k] = PresetWidth(topology, order[k])

Spans(topology, order, widths, starts) ==
  \A k \in 1 .. 6 : PresetField(topology, order, order[k])
                      = [bit_start |-> starts[k], bit_width |-> widths[k]]

Reads(map, order, widths, starts) ==
  \A k \in 1 .. 6 : order[k] \in Fields =>
    map[order[k]] = [bits |-> Contiguous(starts[k], widths[k]), hash_bits |-> <<>>]

LEMMA FieldsAreLaid ==
  ASSUME NEW topology, NEW order, Ordered(order), NEW first \in Nat,
         first = WidthFor(topology.data_bus_bytes * topology.burst_beats),
         NEW widths, WidthsOf(topology, order, widths)
  PROVE  \E starts : Laid(order, widths, first, starts) /\ Spans(topology, order, widths, starts)
<1> DEFINE cursor == CHOOSE c : c = [k \in DOMAIN order |->
              IF k = 1 THEN WidthFor(topology.data_bus_bytes * topology.burst_beats)
              ELSE c[k - 1] + PresetWidth(topology, order[k - 1])]
           sum2 == first + widths[1]
           sum3 == sum2 + widths[2]
           sum4 == sum3 + widths[3]
           sum5 == sum4 + widths[4]
           sum6 == sum5 + widths[5]
           c == [k \in 1 .. 6 |-> CASE k = 1 -> first [] k = 2 -> sum2 [] k = 3 -> sum3
                                    [] k = 4 -> sum4 [] k = 5 -> sum5 [] k = 6 -> sum6]
<1>0. /\ DOMAIN order = 1 .. 6 /\ \A j, k \in 1 .. 6 : order[j] = order[k] => j = k
      /\ widths \in [1 .. 6 -> Nat]
      /\ \A k \in 1 .. 6 : widths[k] = PresetWidth(topology, order[k])
  BY DEF Ordered, WidthsOf
<1>1. /\ widths[1] \in Nat /\ widths[2] \in Nat /\ widths[3] \in Nat
      /\ widths[4] \in Nat /\ widths[5] \in Nat
  BY <1>0
<1>2. sum2 \in Nat /\ sum3 \in Nat /\ sum4 \in Nat /\ sum5 \in Nat /\ sum6 \in Nat
  BY <1>1
<1>3. /\ c[1] = first /\ c[2] = c[1] + widths[1] /\ c[3] = c[2] + widths[2]
      /\ c[4] = c[3] + widths[3] /\ c[5] = c[4] + widths[4] /\ c[6] = c[5] + widths[5]
      /\ c \in [1 .. 6 -> Nat]
  BY <1>2
<1> HIDE DEF c, sum2, sum3, sum4, sum5, sum6
<1>4. \A k \in 1 .. 6 : c[k] = IF k = 1 THEN first ELSE c[k - 1] + widths[k - 1]
  BY <1>3
<1>5. \A k \in 1 .. 6 : k # 1 => k - 1 \in 1 .. 6
  OBVIOUS
<1>6. c = [k \in DOMAIN order |->
             IF k = 1 THEN WidthFor(topology.data_bus_bytes * topology.burst_beats)
             ELSE c[k - 1] + PresetWidth(topology, order[k - 1])]
  BY <1>0, <1>3, <1>4, <1>5
<1>7. cursor = [k \in DOMAIN order |->
             IF k = 1 THEN WidthFor(topology.data_bus_bytes * topology.burst_beats)
             ELSE cursor[k - 1] + PresetWidth(topology, order[k - 1])]
  BY <1>6
<1>8. ASSUME NEW name, NEW k \in 1 .. 6, order[k] = name
      PROVE  PresetField(topology, order, name)
               = [bit_start |-> cursor[k], bit_width |-> PresetWidth(topology, name)]
  <2>1. (CHOOSE j \in DOMAIN order : order[j] = name) = k
    BY <1>0, <1>8
  <2> QED
    BY <2>1 DEF PresetField
<1> HIDE DEF cursor
<1>9. cursor[1] = first /\ \A k \in 1 .. 5 : cursor[k + 1] = cursor[k] + widths[k]
  BY <1>0, <1>7
<1>10. /\ cursor[1] = c[1] /\ cursor[2] = c[2] /\ cursor[3] = c[3]
       /\ cursor[4] = c[4] /\ cursor[5] = c[5] /\ cursor[6] = c[6]
  BY <1>3, <1>9
<1>11. \A k \in 1 .. 6 : cursor[k] \in Nat
  BY <1>3, <1>10
<1>12. cursor \in [1 .. 6 -> Nat]
  BY <1>0, <1>7, <1>11
<1>13. Laid(order, widths, first, cursor)
  BY <1>9, <1>12 DEF Laid
<1>14. Spans(topology, order, widths, cursor)
  BY <1>0, <1>8 DEF Spans
<1> QED
  BY <1>13, <1>14

LEMMA LaidInOrder ==
  ASSUME NEW order, NEW widths \in [1 .. 6 -> Nat], NEW first \in Nat, NEW starts,
         Laid(order, widths, first, starts)
  PROVE  /\ \A k \in 1 .. 6 : first <= starts[k]
         /\ \A k \in 1 .. 5 : starts[k] + widths[k] <= starts[6]
         /\ starts[6] = first + widths[1] + widths[2] + widths[3] + widths[4] + widths[5]
<1>1. /\ widths[1] \in Nat /\ widths[2] \in Nat /\ widths[3] \in Nat
      /\ widths[4] \in Nat /\ widths[5] \in Nat
  OBVIOUS
<1>2. /\ starts[1] = first
      /\ starts[2] = starts[1] + widths[1] /\ starts[3] = starts[2] + widths[2]
      /\ starts[4] = starts[3] + widths[3] /\ starts[5] = starts[4] + widths[4]
      /\ starts[6] = starts[5] + widths[5]
  BY DEF Laid
<1> QED
  BY <1>1, <1>2

(* What a field of a preset reads as. *)
LEMMA ParsedSpan ==
  ASSUME NEW start \in Nat, NEW width \in Nat
  PROVE  ParseField([bit_start |-> start, bit_width |-> width])
           = [bits |-> Contiguous(start, width), hash_bits |-> <<>>]
<1> DEFINE entry == [bit_start |-> start, bit_width |-> width]
<1>1. DOMAIN entry = {"bit_start", "bit_width"}
  OBVIOUS
<1>2. "bits" \notin DOMAIN entry /\ "hash_start" \notin DOMAIN entry
  BY <1>1
<1>3. /\ Over(entry, [bit_start |-> 0, bit_width |-> 0]).bit_start = start
      /\ Over(entry, [bit_start |-> 0, bit_width |-> 0]).bit_width = width
  BY DEF Over
<1> QED
  BY <1>2, <1>3 DEF ParseField

(* A mapping left to a preset has the preset's fields, for the topology read. *)
LEMMA PresetIsRead ==
  ASSUME NEW given, DOMAIN Section(given, "address_mapping") = {"preset"}
  PROVE  ConfigOf(given).map =
           [f \in Fields |->
              ParseField(PresetField(ConfigOf(given).topology,
                                     PresetOrder[Section(given, "address_mapping").preset], f))]
<1> DEFINE expanded == ExpandDram(given)
           mapping == given["address_mapping"]
           topology == Over(Section(expanded, "topology"), Defaults.topology)
           order == PresetOrder[mapping.preset]
           fields == [f \in Fields |-> PresetField(topology, order, f)]
           root == ExpandMapping(expanded)
<1>1. "address_mapping" \in DOMAIN given
  BY DEF Section
<1>2. Section(given, "address_mapping") = mapping
  BY <1>1 DEF Section
<1>3. "address_mapping" \in DOMAIN expanded /\ expanded["address_mapping"] = mapping
  <2>1. CASE "dram" \notin DOMAIN given
    BY <1>1, <2>1 DEF ExpandDram
  <2>2. CASE "dram" \in DOMAIN given
    <3>1. PICK filled : expanded = Over(filled, given) /\ DOMAIN filled = {"topology", "timing_ns"}
      BY <2>2 DEF ExpandDram
    <3> HIDE DEF expanded
    <3> QED
      BY <1>1, <3>1 DEF Over
  <2> QED
    BY <2>1, <2>2
<1>4. Section(expanded, "address_mapping") = mapping
  BY <1>3 DEF Section
<1>5. DOMAIN WithoutPreset(mapping) = {}
  BY <1>2 DEF WithoutPreset
<1>6. Over(WithoutPreset(mapping), fields) = fields
  <2>1. PICK none : none = WithoutPreset(mapping)
    OBVIOUS
  <2> HIDE DEF fields
  <2>2. Over(none, fields) = [x \in DOMAIN fields |-> fields[x]]
    BY <1>5, <2>1 DEF Over
  <2>3. fields = [x \in DOMAIN fields |-> fields[x]]
    BY DEF fields
  <2> QED
    BY <2>1, <2>2, <2>3
<1>7. root = Over([address_mapping |-> fields], expanded)
  <2>1. "preset" \in DOMAIN Section(expanded, "address_mapping")
    BY <1>2, <1>4
  <2> QED
    BY <1>3, <1>6, <2>1, Zenon DEF ExpandMapping
<1> HIDE DEF fields, expanded, mapping
<1>8. Section(root, "address_mapping") = fields
  <2>1. PICK new : new = [address_mapping |-> fields]
    OBVIOUS
  <2>2. DOMAIN new = {"address_mapping"} /\ new["address_mapping"] = fields
    BY <2>1
  <2> HIDE DEF root
  <2> QED
    BY <1>7, <2>1, <2>2 DEF Section, Over
<1>9. Section(root, "topology") = Section(expanded, "topology")
  <2>1. PICK new : new = [address_mapping |-> fields]
    OBVIOUS
  <2>2. DOMAIN new = {"address_mapping"}
    BY <2>1
  <2> HIDE DEF root
  <2> QED
    BY <1>7, <2>1, <2>2 DEF Section, Over
<1>10. ConfigOf(given).topology = topology
  BY <1>9 DEF ConfigOf, expanded
<1>11. ConfigOf(given).map = ReadMapping(fields)
  BY <1>8 DEF ConfigOf, expanded
<1>12. ReadMapping(fields) = [f \in Fields |-> ParseField(PresetField(topology, order, f))]
  <2> HIDE DEF topology, order
  <2> QED
    BY DEF ReadMapping, fields
<1> QED
  BY <1>2, <1>10, <1>11, <1>12

(* Where the mapped bits of a preset begin and end. *)
LEMMA PresetEnds ==
  ASSUME NEW map, NEW order, Ordered(order), NEW first \in Nat,
         NEW widths, widths \in [1 .. 6 -> Nat], NEW starts,
         Laid(order, widths, first, starts), widths[6] # 0, Reads(map, order, widths, starts)
  PROVE  /\ MappedAddressBits(map) = starts[6] + widths[6]
         /\ \A b \in Gathered(map) : b \in Nat /\ first <= b
<1> DEFINE all == {-1} \cup UNION {Elements(map[f].bits) \cup Elements(map[f].hash_bits) : f \in Fields}
<1>0. /\ order[6] = "row" /\ Fields = {order[k] : k \in 1 .. 6} \ {"gap"}
      /\ \A k \in 1 .. 6 : order[k] \in Fields =>
           map[order[k]] = [bits |-> Contiguous(starts[k], widths[k]), hash_bits |-> <<>>]
  BY DEF Ordered, Reads
<1>1. \A k \in 1 .. 6 : starts[k] \in Nat /\ widths[k] \in Nat
  BY DEF Laid
<1>2. \A k \in 1 .. 6 : order[k] \in Fields =>
        /\ Elements(map[order[k]].bits) = starts[k] .. starts[k] + widths[k] - 1
        /\ Elements(map[order[k]].hash_bits) = {}
  <2> SUFFICES ASSUME NEW k \in 1 .. 6, order[k] \in Fields
               PROVE  /\ Elements(map[order[k]].bits) = starts[k] .. starts[k] + widths[k] - 1
                      /\ Elements(map[order[k]].hash_bits) = {}
    OBVIOUS
  <2>1. PICK s \in Nat, w \in Nat : s = starts[k] /\ w = widths[k]
    BY <1>1
  <2>2. map[order[k]].bits = Contiguous(s, w) /\ map[order[k]].hash_bits = <<>>
    <3>1. map[order[k]] = [bits |-> Contiguous(starts[k], widths[k]), hash_bits |-> <<>>]
      BY <1>0
    <3>2. map[order[k]] = [bits |-> Contiguous(s, w), hash_bits |-> <<>>]
      BY <2>1, <3>1
    <3> QED
      BY <3>2
  <2>3. {Contiguous(s, w)[i] : i \in DOMAIN Contiguous(s, w)} = s .. s + w - 1
    <3>1. \A b \in s .. s + w - 1 : b - s + 1 \in 1 .. w /\ s + (b - s + 1) - 1 = b
      OBVIOUS
    <3>2. \A i \in 1 .. w : s + i - 1 \in s .. s + w - 1
      OBVIOUS
    <3> QED
      BY <3>1, <3>2 DEF Contiguous
  <2>4. PICK bits, hashes : bits = map[order[k]].bits /\ hashes = map[order[k]].hash_bits
    OBVIOUS
  <2>5. Elements(bits) = s .. s + w - 1
    BY <2>2, <2>3, <2>4 DEF Elements
  <2>6. Elements(hashes) = {}
    BY <2>2, <2>4 DEF Elements
  <2> QED
    BY <2>1, <2>4, <2>5, <2>6
<1>3. \A f \in Fields : \E k \in 1 .. 6 : f = order[k]
  BY <1>0
<1>4. /\ \A k \in 1 .. 6 : first <= starts[k]
      /\ \A k \in 1 .. 5 : starts[k] + widths[k] <= starts[6]
  BY LaidInOrder
<1>5. order[6] \in Fields
  BY <1>0 DEF Fields
<1>6. PICK top \in Nat : top + 1 = starts[6] + widths[6] /\ top \in starts[6] .. starts[6] + widths[6] - 1
  <2>1. PICK s \in Nat, w \in Nat : s = starts[6] /\ w = widths[6]
    BY <1>1
  <2>2. w >= 1
    BY <2>1
  <2>3. s + w - 1 \in Nat /\ s + w - 1 + 1 = s + w /\ s + w - 1 \in s .. s + w - 1
    BY <2>2
  <2> QED
    BY <2>1, <2>3
<1>7. top \in all
  <2>1. 6 \in 1 .. 6
    OBVIOUS
  <2>2. Elements(map[order[6]].bits) = starts[6] .. starts[6] + widths[6] - 1
    BY <1>2, <1>5, <2>1
  <2>3. top \in Elements(map[order[6]].bits)
    BY <1>6, <2>2
  <2> QED
    BY <1>5, <2>3
<1>8. ASSUME NEW k \in 1 .. 6, NEW b \in starts[k] .. starts[k] + widths[k] - 1
      PROVE  b \in Nat /\ first <= b /\ b <= top
  <2>1. PICK s \in Nat, w \in Nat : s = starts[k] /\ w = widths[k]
    BY <1>1
  <2>2. s + w <= top + 1
    <3>1. CASE k = 6
      BY <1>6, <2>1, <3>1
    <3>2. CASE k \in 1 .. 5
      <4>1. s + w <= starts[6]
        BY <1>4, <2>1, <3>2
      <4>2. PICK s6 \in Nat, w6 \in Nat : s6 = starts[6] /\ w6 = widths[6]
        BY <1>1
      <4>3. top + 1 = s6 + w6 /\ s + w <= s6
        BY <1>6, <4>1, <4>2
      <4> QED
        BY <4>3
    <3> QED
      BY <3>1, <3>2
  <2>3. first <= s
    BY <1>4, <2>1
  <2>4. b \in s .. s + w - 1
    BY <2>1
  <2>5. b \in Int /\ s <= b /\ b <= s + w - 1
    BY <2>4
  <2> QED
    BY <2>2, <2>3, <2>5
<1>9. ASSUME NEW f \in Fields
      PROVE  /\ \A b \in Elements(map[f].bits) : b \in Nat /\ first <= b /\ b <= top
             /\ Elements(map[f].hash_bits) = {}
  <2>1. PICK k \in 1 .. 6 : f = order[k]
    BY <1>3
  <2>2. /\ Elements(map[f].bits) = starts[k] .. starts[k] + widths[k] - 1
        /\ Elements(map[f].hash_bits) = {}
    BY <1>2, <2>1
  <2> QED
    BY <1>8, <2>2
<1>10. \A b \in Gathered(map) : b \in Nat /\ first <= b
  BY <1>9 DEF Gathered
<1>11. \A b \in all : b \in Int /\ b <= top
  <2>1. -1 \in Int /\ -1 <= top
    OBVIOUS
  <2>2. \A b \in Nat : b \in Int
    OBVIOUS
  <2> QED
    BY <1>9, <2>1, <2>2
<1>12. MappedAddressBits(map) = Max(all) + 1
  BY DEF MappedAddressBits
<1> HIDE DEF all
<1>13. \A x \in all : (\A y \in all : x >= y) => x = top
  BY <1>7, <1>11
<1>14. \A y \in all : top >= y
  BY <1>11
<1>15. Max(all) = top
  BY <1>7, <1>13, <1>14 DEF Max
<1> QED
  BY <1>6, <1>10, <1>12, <1>15

(* The three orders there are. *)
OneOfThree(order) ==
  \/ order = <<"bankgroup", "bank", "channel", "rank", "gap", "row">>
  \/ order = <<"channel", "bankgroup", "bank", "rank", "gap", "row">>
  \/ order = <<"bankgroup", "channel", "gap", "bank", "rank", "row">>

LEMMA Orders ==
  ASSUME NEW name \in DOMAIN PresetOrder, NEW order, order = PresetOrder[name]
  PROVE  OneOfThree(order)
BY DEF PresetOrder, OneOfThree

LEMMA OrderHasAll ==
  ASSUME NEW order, OneOfThree(order)
  PROVE  Ordered(order)
<1>1. 1 .. 6 = {1, 2, 3, 4, 5, 6}
  OBVIOUS
<1>2. DOMAIN order = 1 .. 6 /\ order[6] = "row"
  BY DEF OneOfThree
<1>3. \A j, k \in {1, 2, 3, 4, 5, 6} : order[j] = order[k] => j = k
  BY DEF OneOfThree
<1>4. {order[k] : k \in 1 .. 6} = {order[1], order[2], order[3], order[4], order[5], order[6]}
  BY <1>1
<1>5. {order[1], order[2], order[3], order[4], order[5], order[6]}
        = {"bankgroup", "bank", "channel", "rank", "gap", "row"}
  BY DEF OneOfThree
<1> QED
  BY <1>1, <1>2, <1>3, <1>4, <1>5 DEF Fields, Ordered

(* Six powers of two multiply to that of the sum. *)
LEMMA PowerOfSum ==
  ASSUME NEW a \in Nat, NEW b \in Nat, NEW c \in Nat, NEW d \in Nat, NEW e \in Nat,
         NEW f \in Nat, NEW g \in Nat
  PROVE  2 ^ (a + b + c + d + e + f + g)
           = (2 ^ a) * (2 ^ b) * (2 ^ c) * (2 ^ d) * (2 ^ e) * (2 ^ f) * (2 ^ g)
<1>1. 2 ^ (a + b) = (2 ^ a) * (2 ^ b) /\ a + b \in Nat
  BY PowerAdds
<1>2. 2 ^ (a + b + c) = (2 ^ (a + b)) * (2 ^ c) /\ a + b + c \in Nat
  BY PowerAdds, <1>1
<1>3. 2 ^ (a + b + c + d) = (2 ^ (a + b + c)) * (2 ^ d) /\ a + b + c + d \in Nat
  BY PowerAdds, <1>2
<1>4. 2 ^ (a + b + c + d + e) = (2 ^ (a + b + c + d)) * (2 ^ e) /\ a + b + c + d + e \in Nat
  BY PowerAdds, <1>3
<1>5. /\ 2 ^ (a + b + c + d + e + f) = (2 ^ (a + b + c + d + e)) * (2 ^ f)
      /\ a + b + c + d + e + f \in Nat
  BY PowerAdds, <1>4
<1>6. 2 ^ (a + b + c + d + e + f + g) = (2 ^ (a + b + c + d + e + f)) * (2 ^ g)
  BY PowerAdds, <1>5
<1> QED
  BY <1>1, <1>2, <1>3, <1>4, <1>5, <1>6, Zenon

LEMMA CountsArePowers ==
  ASSUME NEW topology, TopologyValid(topology)
  PROVE  /\ IsPowerOfTwo(topology.channels) /\ IsPowerOfTwo(topology.ranks_per_channel)
         /\ IsPowerOfTwo(topology.bankgroups) /\ IsPowerOfTwo(topology.banks_per_group)
         /\ IsPowerOfTwo(topology.rows) /\ IsPowerOfTwo(topology.columns)
         /\ IsPowerOfTwo(topology.data_bus_bytes) /\ IsPowerOfTwo(topology.burst_beats)
<1>1. \A count \in Counts : IsPowerOfTwo(topology[count])
  BY DEF TopologyValid
<1>2. /\ "channels" \in Counts /\ "ranks_per_channel" \in Counts /\ "bankgroups" \in Counts
      /\ "banks_per_group" \in Counts /\ "rows" \in Counts /\ "columns" \in Counts
      /\ "data_bus_bytes" \in Counts /\ "burst_beats" \in Counts
  BY DEF Counts
<1> QED
  BY <1>1, <1>2, SMTT(30)

LEMMA PresetFills ==
  ASSUME NEW topology, TopologyValid(topology), BurstFits(topology), topology.rows > 1,
         NEW name \in DOMAIN PresetOrder,
         NEW map, map = [f \in Fields |-> ParseField(PresetField(topology, PresetOrder[name], f))]
  PROVE  /\ 2 ^ MappedAddressBits(map)
              = topology.channels * topology.ranks_per_channel * topology.bankgroups
                  * topology.banks_per_group * topology.rows
                  * Max({topology.columns, topology.burst_beats}) * topology.data_bus_bytes
         /\ \A b \in Gathered(map) : 2 ^ b >= topology.data_bus_bytes * topology.burst_beats
<1>1. PICK order : order = PresetOrder[name]
  OBVIOUS
<1>2. OneOfThree(order)
  BY <1>1, Orders
<1>3. Ordered(order)
  BY <1>2, OrderHasAll, Zenon
<1>4. /\ IsPowerOfTwo(topology.channels) /\ IsPowerOfTwo(topology.ranks_per_channel)
      /\ IsPowerOfTwo(topology.bankgroups) /\ IsPowerOfTwo(topology.banks_per_group)
      /\ IsPowerOfTwo(topology.rows) /\ IsPowerOfTwo(topology.columns)
      /\ IsPowerOfTwo(topology.data_bus_bytes) /\ IsPowerOfTwo(topology.burst_beats)
  BY CountsArePowers, Zenon
<1>5. PICK c \in 0 .. 30 : c = WidthFor(topology.channels) /\ topology.channels = 2 ^ c
  BY <1>4, CountIsPower
<1>6. PICK r \in 0 .. 30 : r = WidthFor(topology.ranks_per_channel) /\ topology.ranks_per_channel = 2 ^ r
  BY <1>4, CountIsPower
<1>7. PICK g \in 0 .. 30 : g = WidthFor(topology.bankgroups) /\ topology.bankgroups = 2 ^ g
  BY <1>4, CountIsPower
<1>8. PICK b \in 0 .. 30 : b = WidthFor(topology.banks_per_group) /\ topology.banks_per_group = 2 ^ b
  BY <1>4, CountIsPower
<1>9. PICK w \in 0 .. 30 : w = WidthFor(topology.rows) /\ topology.rows = 2 ^ w
  BY <1>4, CountIsPower
<1>10. PICK l \in 0 .. 30 : l = WidthFor(topology.columns) /\ topology.columns = 2 ^ l
  BY <1>4, CountIsPower
<1>11. PICK u \in 0 .. 30 : u = WidthFor(topology.data_bus_bytes) /\ topology.data_bus_bytes = 2 ^ u
  BY <1>4, CountIsPower
<1>12. PICK t \in 0 .. 30 : t = WidthFor(topology.burst_beats) /\ topology.burst_beats = 2 ^ t
  BY <1>4, CountIsPower
<1>13. topology.data_bus_bytes * topology.burst_beats = 2 ^ (u + t) /\ u + t \in Nat
  <2>1. u \in Nat /\ t \in Nat /\ u + t \in Nat
    OBVIOUS
  <2>2. 2 ^ (u + t) = (2 ^ u) * (2 ^ t)
    BY <2>1, PowerAdds
  <2> QED
    BY <1>11, <1>12, <2>1, <2>2
<1>14. u + t <= 30
  <2> SUFFICES ASSUME 30 < u + t PROVE FALSE
    BY <1>13
  <2>1. 2 ^ 30 < 2 ^ (u + t)
    BY PowerGrows, <1>13
  <2>2. 2 ^ (u + t) <= 2 ^ 30
    BY <1>13 DEF BurstFits
  <2>3. PICK p \in Nat, q \in Nat : p = 2 ^ 30 /\ q = 2 ^ (u + t)
    BY PowerPositive, <1>13
  <2> QED
    BY <2>1, <2>2, <2>3
<1>15. PICK first \in Nat :
         first = u + t /\ first = WidthFor(topology.data_bus_bytes * topology.burst_beats)
  <2>1. u + t \in 0 .. 30
    BY <1>13, <1>14
  <2>2. WidthFor(2 ^ (u + t)) = u + t
    BY <2>1, WidthIsExponent
  <2> QED
    BY <1>13, <2>2
<1>16. PICK most \in Nat :
         /\ most = (IF l >= t THEN l ELSE t) /\ ColumnGap(topology) = most - t
         /\ 2 ^ most = Max({topology.columns, topology.burst_beats})
  <2>1. ColumnGap(topology) = IF l >= t THEN l - t ELSE 0
    <3>1. ColumnGap(topology) = Max({0, l - t})
      BY <1>10, <1>12 DEF ColumnGap
    <3> QED
      BY <3>1, MaxOfTwo
  <2>2. PICK x \in Nat, y \in Nat : x = 2 ^ l /\ y = 2 ^ t
    BY PowerPositive
  <2>3. Max({topology.columns, topology.burst_beats}) = IF x >= y THEN x ELSE y
    BY <1>10, <1>12, <2>2, MaxOfTwo
  <2>4. l < t => x < y
    BY PowerGrows, <2>2
  <2>5. t < l => y < x
    BY PowerGrows, <2>2
  <2> QED
    BY <2>1, <2>2, <2>3, <2>4, <2>5
<1>17. PICK widths : widths = [k \in 1 .. 6 |-> PresetWidth(topology, order[k])]
  OBVIOUS
<1>18. /\ PresetWidth(topology, "channel") = c /\ PresetWidth(topology, "rank") = r
       /\ PresetWidth(topology, "bankgroup") = g /\ PresetWidth(topology, "bank") = b
       /\ PresetWidth(topology, "row") = w /\ PresetWidth(topology, "gap") = most - t
  BY <1>5, <1>6, <1>7, <1>8, <1>9, <1>16 DEF PresetWidth, CountOf
<1>19. /\ widths \in [1 .. 6 -> Nat] /\ widths[6] = w
       /\ widths[1] + widths[2] + widths[3] + widths[4] + widths[5] = c + r + g + b + (most - t)
  <2>1. /\ widths[1] = PresetWidth(topology, order[1]) /\ widths[2] = PresetWidth(topology, order[2])
        /\ widths[3] = PresetWidth(topology, order[3]) /\ widths[4] = PresetWidth(topology, order[4])
        /\ widths[5] = PresetWidth(topology, order[5]) /\ widths[6] = PresetWidth(topology, order[6])
    BY <1>17
  <2>2. most - t \in Nat
    BY <1>16
  <2>3. CASE order = <<"bankgroup", "bank", "channel", "rank", "gap", "row">>
    <3>1. /\ widths[1] = g /\ widths[2] = b /\ widths[3] = c
          /\ widths[4] = r /\ widths[5] = most - t /\ widths[6] = w
      BY <1>18, <2>1, <2>3
    <3> QED
      BY <1>17, <2>2, <3>1
  <2>4. CASE order = <<"channel", "bankgroup", "bank", "rank", "gap", "row">>
    <3>1. /\ widths[1] = c /\ widths[2] = g /\ widths[3] = b
          /\ widths[4] = r /\ widths[5] = most - t /\ widths[6] = w
      BY <1>18, <2>1, <2>4
    <3> QED
      BY <1>17, <2>2, <3>1
  <2>5. CASE order = <<"bankgroup", "channel", "gap", "bank", "rank", "row">>
    <3>1. /\ widths[1] = g /\ widths[2] = c /\ widths[3] = most - t
          /\ widths[4] = b /\ widths[5] = r /\ widths[6] = w
      BY <1>18, <2>1, <2>5
    <3> QED
      BY <1>17, <2>2, <3>1
  <2> QED
    BY <1>2, <2>3, <2>4, <2>5 DEF OneOfThree
<1>20. w # 0
  <2> SUFFICES ASSUME w = 0 PROVE FALSE
    OBVIOUS
  <2>1. 2 ^ w = 1
    OBVIOUS
  <2>2. topology.rows = 1
    BY <1>9, <2>1
  <2> QED
    BY <2>2
<1>21. WidthsOf(topology, order, widths)
  BY <1>17, <1>19 DEF WidthsOf
<1>22. PICK starts : Laid(order, widths, first, starts) /\ Spans(topology, order, widths, starts)
  <2>1. first = WidthFor(topology.data_bus_bytes * topology.burst_beats)
    BY <1>15
  <2> QED
    BY <1>3, <1>21, <2>1, FieldsAreLaid
<1>23. Reads(map, order, widths, starts)
  <2> SUFFICES ASSUME NEW k \in 1 .. 6, order[k] \in Fields
               PROVE  map[order[k]] = [bits |-> Contiguous(starts[k], widths[k]), hash_bits |-> <<>>]
    BY DEF Reads
  <2>1. map[order[k]] = ParseField(PresetField(topology, order, order[k]))
    BY <1>1
  <2>2. PICK s \in Nat, v \in Nat : s = starts[k] /\ v = widths[k]
    BY <1>19, <1>22 DEF Laid
  <2>3. PresetField(topology, order, order[k]) = [bit_start |-> s, bit_width |-> v]
    BY <1>22, <2>2 DEF Spans
  <2>4. ParseField([bit_start |-> s, bit_width |-> v]) = [bits |-> Contiguous(s, v), hash_bits |-> <<>>]
    BY ParsedSpan
  <2> QED
    BY <2>1, <2>2, <2>3, <2>4
<1>24. widths[6] # 0
  BY <1>19, <1>20
<1>25. /\ MappedAddressBits(map) = starts[6] + widths[6]
       /\ \A x \in Gathered(map) : x \in Nat /\ first <= x
  <2>1. widths \in [1 .. 6 -> Nat]
    BY <1>19
  <2>2. Laid(order, widths, first, starts)
    BY <1>22
  <2> QED
    BY <1>3, <1>23, <1>24, <2>1, <2>2, PresetEnds
<1>26. starts[6] = first + widths[1] + widths[2] + widths[3] + widths[4] + widths[5]
  BY <1>19, <1>22, LaidInOrder
<1>27. MappedAddressBits(map) = c + r + g + b + w + most + u
  <2>1. PICK x1 \in Nat, x2 \in Nat, x3 \in Nat, x4 \in Nat, x5 \in Nat :
          /\ x1 = widths[1] /\ x2 = widths[2] /\ x3 = widths[3] /\ x4 = widths[4] /\ x5 = widths[5]
    <3>1. \A k \in 1 .. 6 : widths[k] \in Nat
      BY <1>19
    <3>2. /\ widths[1] \in Nat /\ widths[2] \in Nat /\ widths[3] \in Nat
          /\ widths[4] \in Nat /\ widths[5] \in Nat
      BY <3>1
    <3> QED
      BY <3>2, Zenon
  <2>2. x1 + x2 + x3 + x4 + x5 = c + r + g + b + (most - t)
    BY <1>19, <2>1
  <2>3. MappedAddressBits(map) = u + t + x1 + x2 + x3 + x4 + x5 + w
    BY <1>15, <1>19, <1>25, <1>26, <2>1
  <2> QED
    BY <2>2, <2>3
<1>28. 2 ^ MappedAddressBits(map)
         = topology.channels * topology.ranks_per_channel * topology.bankgroups
             * topology.banks_per_group * topology.rows
             * Max({topology.columns, topology.burst_beats}) * topology.data_bus_bytes
  <2>1. /\ c \in Nat /\ r \in Nat /\ g \in Nat /\ b \in Nat /\ w \in Nat /\ u \in Nat
    OBVIOUS
  <2>2. 2 ^ (c + r + g + b + w + most + u)
          = (2 ^ c) * (2 ^ r) * (2 ^ g) * (2 ^ b) * (2 ^ w) * (2 ^ most) * (2 ^ u)
    BY <2>1, PowerOfSum
  <2> QED
    BY <1>5, <1>6, <1>7, <1>8, <1>9, <1>11, <1>16, <1>27, <2>2, Zenon
<1>29. ASSUME NEW x \in Gathered(map)
       PROVE  2 ^ x >= topology.data_bus_bytes * topology.burst_beats
  <2>1. x \in Nat /\ first <= x
    BY <1>25
  <2>2. PICK p \in Nat, q \in Nat : p = 2 ^ first /\ q = 2 ^ x
    BY <2>1, PowerPositive
  <2>3. first < x => p < q
    BY <2>1, <2>2, PowerGrows
  <2>4. topology.data_bus_bytes * topology.burst_beats = p
    BY <1>13, <1>15, <2>2
  <2> QED
    BY <2>1, <2>2, <2>3, <2>4
<1> QED
  BY <1>28, <1>29

(* The file an engine was built from stays the one that was loaded. *)
LoadedThisFile == file \in Files /\ (Loaded => Accepted(file) /\ config = ConfigOf(file))

LEMMA FileStaysLoaded == Spec => []LoadedThisFile
<1>1. Init => LoadedThisFile
  BY DEF Init, LoadedThisFile, Loaded
<1>2. LoadedThisFile /\ [Next]_vars => LoadedThisFile'
  BY DEF LoadedThisFile, Loaded, Next, vars, Load, Refuse, Push
<1> QED
  BY <1>1, <1>2, PTL DEF Spec

(* For every topology and every preset, the mapped bits are exactly the DRAM there
   is, and no field selects inside a burst. *)
THEOREM PresetsFillTheDram == Spec => []PresetFillsDram
<1>1. LoadedThisFile => PresetFillsDram
  <2> SUFFICES ASSUME LoadedThisFile, Loaded, PresetOnly, config.topology.rows > 1
               PROVE  LET t == config.topology IN
                 /\ 2 ^ MappedAddressBits(config.map)
                      = t.channels * t.ranks_per_channel * t.bankgroups * t.banks_per_group * t.rows
                          * Max({t.columns, t.burst_beats}) * t.data_bus_bytes
                 /\ \A b \in Gathered(config.map) : 2 ^ b >= t.data_bus_bytes * t.burst_beats
    BY DEF PresetFillsDram
  <2>1. file \in Files /\ Accepted(file) /\ config = ConfigOf(file)
    BY DEF LoadedThisFile
  <2>2. TopologyValid(config.topology) /\ BurstFits(config.topology)
    BY <2>1, BurstAssumption DEF Accepted, Valid
  <2>3. PICK name : name = Section(file, "address_mapping").preset
    OBVIOUS
  <2>4. DOMAIN Section(file, "address_mapping") = {"preset"}
    BY DEF PresetOnly
  <2>5. name \in DOMAIN PresetOrder
    <3>1. "address_mapping" \in DOMAIN file
      BY <2>4 DEF Section
    <3>2. Section(file, "address_mapping") = file["address_mapping"]
      BY <3>1 DEF Section
    <3> QED
      BY <2>1, <2>3, <2>4, <3>2 DEF Accepted, UnknownPreset
  <2>6. config.map = [f \in Fields |-> ParseField(PresetField(config.topology, PresetOrder[name], f))]
    BY <2>1, <2>3, <2>4, PresetIsRead
  <2> QED
    BY <2>2, <2>5, <2>6, PresetFills
<1> QED
  BY <1>1, FileStaysLoaded, PTL
=============================================================================
