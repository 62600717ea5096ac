--------------------------- MODULE ChannelProofs ---------------------------
(***************************************************************************)
(* Invariants of ChannelScheduler proved for every configuration, topology *)
(* and workload that meets its assumptions: first what the operators of    *)
(* DramTiming return, then what a drain picks and counts, then how the     *)
(* commands it places lie to one another.                                  *)
(***************************************************************************)
EXTENDS ChannelProperties, FiniteSetTheorems, SequenceTheorems, WellFoundedInduction, TLAPS

-----------------------------------------------------------------------------
(***************************************************************************)
(* Least and greatest elements of sets of numbers, for Min and Max of      *)
(* FiniteSetsExt.                                                          *)
(***************************************************************************)
(* Min of a nonempty set of naturals is its least element. *)
LEMMA NatMin ==
  ASSUME NEW S \in SUBSET Nat, S # {}
  PROVE  Min(S) \in S /\ \A x \in S : Min(S) <= x
<1>1. PICK x \in S : \A y \in S : <<y, x>> \notin OpToRel(<, Nat)
  BY WFMin, NatLessThanWellFounded, Zenon
<1>2. \A y \in S : ~ (y < x)
  BY <1>1, Zenon DEF OpToRel
<1>3. \A y \in S : x <= y
  BY <1>2
<1> QED
  BY <1>3 DEF Min

(* A bound on a set of naturals. *)
Bounded(S) == \E b \in Nat : \A s \in S : s <= b

(* A nonempty bounded set of naturals has a greatest element. *)
LEMMA BoundedHasGreatest ==
  ASSUME NEW S \in SUBSET Nat, S # {}, Bounded(S)
  PROVE  \E m \in S : \A s \in S : s <= m
<1>1. PICK b \in Nat : \A s \in S : s <= b
  BY DEF Bounded
<1> DEFINE D == {b - s : s \in S}
<1>2. D \in SUBSET Nat
  BY <1>1
<1>3. D # {}
  OBVIOUS
<1>4. Min(D) \in D /\ \A d \in D : Min(D) <= d
  BY <1>2, <1>3, NatMin
<1>5. PICK m \in S : Min(D) = b - m
  BY <1>4
<1>6. \A s \in S : b - m <= b - s
  BY <1>4, <1>5
<1> QED
  BY <1>1, <1>6

(* Max of a set of integers between two bounds is its greatest element. *)
LEMMA IntMax ==
  ASSUME NEW low \in Int, NEW high \in Int, NEW S \in SUBSET (low .. high), S # {}
  PROVE  Max(S) \in S /\ \A x \in S : x <= Max(S)
<1> DEFINE T == {x - low : x \in S}
<1>0. \A x \in S : x \in Int /\ low <= x /\ x <= high
  OBVIOUS
<1>1. T \in SUBSET Nat /\ T # {}
  <2>1. \A x \in S : x - low \in Nat
    BY <1>0
  <2> QED
    BY <2>1
<1>2. Bounded(T)
  <2>1. \A x \in S : x - low <= high - low
    BY <1>0
  <2>2. PICK x \in S : TRUE
    OBVIOUS
  <2>3. high - low \in Nat
    BY <1>0, <2>2
  <2> QED
    BY <2>1, <2>3 DEF Bounded
<1>3. PICK y \in T : \A z \in T : z <= y
  BY <1>1, <1>2, BoundedHasGreatest
<1>4. PICK m \in S : y = m - low
  BY <1>3
<1>5. \A x \in S : m >= x
  <2> SUFFICES ASSUME NEW x \in S PROVE m >= x
    OBVIOUS
  <2>1. x - low <= m - low
    BY <1>3, <1>4
  <2> QED
    BY <1>0, <2>1
<1> QED
  BY <1>0, <1>5 DEF Max

-----------------------------------------------------------------------------
(***************************************************************************)
(* Cycles.                                                                 *)
(***************************************************************************)
(* A duration is a natural number of cycles. *)
LEMMA CycNat ==
  ASSUME NEW f \in Durations
  PROVE  Cyc(f) \in Nat
<1>1. Cfg[f] \in Nat /\ Cfg.clock \in Nat \ {0}
  BY DurationsAssumption
<1> QED
  BY <1>1 DEF Cyc, ToCycles

(* A refresh ends before the next falls due. *)
LEMMA RefreshPeriod ==
  ASSUME RefreshesEnd
  PROVE  Cyc("tREFI") \in Nat /\ Cyc("tRFC") \in Nat /\ Cyc("tREFI") > Cyc("tRFC")
<1>1. Cyc("tREFI") \in Nat /\ Cyc("tRFC") \in Nat
  BY CycNat DEF Durations
<1> QED
  BY <1>1 DEF RefreshesEnd
-----------------------------------------------------------------------------
(***************************************************************************)
(* Refresh.                                                                *)
(***************************************************************************)
(* Whole periods past a due refresh stay in the naturals. *)
LEMMA LastBoundaryNat ==
  ASSUME RefreshesEnd, NEW due \in Nat, NEW cycle \in Nat, due <= cycle
  PROVE  LastBoundary(due, cycle) \in Nat
<1>1. Cyc("tREFI") \in Nat /\ Cyc("tREFI") > 0
  BY RefreshPeriod
<1>2. (cycle - due) \div Cyc("tREFI") \in Nat
  BY <1>1
<1>3. ((cycle - due) \div Cyc("tREFI")) * Cyc("tREFI") \in Nat
  BY <1>1, <1>2
<1> QED
  BY <1>3 DEF LastBoundary

(* apply_refresh_if_due never moves a command earlier. *)
LEMMA ApplyRefreshType ==
  ASSUME RefreshesEnd, NEW r \in RefreshProgress, NEW cycle \in Nat
  PROVE  /\ ApplyRefresh(r, cycle) \in RefreshProgress
         /\ ApplyRefresh(r, cycle).at >= cycle
<1>1. CASE cycle < r.due
  BY <1>1 DEF ApplyRefresh, RefreshProgress
<1>2. CASE ~ (cycle < r.due)
  <2>1. LastBoundary(r.due, cycle) \in Nat
    BY <1>2, LastBoundaryNat DEF RefreshProgress
  <2> QED
    BY <1>2, <2>1, RefreshPeriod DEF ApplyRefresh, RefreshProgress, Later, Monus
<1> QED
  BY <1>1, <1>2

-----------------------------------------------------------------------------
(***************************************************************************)
(* Refresh boundaries.                                                     *)
(***************************************************************************)
(* The cycles refreshes fall due at. *)
Boundary(c) == \E k \in Nat \ {0} : c = k * Cyc("tREFI")

(* The end of the last refresh a cursor has left behind. *)
RefreshEnd(due) == due - Cyc("tREFI") + Cyc("tRFC")

(* Division by a period counts the whole periods. *)
LEMMA DivBelow ==
  ASSUME NEW period \in Nat \ {0}, NEW x \in Nat, NEW k \in Nat
  PROVE  (x \div period < k) <=> (x < k * period)
<1> DEFINE q == x \div period
<1>1. q \in Nat /\ q * period <= x /\ x < q * period + period
  OBVIOUS
<1> HIDE DEF q
<1>2. ASSUME NEW a \in Nat, NEW b \in Nat, a <= b PROVE a * period <= b * period
  BY <1>2
<1>3. CASE q < k
  <2>1. (q + 1) * period <= k * period
    BY <1>1, <1>2, <1>3
  <2>2. (q + 1) * period = q * period + period
    BY <1>1
  <2>3. q * period \in Nat /\ k * period \in Nat
    BY <1>1
  <2> QED
    BY <1>1, <1>3, <2>1, <2>2, <2>3 DEF q
<1>4. CASE k <= q
  <2>1. k * period <= q * period
    BY <1>1, <1>2, <1>4
  <2>2. q * period \in Nat /\ k * period \in Nat
    BY <1>1
  <2> QED
    BY <1>1, <1>4, <2>1, <2>2 DEF q
<1> QED
  BY <1>1, <1>3, <1>4

LEMMA BoundaryType ==
  ASSUME RefreshesEnd, NEW c, Boundary(c)
  PROVE  c \in Nat /\ c >= Cyc("tREFI") /\ Cyc("tREFI") > 0 /\ Cyc("tREFI") \in Nat
<1>1. Cyc("tREFI") \in Nat /\ Cyc("tREFI") > 0
  BY RefreshPeriod
<1>2. PICK k \in Nat \ {0} : c = k * Cyc("tREFI")
  BY DEF Boundary
<1>3. ASSUME NEW t \in Nat \ {0} PROVE k * t \in Nat /\ k * t >= t
  <2>1. k - 1 \in Nat /\ (k - 1) * t \in Nat
    OBVIOUS
  <2>2. k * t = (k - 1) * t + t
    BY <2>1
  <2> QED
    BY <2>1, <2>2
<1> QED
  BY <1>1, <1>2, <1>3

(* A whole number of periods after a boundary is a boundary. *)
LEMMA LaterBoundary ==
  ASSUME RefreshesEnd, NEW c, Boundary(c), NEW m \in Nat
  PROVE  Boundary(c + m * Cyc("tREFI"))
<1>1. Cyc("tREFI") \in Nat
  BY RefreshPeriod
<1>2. PICK k \in Nat \ {0} : c = k * Cyc("tREFI")
  BY DEF Boundary
<1>3. k + m \in Nat \ {0} /\ c + m * Cyc("tREFI") = (k + m) * Cyc("tREFI")
  BY <1>1, <1>2
<1> QED
  BY <1>3 DEF Boundary

(* What advancing a refresh cursor to a cycle does to it. *)
LEMMA ApplyRefreshMoves ==
  ASSUME RefreshesEnd, NEW r \in RefreshProgress, NEW cycle \in Nat, Boundary(r.due)
  PROVE  LET q == ApplyRefresh(r, cycle) IN
         /\ q \in RefreshProgress /\ Boundary(q.due)
         /\ q.at >= cycle /\ q.due > cycle /\ q.at < q.due /\ q.due >= r.due
         /\ q.due = r.due => q.end = r.end /\ q.at = cycle
         /\ q.due # r.due => /\ q.end = RefreshEnd(q.due) /\ q.at >= q.end
                             /\ q.due - Cyc("tREFI") <= cycle
                             /\ q.due - Cyc("tREFI") >= r.due
<1> DEFINE T == Cyc("tREFI")
           m == (cycle - r.due) \div T
           last == LastBoundary(r.due, cycle)
           q == ApplyRefresh(r, cycle)
<1>1. T \in Nat \ {0} /\ Cyc("tRFC") \in Nat /\ T > Cyc("tRFC") /\ r.due \in Nat
  BY RefreshPeriod DEF RefreshProgress
<1>2. q \in RefreshProgress /\ q.at >= cycle
  BY ApplyRefreshType
<1>3. CASE cycle < r.due
  <2>1. q = [r EXCEPT !.at = cycle]
    BY <1>3 DEF ApplyRefresh
  <2>2. q.at = cycle /\ q.due = r.due /\ q.end = r.end
    BY <2>1 DEF RefreshProgress
  <2> HIDE DEF q
  <2> QED
    BY <1>1, <1>2, <1>3, <2>2 DEF q
<1>4. CASE cycle >= r.due
  <2>1. cycle - r.due \in Nat
    BY <1>1, <1>4
  <2>2. m \in Nat /\ m * T <= cycle - r.due /\ cycle - r.due < m * T + T
    BY <1>1, <2>1
  <2>3. m * T \in Nat /\ last = r.due + m * T
    BY <1>1, <2>2 DEF LastBoundary
  <2>4. r.due + m * T + T = r.due + (m + 1) * T
    BY <1>1, <2>2, <2>3
  <2>5. Boundary(r.due + (m + 1) * T)
    BY <2>2, LaterBoundary
  <2> HIDE DEF m, last, T
  <2>6. q.due = last + T /\ q.end = last + Cyc("tRFC") /\ q.at = Later(cycle, q.end)
    BY <1>1, <1>4 DEF ApplyRefresh, last, T
  <2> HIDE DEF q
  <2>7. last \in Nat /\ q.end \in Nat /\ q.end < q.due /\ q.due > cycle /\ last <= cycle
    BY <1>1, <2>1, <2>2, <2>3, <2>6
  <2>8. q.at >= q.end /\ q.at < q.due
    BY <2>6, <2>7 DEF Later
  <2>9. /\ q.due >= r.due /\ q.due # r.due /\ q.end = q.due - T + Cyc("tRFC")
        /\ q.due - T <= cycle /\ q.due - T >= r.due
    BY <1>1, <2>2, <2>3, <2>6, <2>7
  <2>10. Boundary(q.due)
    BY <2>3, <2>4, <2>5, <2>6
  <2> QED
    BY <1>2, <2>7, <2>8, <2>9, <2>10 DEF q, T, RefreshEnd
<1> QED
  BY <1>1, <1>3, <1>4

-----------------------------------------------------------------------------
(***************************************************************************)
(* ACTIVATE spacing.                                                       *)
(***************************************************************************)
(* tRRD and tFAW only ever delay an ACT. *)
LEMMA GatedType ==
  ASSUME NEW acts \in Seq(Nat), NEW last_group, NEW group, NEW cycle \in Nat
  PROVE  Gated(acts, last_group, group, cycle) \in Nat
         /\ Gated(acts, last_group, group, cycle) >= cycle
<1> DEFINE gap == Cyc(IF last_group = group THEN "tRRD_L" ELSE "tRRD_S")
           spaced == IF acts = <<>> THEN cycle ELSE Later(cycle, acts[Len(acts)] + gap)
<1>1. gap \in Nat /\ Cyc("tFAW") \in Nat
  BY CycNat DEF Durations
<1>2. acts # <<>> => acts[Len(acts)] \in Nat
  BY LenProperties, EmptySeq
<1>3. Len(acts) >= 4 => acts[1] \in Nat
  BY LenProperties
<1> HIDE DEF gap
<1>4. spaced \in Nat /\ spaced >= cycle
  BY <1>1, <1>2 DEF Later
<1> USE DEF gap
<1>5. Gated(acts, last_group, group, cycle)
        = IF Len(acts) >= 4 THEN Later(spaced, acts[1] + Cyc("tFAW")) ELSE spaced
  BY DEF Gated
<1> HIDE DEF spaced
<1> QED
  BY <1>1, <1>3, <1>4, <1>5 DEF Later

(* The rolling window stays a sequence of cycles. *)
LEMMA StillInWindowType ==
  ASSUME NEW acts \in Seq(Nat), NEW cycle \in Nat
  PROVE  StillInWindow(acts, cycle) \in Seq(Nat)
<1> DEFINE F == {i \in 1 .. Len(acts) + 1 : i <= Len(acts) => acts[i] + Cyc("tFAW") > cycle}
<1>1. Len(acts) \in Nat /\ Len(acts) + 1 \in F /\ F \subseteq Nat
  BY LenProperties
<1>2. Min(F) \in F
  BY <1>1, NatMin
<1>3. Min(F) \in 1 .. Len(acts) + 1
  BY <1>2
<1>4. StillInWindow(acts, cycle) = SubSeq(acts, Min(F), Len(acts))
  BY DEF StillInWindow
<1> HIDE DEF F
<1> QED
  BY <1>1, <1>3, <1>4, SubSeqProperties

(* An ACT keeps tRRD after the last one and tFAW after the oldest of four. *)
LEMMA GatedSpaces ==
  ASSUME NEW acts \in Seq(Nat), NEW last_group, NEW group, NEW cycle \in Nat
  PROVE  LET gated == Gated(acts, last_group, group, cycle)
             gap   == Cyc(IF last_group = group THEN "tRRD_L" ELSE "tRRD_S")
         IN  /\ acts # <<>> => gated >= acts[Len(acts)] + gap
             /\ Len(acts) >= 4 => gated >= acts[1] + Cyc("tFAW")
<1> DEFINE gap == Cyc(IF last_group = group THEN "tRRD_L" ELSE "tRRD_S")
           last == acts[Len(acts)]
           spaced == IF acts = <<>> THEN cycle ELSE Later(cycle, last + gap)
           gated == Gated(acts, last_group, group, cycle)
<1>1. gap \in Nat /\ Cyc("tFAW") \in Nat
  BY CycNat DEF Durations
<1>2. acts # <<>> => last \in Nat
  BY LenProperties, EmptySeq
<1>3. Len(acts) >= 4 => acts[1] \in Nat
  BY LenProperties
<1>4. gated = IF Len(acts) >= 4 THEN Later(spaced, acts[1] + Cyc("tFAW")) ELSE spaced
  BY DEF Gated
<1> HIDE DEF gap, last, gated
<1>5. spaced \in Nat /\ (acts # <<>> => spaced >= last + gap)
  BY <1>1, <1>2 DEF Later
<1> HIDE DEF spaced
<1>6. acts # <<>> => gated >= last + gap
  BY <1>1, <1>2, <1>3, <1>4, <1>5 DEF Later
<1>7. Len(acts) >= 4 => gated >= acts[1] + Cyc("tFAW")
  BY <1>1, <1>3, <1>4, <1>5 DEF Later
<1> QED
  BY <1>6, <1>7 DEF gap, last, gated

(* The rolling window forgets from the front, and only what is tFAW past. *)
LEMMA StillInWindowShape ==
  ASSUME NEW acts \in Seq(Nat), NEW cycle \in Nat
  PROVE  \E first \in 1 .. Len(acts) + 1 :
           /\ StillInWindow(acts, cycle) = SubSeq(acts, first, Len(acts))
           /\ \A i \in 1 .. first - 1 : acts[i] + Cyc("tFAW") <= cycle
           /\ acts # <<>> /\ acts[1] + Cyc("tFAW") <= cycle => first # 1
<1> DEFINE F == {i \in 1 .. Len(acts) + 1 : i <= Len(acts) => acts[i] + Cyc("tFAW") > cycle}
           first == Min(F)
<1>1. Len(acts) \in Nat /\ Len(acts) + 1 \in F /\ F \in SUBSET Nat
  BY LenProperties
<1>2. first \in F /\ \A i \in F : first <= i
  BY <1>1, NatMin
<1>3. Cyc("tFAW") \in Nat
  BY CycNat DEF Durations
<1>4. \A i \in 1 .. Len(acts) : acts[i] \in Nat
  BY LenProperties
<1>5. first \in 1 .. Len(acts) + 1
  BY <1>2
<1>6. \A i \in 1 .. first - 1 : acts[i] + Cyc("tFAW") <= cycle
  <2> TAKE i \in 1 .. first - 1
  <2>1. i \in 1 .. Len(acts) /\ ~ (first <= i)
    BY <1>1, <1>5
  <2>2. i \notin F
    BY <1>2, <2>1
  <2>3. ~ (acts[i] + Cyc("tFAW") > cycle)
    BY <1>1, <2>1, <2>2
  <2> QED
    BY <1>3, <1>4, <2>1, <2>3
<1>7. StillInWindow(acts, cycle) = SubSeq(acts, first, Len(acts))
  BY DEF StillInWindow
<1>8. ASSUME acts # <<>>, acts[1] + Cyc("tFAW") <= cycle PROVE first # 1
  <2> SUFFICES ASSUME first = 1 PROVE FALSE
    OBVIOUS
  <2>1. Len(acts) >= 1
    BY <1>1, <1>8, EmptySeq
  <2>2. acts[1] + Cyc("tFAW") > cycle
    BY <1>2, <2>1
  <2>3. acts[1] \in Nat
    BY <1>1, <1>4, <2>1
  <2> QED
    BY <1>3, <1>8, <2>2, <2>3
<1> HIDE DEF first
<1> QED
  BY <1>5, <1>6, <1>7, <1>8

-----------------------------------------------------------------------------
(***************************************************************************)
(* The command bus.                                                        *)
(***************************************************************************)
(* reserve_cmd_slot finds a free slot, and none before the cycle asked for. *)
LEMMA ReserveSlotFree ==
  ASSUME NEW slots \in SUBSET Nat, Bounded(slots), NEW desired \in Nat
  PROVE  /\ ReserveSlot(slots, desired) \in Nat
         /\ ReserveSlot(slots, desired) >= desired
         /\ Free(slots, ReserveSlot(slots, desired))
<1> DEFINE C == {t \in {desired} \cup {s + CmdSlotCycles : s \in slots} :
                   t >= desired /\ Free(slots, t)}
<1>1. CmdSlotCycles \in Nat \ {0}
  BY SlotAssumption
<1>2. C \in SUBSET Nat
  BY <1>1
<1>3. C # {}
  <2>1. CASE Free(slots, desired)
    BY <2>1
  <2>2. CASE ~ Free(slots, desired)
    <3> DEFINE T == {s \in slots : s + CmdSlotCycles > desired}
    <3>1. T \in SUBSET Nat /\ T # {}
      BY <1>1, <2>2 DEF Free, Overlap
    <3>2. Bounded(T)
      BY DEF Bounded
    <3>3. PICK m \in T : \A s \in T : s <= m
      BY <3>1, <3>2, BoundedHasGreatest
    <3>4. \A s \in slots : ~ Overlap(s, m + CmdSlotCycles)
      <4> TAKE s \in slots
      <4>1. s + CmdSlotCycles <= m + CmdSlotCycles
        BY <1>1, <3>3
      <4> QED
        BY <1>1, <4>1, <3>3 DEF Overlap
    <3>5. m + CmdSlotCycles \in C
      BY <1>1, <3>3, <3>4 DEF Free
    <3> QED
      BY <3>5
  <2> QED
    BY <2>1, <2>2
<1>4. Min(C) \in C
  BY <1>2, <1>3, NatMin
<1>5. ReserveSlot(slots, desired) = Min(C)
  BY DEF ReserveSlot
<1> QED
  BY <1>2, <1>4, <1>5

(* reserve_cmd_slot pushes a command only past cycles the bus is taken at. *)
LEMMA ReserveSlotFirst ==
  ASSUME NEW slots \in SUBSET Nat, Bounded(slots), NEW desired \in Nat,
         NEW t \in Nat, desired <= t, t < ReserveSlot(slots, desired)
  PROVE  ~ Free(slots, t)
<1> DEFINE ends == {s + CmdSlotCycles : s \in slots}
           C == {x \in {desired} \cup ends : x >= desired /\ Free(slots, x)}
           D == {x \in {desired} \cup ends : desired <= x /\ x <= t}
<1> SUFFICES ASSUME Free(slots, t) PROVE FALSE
  OBVIOUS
<1>1. CmdSlotCycles \in Nat \ {0}
  BY SlotAssumption
<1>2. D \in SUBSET Nat /\ desired \in D /\ Bounded(D)
  BY <1>1 DEF Bounded
<1>3. PICK m \in D : \A x \in D : x <= m
  BY <1>2, BoundedHasGreatest
<1>4. m \in Nat /\ desired <= m /\ m <= t
  BY <1>2, <1>3
<1>5. \A s \in slots : ~ Overlap(s, m)
  <2> TAKE s \in slots
  <2>1. s \in Nat /\ ~ Overlap(s, t)
    BY DEF Free
  <2>2. CASE s + CmdSlotCycles <= t
    <3>1. s + CmdSlotCycles <= m
      <4>1. CASE s + CmdSlotCycles >= desired
        BY <1>3, <2>2, <4>1
      <4>2. CASE ~ (s + CmdSlotCycles >= desired)
        BY <1>1, <1>4, <2>1, <4>2
      <4> QED
        BY <4>1, <4>2
    <3> QED
      BY <1>1, <1>4, <2>1, <3>1 DEF Overlap
  <2>3. CASE t + CmdSlotCycles <= s
    BY <1>1, <1>4, <2>1, <2>3 DEF Overlap
  <2> QED
    BY <1>1, <2>1, <2>2, <2>3 DEF Overlap
<1>6. m \in C
  BY <1>3, <1>4, <1>5 DEF Free
<1>7. C \in SUBSET Nat
  BY <1>1
<1>8. Min(C) <= m
  BY <1>6, <1>7, NatMin
<1>9. ReserveSlot(slots, desired) = Min(C) /\ Min(C) \in Nat
  BY <1>6, <1>7, NatMin DEF ReserveSlot
<1> HIDE DEF C
<1> QED
  BY <1>4, <1>8, <1>9

(* Reserving one more slot keeps the reserved slots bounded. *)
LEMMA BoundedAdd ==
  ASSUME NEW S \in SUBSET Nat, Bounded(S), NEW t \in Nat
  PROVE  S \cup {t} \in SUBSET Nat /\ Bounded(S \cup {t})
<1>1. PICK b \in Nat : \A s \in S : s <= b
  BY DEF Bounded
<1>2. \A s \in S \cup {t} : s <= b + t
  BY <1>1
<1> QED
  BY <1>2 DEF Bounded

(* Pruning only forgets. *)
LEMMA PruneBounded ==
  ASSUME NEW S \in SUBSET Nat, Bounded(S), NEW horizon
  PROVE  Prune(S, horizon) \in SUBSET Nat /\ Bounded(Prune(S, horizon))
BY DEF Prune, Bounded

-----------------------------------------------------------------------------
(***************************************************************************)
(* Types.                                                                  *)
(***************************************************************************)
Ops ==
  [status : Status, pre : Nat \cup {NoCycle}, act : Nat \cup {NoCycle}, acts : Seq(Nat),
   row_ready : Nat, refresh : RefreshProgress, slots : SUBSET Nat]

Placed ==
  [bank : BankState, ops : Ops, wanted : Nat, col : Nat, data : Nat, complete : Nat]

(* The slots a drain searches have a last one, so every search ends. *)
SlotsBounded == Bounded(cmd_bus_slots)

(* Nothing is on the data bus before the first drain. *)
BusStartsAtZero == ~ bus_used => bus_free_cycle = 0

IInv == TypeOK /\ SlotsBounded /\ BusStartsAtZero /\ BudgetCloses

-----------------------------------------------------------------------------
(***************************************************************************)
(* Arbitration.                                                            *)
(***************************************************************************)
LEMMA DurationsNat ==
  /\ Cyc("tRCD") \in Nat /\ Cyc("tRP") \in Nat /\ Cyc("tRAS") \in Nat
  /\ Cyc("tCL") \in Nat /\ Cyc("tCWL") \in Nat
  /\ Cyc("tCCD_S") \in Nat /\ Cyc("tCCD_L") \in Nat
  /\ Cyc("tWTR_S") \in Nat /\ Cyc("tWTR_L") \in Nat
  /\ Cyc("rd_wr_turnaround") \in Nat /\ Cyc("wr_rd_turnaround") \in Nat
  /\ Cyc("page_close_timer") \in Nat
BY CycNat DEF Durations

(* The decision cycle is a cycle some pending command is ready by. *)
LEMMA SomeArrived ==
  ASSUME TypeOK, pending # {}
  PROVE  Arrived # {} /\ DecisionCycle \in Nat
<1> DEFINE Readies == {p.ready : p \in pending}
           oldest == Min(Readies)
<1>1. Readies \in SUBSET Nat /\ Readies # {}
  BY DEF TypeOK, PendingCmd, Cycle
<1>2. oldest \in Readies
  BY <1>1, NatMin
<1>3. PICK p \in pending : p.ready = oldest
  BY <1>2
<1>4. oldest \in Nat
  BY <1>1, <1>2
<1>5. DecisionCycle
        = IF bus_used THEN Later(oldest, last_col_start_cycle + Cyc("tCCD_S")) ELSE oldest
  BY DEF DecisionCycle
<1> HIDE DEF oldest
<1>6. DecisionCycle \in Nat /\ oldest <= DecisionCycle
  BY <1>4, <1>5, DurationsNat DEF TypeOK, Cycle, Later
<1>7. p \in Arrived
  BY <1>3, <1>6 DEF Arrived
<1> QED
  BY <1>6, <1>7

(* Whatever the policies leave out, someone is left to pick. *)
LEMMA SomeContender ==
  ASSUME TypeOK, pending # {}
  PROVE  Contenders # {} /\ Contenders \subseteq pending
<1>1. Arrived # {} /\ Arrived \subseteq pending
  BY SomeArrived DEF Arrived
<1>2. Eligible # {} /\ Eligible \subseteq Arrived
  BY <1>1 DEF Eligible
<1>3. CASE Starved # {}
  BY <1>1, <1>3 DEF Contenders, Starved
<1>4. CASE Starved = {}
  <2> DEFINE open == Eligible \ MustYield
             Ranked == {Priority(p) : p \in open}
  <2>1. open # {}
    <3>1. CASE MustYield = {}
      BY <1>2, <3>1
    <3>2. CASE MustYield # {}
      <4>1. PICK q \in Eligible : q.bank # last_hit_bank
        BY <3>2 DEF MustYield
      <4> QED
        BY <4>1 DEF MustYield
    <3> QED
      BY <3>1, <3>2
  <2>2. Ranked \in SUBSET Nat /\ Ranked # {}
    BY <2>1 DEF Priority
  <2>3. Min(Ranked) \in Ranked /\ \A x \in Ranked : Min(Ranked) <= x
    BY <2>2, NatMin
  <2>4. PICK p \in open : Priority(p) = Min(Ranked)
    BY <2>3
  <2>5. \A q \in open : Priority(p) <= Priority(q)
    BY <2>3, <2>4
  <2>6. Contenders = {x \in open : \A q \in open : Priority(x) <= Priority(q)}
    BY <1>4 DEF Contenders
  <2> QED
    BY <1>1, <1>2, <2>4, <2>5, <2>6
<1> QED
  BY <1>3, <1>4

(* What pick_best_index promises of the command it returns. *)
LEMMA PickOldest ==
  ASSUME TypeOK, pending # {}
  PROVE  Pick \in Contenders /\ \A q \in Contenders : Pick.seq <= q.seq
<1> DEFINE Seqs == {p.seq : p \in Contenders}
<1>1. Contenders # {} /\ Contenders \subseteq pending
  BY SomeContender
<1>2. Seqs \in SUBSET Nat /\ Seqs # {}
  BY <1>1 DEF TypeOK, PendingCmd
<1>3. Min(Seqs) \in Seqs /\ \A x \in Seqs : Min(Seqs) <= x
  BY <1>2, NatMin
<1>4. PICK p \in Contenders : p.seq = Min(Seqs)
  BY <1>3
<1>5. \A q \in Contenders : p.seq <= q.seq
  BY <1>3, <1>4
<1> QED
  BY <1>4, <1>5 DEF Pick

(* pick_best_index returns the index of a pending command. *)
LEMMA PickPending ==
  ASSUME TypeOK, pending # {}
  PROVE  Pick \in pending
BY PickOldest, SomeContender

-----------------------------------------------------------------------------
(***************************************************************************)
(* Placement.                                                              *)
(***************************************************************************)
LEMMA TransferPositive ==
  ASSUME TypeOK, NEW p \in pending
  PROVE  TransferCycles(p) \in Nat \ {0}
<1>1. p.bytes \in Nat /\ Cfg.data_bus_bytes \in Nat \ {0}
  BY PolicyAssumption DEF TypeOK, PendingCmd
<1>2. (p.bytes + Cfg.data_bus_bytes - 1) \div Cfg.data_bus_bytes \in Nat
  BY <1>1
<1> QED
  BY <1>2 DEF TransferCycles, Later

(* Every column floor is a cycle, and the column floor covers the data bus. *)
LEMMA FloorsNat ==
  ASSUME TypeOK, NEW p \in pending
  PROVE  /\ CasCycles(p.type) \in Nat
         /\ TccdFloor(p) \in Nat /\ TurnFloor(p) \in Nat /\ TwtrFloor(p) \in Nat
         /\ BusReady(p) \in Nat /\ ColumnFloor(p) \in Nat
         /\ bus_used => ColumnFloor(p) + CasCycles(p.type) >= bus_free_cycle
<1>1. p.ready \in Nat /\ p.type \in Types
  BY DEF TypeOK, PendingCmd, Cycle
<1>2. CasCycles(p.type) \in Nat
  BY DurationsNat DEF CasCycles
<1>3. TccdFloor(p) \in Nat
  BY DurationsNat DEF TccdFloor, TypeOK, Cycle
<1>4. TwtrFloor(p) \in Nat
  BY DurationsNat DEF TwtrFloor, TypeOK, Cycle
<1>5. BusFloor(p) \in Nat /\ (bus_used => BusFloor(p) + CasCycles(p.type) >= bus_free_cycle)
  BY <1>2 DEF BusFloor, Monus, TypeOK, Cycle
<1>6. TurnFloor(p) \in Nat
  BY <1>2, DurationsNat DEF TurnFloor, Monus, TypeOK, Cycle
<1>7. BusReady(p) \in Nat /\ BusReady(p) >= BusFloor(p)
  BY <1>1, <1>3, <1>5 DEF BusReady, Later
<1>8. ColumnFloor(p) \in Nat /\ ColumnFloor(p) >= BusReady(p)
  BY <1>4, <1>6, <1>7 DEF ColumnFloor, Later
<1> QED
  BY <1>2, <1>3, <1>4, <1>5, <1>6, <1>7, <1>8 DEF TypeOK, Cycle

LEMMA SyncedType ==
  ASSUME TypeOK, NEW p \in pending
  PROVE  Synced(p) \in RefreshProgress /\ Synced(p).at >= ColumnFloor(p)
<1> DEFINE start == [at |-> 0, due |-> ranks[RankOf(p.bank)].next_refresh_due_cycle,
                     end |-> 0, blocked |-> 0]
<1>1. RankOf(p.bank) \in Ranks
  BY DEF TypeOK, PendingCmd, Bank, RankOf
<1>2. start \in RefreshProgress
  BY <1>1 DEF TypeOK, RankState, RefreshProgress, Cycle
<1>3. Synced(p) = ApplyRefresh(start, ColumnFloor(p))
  BY DEF Synced
<1> HIDE DEF start
<1> QED
  BY <1>2, <1>3, FloorsNat, ApplyRefreshType, RefreshAssumption

LEMMA RefreshedType ==
  ASSUME NEW bank \in BankState, NEW end \in Nat
  PROVE  Refreshed(bank, end) \in BankState
BY DEF Refreshed, BankState, Later, Cycle

LEMMA FoundBankType ==
  ASSUME TypeOK, NEW p \in pending
  PROVE  FoundBank(p) \in BankState
<1> DEFINE bank == Refreshed(banks[p.bank], Synced(p).end)
<1>1. banks[p.bank] \in BankState
  BY DEF TypeOK, PendingCmd
<1>2. bank \in BankState
  BY <1>1, SyncedType, RefreshedType DEF RefreshProgress
<1>3. FoundBank(p) = IF TimedOut(p, bank)
                     THEN [bank EXCEPT !.open_row = NoRow,
                                       !.act_ready = Later(@, TimerPrecharge(bank) + Cyc("tRP"))]
                     ELSE bank
  BY DEF FoundBank
<1> HIDE DEF bank
<1>4. TimerPrecharge(bank) + Cyc("tRP") \in Nat
  BY <1>2, DurationsNat DEF TimerPrecharge, CloseAt, Later, BankState, Cycle
<1>5. Later(bank.act_ready, TimerPrecharge(bank) + Cyc("tRP")) \in Nat
  BY <1>2, <1>4 DEF Later, BankState, Cycle
<1> QED
  BY <1>2, <1>3, <1>5 DEF BankState, Cycle

(* place_activate keeps every record a record of cycles. *)
LEMMA PlaceActivateType ==
  ASSUME TypeOK, NEW p \in pending, NEW r \in RefreshProgress,
         NEW slots \in SUBSET Nat, Bounded(slots), NEW floor \in Nat
  PROVE  LET placed == PlaceActivate(p, r, slots, floor)
         IN  /\ placed.act \in Nat /\ placed.refresh \in RefreshProgress
             /\ placed.acts \in Seq(Nat)
             /\ placed.slots \in SUBSET Nat /\ Bounded(placed.slots)
<1> DEFINE rank  == ranks[RankOf(p.bank)]
           first == ApplyRefresh(r, floor)
           gated == Gated(rank.recent_activates, rank.last_activate_bankgroup,
                          GroupOf(p.bank), first.at)
           again == ApplyRefresh(first, gated)
           act   == ReserveSlot(slots, again.at)
<1>1. rank.recent_activates \in Seq(Nat)
  BY DEF TypeOK, PendingCmd, Bank, RankOf, RankState, Cycle
<1>2. first \in RefreshProgress
  BY ApplyRefreshType, RefreshAssumption
<1>3. first.at \in Nat
  BY <1>2 DEF RefreshProgress
<1>4. gated \in Nat
  BY <1>1, <1>3, GatedType
<1>5. again \in RefreshProgress
  BY <1>2, <1>4, ApplyRefreshType, RefreshAssumption
<1>6. again.at \in Nat
  BY <1>5 DEF RefreshProgress
<1>7. act \in Nat
  BY <1>6, ReserveSlotFree
<1>8. StillInWindow(rank.recent_activates, gated) \in Seq(Nat)
  BY <1>1, <1>4, StillInWindowType
<1>9. slots \cup {act} \in SUBSET Nat /\ Bounded(slots \cup {act})
  BY <1>7, BoundedAdd
<1>10. PlaceActivate(p, r, slots, floor)
         = [act |-> act, refresh |-> again, slots |-> slots \cup {act},
            acts |-> Append(StillInWindow(rank.recent_activates, gated), act)]
  BY DEF PlaceActivate, ActivateFrom
<1> HIDE DEF rank, first, gated, again, act
<1> QED
  BY <1>5, <1>7, <1>8, <1>9, <1>10, AppendProperties

LEMMA HitOpsType ==
  ASSUME TypeOK, SlotsBounded, NEW p \in pending, NEW bank \in BankState
  PROVE  HitOps(p, bank) \in Ops /\ Bounded(HitOps(p, bank).slots)
<1>1. ranks[RankOf(p.bank)].recent_activates \in Seq(Nat)
  BY DEF TypeOK, PendingCmd, Bank, RankOf, RankState, Cycle
<1>2. bank.col_ready \in Nat /\ cmd_bus_slots \in SUBSET Nat
  BY DEF BankState, TypeOK, Cycle
<1> QED
  BY <1>1, <1>2, SyncedType DEF HitOps, Ops, Status, SlotsBounded

(* What place_activate hands over is enough for the column command. *)
PlacedActivate(x) ==
  /\ x.act \in Nat /\ x.refresh \in RefreshProgress
  /\ x.acts \in Seq(Nat)
  /\ x.slots \in SUBSET Nat /\ Bounded(x.slots)

LEMMA MissOpsType ==
  ASSUME NEW status \in Status \ {"Hit"}, NEW pre \in Nat \cup {NoCycle}, NEW placed,
         PlacedActivate(placed)
  PROVE  LET ops == MissOps(status, pre, placed)
         IN  ops \in Ops /\ Bounded(ops.slots) /\ ops.status # "Hit" /\ ops.act \in Nat
<1> DEFINE refresh == ApplyRefresh(placed.refresh, placed.act + Cyc("tRCD"))
<1>1. placed.act + Cyc("tRCD") \in Nat
  BY SMTT(30), DurationsNat DEF PlacedActivate
<1>2. refresh \in RefreshProgress
  BY <1>1, ApplyRefreshType, RefreshAssumption DEF PlacedActivate
<1>3. refresh.at \in Nat
  BY <1>2 DEF RefreshProgress
<1>4. MissOps(status, pre, placed)
         = [status |-> status, pre |-> pre, act |-> placed.act, acts |-> placed.acts,
            row_ready |-> refresh.at, refresh |-> refresh, slots |-> placed.slots]
  BY DEF MissOps
<1> HIDE DEF refresh
<1> QED
  BY <1>2, <1>3, <1>4 DEF Ops, PlacedActivate

LEMMA RowOpsType ==
  ASSUME TypeOK, SlotsBounded, NEW p \in pending, NEW bank \in BankState
  PROVE  LET ops == RowOps(p, bank)
         IN  ops \in Ops /\ Bounded(ops.slots) /\ ops.status # "Hit" /\ ops.act \in Nat
<1> DEFINE before == ApplyRefresh(Synced(p), FromVisible(p, bank.precharge_ready))
           pre    == ReserveSlot(cmd_bus_slots, before.at)
           second == PlaceActivate(p, before, cmd_bus_slots \cup {pre}, pre + Cyc("tRP"))
           only   == PlaceActivate(p, Synced(p), cmd_bus_slots, FromVisible(p, bank.act_ready))
<1>1. cmd_bus_slots \in SUBSET Nat /\ Bounded(cmd_bus_slots)
  BY DEF TypeOK, SlotsBounded, Cycle
<1>2. FromVisible(p, bank.precharge_ready) \in Nat /\ FromVisible(p, bank.act_ready) \in Nat
  BY DEF FromVisible, Later, BankState, TypeOK, PendingCmd, Cycle
<1>3. before \in RefreshProgress
  BY <1>2, SyncedType, ApplyRefreshType, RefreshAssumption
<1>4. before.at \in Nat
  BY <1>3 DEF RefreshProgress
<1>5. pre \in Nat
  BY <1>1, <1>4, ReserveSlotFree
<1>6. cmd_bus_slots \cup {pre} \in SUBSET Nat /\ Bounded(cmd_bus_slots \cup {pre})
  BY <1>1, <1>5, BoundedAdd
<1>7. pre + Cyc("tRP") \in Nat
  BY <1>5, DurationsNat
<1> HIDE DEF before, pre
<1>8. PlacedActivate(second)
  BY <1>3, <1>6, <1>7, PlaceActivateType DEF PlacedActivate
<1>9. PlacedActivate(only)
  BY <1>1, <1>2, SyncedType, PlaceActivateType DEF PlacedActivate
<1>10. RowOps(p, bank) = IF bank.open_row = NoRow THEN MissOps("Empty", NoCycle, only)
                         ELSE MissOps("Conflict", pre, second)
  BY DEF RowOps, before, pre
<1> HIDE DEF second, only
<1> QED
  BY <1>5, <1>8, <1>9, <1>10, MissOpsType DEF Status

(* A drain places every command at a cycle, the column command no earlier than
   wanted and wanted no earlier than the column floor. *)
LEMMA PlacementType ==
  ASSUME TypeOK, SlotsBounded, NEW p \in pending
  PROVE  LET t == Placement(p)
         IN  /\ t \in Placed
             /\ t.ops.status # "Hit" => t.ops.act \in Nat
             /\ t.ops.slots \cup {t.col} \in SUBSET Nat /\ Bounded(t.ops.slots \cup {t.col})
             /\ t.col >= t.wanted
             /\ t.wanted >= Synced(p).at
             /\ t.complete = t.col + CasCycles(p.type) + TransferCycles(p)
<1> DEFINE bank   == FoundBank(p)
           ops    == IF bank.open_row = p.row THEN HitOps(p, bank) ELSE RowOps(p, bank)
           wanted == Later(Synced(p).at, ops.row_ready)
           col    == ReserveSlot(ops.slots, wanted)
           data   == col + CasCycles(p.type)
<1>1. bank \in BankState
  BY FoundBankType
<1> HIDE DEF bank
<1>2. ops \in Ops /\ Bounded(ops.slots) /\ (ops.status # "Hit" => ops.act \in Nat)
  BY <1>1, HitOpsType, RowOpsType DEF HitOps
<1> HIDE DEF ops
<1>3. Synced(p).at \in Nat /\ ops.row_ready \in Nat /\ ops.slots \in SUBSET Nat
  BY <1>2, SyncedType DEF Ops, RefreshProgress
<1>4. wanted \in Nat /\ wanted >= Synced(p).at
  BY <1>3 DEF Later
<1> HIDE DEF wanted
<1>5. col \in Nat /\ col >= wanted
  BY <1>2, <1>3, <1>4, ReserveSlotFree
<1> HIDE DEF col
<1>6. ops.slots \cup {col} \in SUBSET Nat /\ Bounded(ops.slots \cup {col})
  BY <1>2, <1>3, <1>5, BoundedAdd
<1>7. data \in Nat /\ data + TransferCycles(p) \in Nat
  BY <1>5, FloorsNat, TransferPositive
<1>8. Placement(p) = [bank |-> bank, ops |-> ops, wanted |-> wanted, col |-> col,
                      data |-> data, complete |-> data + TransferCycles(p)]
  BY DEF Placement, PlacedWith, bank, ops, wanted, col
<1> QED
  BY <1>1, <1>2, <1>4, <1>5, <1>6, <1>7, <1>8 DEF Placed

-----------------------------------------------------------------------------
(***************************************************************************)
(* Accounting.                                                             *)
(***************************************************************************)
LEMMA BindingCauseIsCause ==
  ASSUME NEW p, NEW t
  PROVE  BindingCause(p, t) \in Causes
BY DEF BindingCause, Causes

(* A drain charges natural numbers, and in all exactly the bubble and the push. *)
LEMMA ChargeIsBubble ==
  ASSUME TypeOK, NEW p \in pending, NEW t \in Placed, t.col >= t.wanted
  PROVE  LET c == Charge(p, t)
         IN  /\ Bubble(p, t) \in Nat /\ Pushed(t) \in Nat
             /\ c \in [Causes -> Nat]
             /\ c["refresh"] + c["row_miss"] + c["twtr"] + c["turnaround"]
                  + c["tccd_l_excess"] + c["frontend_idle"] + c["other"]
                = Bubble(p, t) + Pushed(t)
<1> DEFINE gap     == Bubble(p, t)
           blocked == IF gap <= t.ops.refresh.blocked THEN gap ELSE t.ops.refresh.blocked
           rest    == gap - blocked
           cause   == BindingCause(p, t)
           excess  == IF SameGroup(p, last_col_bankgroup)
                      THEN Monus(Cyc("tCCD_L"), Cyc("tCCD_S")) ELSE 0
           charged == IF cause = "tccd_l_excess" /\ excess < rest THEN excess ELSE rest
           c == Charge(p, t)
<1>1. gap \in Nat
  BY FloorsNat DEF Bubble, Monus, PrevEnd, Placed, TypeOK, Cycle
<1>2. Pushed(t) \in Nat
  BY DEF Pushed, Placed
<1>3. t.ops.refresh.blocked \in Nat
  BY DEF Placed, Ops, RefreshProgress
<1>4. blocked \in Nat /\ rest \in Nat
  BY <1>1, <1>3
<1>5. excess \in Nat
  BY DurationsNat DEF Monus
<1>6. cause \in Causes
  BY BindingCauseIsCause
<1>7. c = [x \in Causes |-> (IF x = cause THEN charged ELSE 0)
                            + (IF x = "refresh" THEN blocked ELSE 0)
                            + (IF x = "other" THEN Pushed(t) + (rest - charged) ELSE 0)]
  BY DEF Charge
<1>8. gap = blocked + rest
  BY <1>1, <1>3
<1> HIDE DEF gap, blocked, rest, cause, excess, c
<1>9. charged \in Nat /\ rest - charged \in Nat
  BY <1>4, <1>5
<1> HIDE DEF charged
<1>10. c \in [Causes -> Nat]
  BY <1>2, <1>4, <1>7, <1>9
<1>11. c["refresh"] + c["row_miss"] + c["twtr"] + c["turnaround"] + c["tccd_l_excess"]
         + c["frontend_idle"] + c["other"] = gap + Pushed(t)
  BY <1>2, <1>4, <1>6, <1>7, <1>8, <1>9 DEF Causes
<1> QED
  BY <1>1, <1>2, <1>10, <1>11 DEF gap, c

(* What a drain adds to the statistics keeps them counters, and closes the
   budget again. *)
LEMMA CountedType ==
  ASSUME TypeOK, NEW p \in pending, NEW t \in Placed, t.col >= t.wanted
  PROVE  Counted(p, t) \in ChannelStats
<1> DEFINE charge == Charge(p, t)
<1>1. charge \in [Causes -> Nat]
  BY ChargeIsBubble
<1>2. /\ t.ops.status \in Status /\ t.ops.refresh.blocked \in Nat
      /\ t.ops.row_ready \in Nat /\ t.complete \in Nat
  BY DEF Placed, Ops, RefreshProgress
<1>3. Synced(p).at \in Nat
  BY SyncedType DEF RefreshProgress
<1>4. Monus(t.ops.row_ready, Synced(p).at) \in Nat
  BY <1>2, <1>3 DEF Monus
<1>5. Monus(TurnFloor(p), BusReady(p)) \in Nat
  BY FloorsNat DEF Monus
<1>6. TransferCycles(p) \in Nat
  BY TransferPositive
<1>7. [c \in Causes |-> stats.attr[c] + charge[c]] \in [Causes -> Nat]
  BY <1>1 DEF TypeOK, ChannelStats
<1>8. [stats.served EXCEPT ![t.ops.status] = @ + 1] \in [Status -> Nat]
  BY <1>2 DEF TypeOK, ChannelStats
<1> HIDE DEF charge
<1> QED
  BY <1>2, <1>4, <1>5, <1>6, <1>7, <1>8 DEF Counted, charge, TypeOK, ChannelStats, Cycle

-----------------------------------------------------------------------------
(***************************************************************************)
(* The bank a drain used.                                                  *)
(***************************************************************************)
LEMMA RecoveryNat ==
  ASSUME NEW type
  PROVE  Recovery(type) \in Nat
<1> DEFINE d == Cfg[IF type = "Read" THEN "tRTP" ELSE "tWR"]
<1>1. d \in Nat /\ Cfg.ns \in Nat \ {0} /\ Cfg.clock \in Nat \ {0}
  BY DurationsAssumption DEF Durations
<1>2. d \div Cfg.ns \in Nat
  BY <1>1
<1>3. (d \div Cfg.ns) * Cfg.ns \in Nat
  BY <1>1, <1>2
<1> DEFINE whole == (d \div Cfg.ns) * Cfg.ns
<1> HIDE DEF whole
<1>4. (whole + Cfg.clock - 1) \div Cfg.clock \in Nat
  BY <1>1, <1>3 DEF whole
<1> QED
  BY <1>4 DEF Recovery, ToCycles, whole

LEMMA UsedBankType ==
  ASSUME TypeOK, NEW p \in pending, NEW t \in Placed, t.ops.status # "Hit" => t.ops.act \in Nat
  PROVE  UsedBank(p, t) \in BankState
<1>1. OpenedAt(t) \in Nat
  BY DEF OpenedAt, Placed, BankState, Cycle
<1>2. PrechargeReady(p, t) \in Nat
  BY <1>1, RecoveryNat, DurationsNat DEF PrechargeReady, Later, Placed
<1>3. Refreshed(t.bank, t.ops.refresh.end) \in BankState
  BY RefreshedType DEF Placed, Ops, RefreshProgress
<1>4. ActReady(p, t) \in Nat
  BY <1>2, <1>3, DurationsNat DEF ActReady, Later, BankState, Cycle
<1>5. t.col + TransferCycles(p) \in Nat /\ t.col \in Nat
  BY TransferPositive DEF Placed
<1>6. p.row \in Rows
  BY DEF TypeOK, PendingCmd
<1> QED
  BY <1>1, <1>2, <1>4, <1>5, <1>6 DEF UsedBank, BankState, Cycle

-----------------------------------------------------------------------------
(***************************************************************************)
(* The invariant is inductive.                                             *)
(***************************************************************************)
LEMMA InitInv == Init => IInv
<1> SUFFICES ASSUME Init PROVE IInv
  OBVIOUS
<1>1. Cyc("tREFI") \in Nat
  BY RefreshPeriod, RefreshAssumption
<1>2. ClosedBank \in BankState
  BY DEF ClosedBank, BankState, Cycle
<1>3. banks \in [Bank -> BankState]
  BY <1>2 DEF Init
<1>4. ranks \in [Ranks -> RankState]
  BY <1>1, TopologyAssumption, EmptySeq DEF Init, RankState, Cycle
<1>5. stats \in ChannelStats
  BY DEF Init, ChannelStats, Status, Cycle
<1>6. TypeOK
  BY <1>3, <1>4, <1>5, TopologyAssumption DEF Init, TypeOK, Cycle, Types
<1>7. SlotsBounded
  BY DEF Init, SlotsBounded, Bounded
<1>8. BusStartsAtZero
  BY DEF Init, BusStartsAtZero
<1>9. BudgetCloses
  BY DEF Init, BudgetCloses, Attributed, Causes
<1> QED
  BY <1>6, <1>7, <1>8, <1>9 DEF IInv

LEMMA AdmitInv ==
  ASSUME IInv, NEW cmd \in Requests, NEW ready \in Arrivals, TryAdmit(cmd, ready)
  PROVE  IInv'
<1> DEFINE entry == [bank |-> cmd.bank, row |-> cmd.row, type |-> cmd.type, bytes |-> cmd.bytes,
                     ready |-> ready, visible |-> Later(ready, last_col_start_cycle),
                     seq |-> next_seq, skip_count |-> 0]
<1>1. cmd \in Command /\ ready \in Nat
  BY CallerAssumption
<1>2. Later(ready, last_col_start_cycle) \in Nat
  BY <1>1 DEF Later, IInv, TypeOK, Cycle
<1>3. entry \in PendingCmd
  BY <1>1, <1>2 DEF PendingCmd, Command, IInv, TypeOK, Cycle
<1>4. pending' \subseteq PendingCmd
  BY <1>3 DEF TryAdmit, IInv, TypeOK
<1>5. next_seq' \in Nat /\ last_admitted_ready_cycle' \in Nat
  BY <1>1 DEF TryAdmit, Later, IInv, TypeOK, Cycle
<1>6. UNCHANGED <<banks, ranks, busVars, policyVars, stats, log>>
  BY DEF TryAdmit
<1> QED
  BY <1>4, <1>5, <1>6
  DEF IInv, TypeOK, SlotsBounded, BusStartsAtZero, BudgetCloses, Attributed, Cycle,
      busVars, policyVars

LEMMA DrainInv ==
  ASSUME IInv, DrainOne
  PROVE  IInv'
<1> DEFINE p == Pick
           t == Placement(p)
<1>1. TypeOK /\ SlotsBounded /\ p \in pending
  BY PickPending DEF IInv, DrainOne
<1> HIDE DEF p
<1>2. /\ t \in Placed /\ (t.ops.status # "Hit" => t.ops.act \in Nat)
      /\ t.ops.slots \cup {t.col} \in SUBSET Nat /\ Bounded(t.ops.slots \cup {t.col})
      /\ t.col >= t.wanted /\ t.wanted >= Synced(p).at
      /\ t.complete = t.col + CasCycles(p.type) + TransferCycles(p)
  BY <1>1, PlacementType
<1> HIDE DEF t
<1>3. Drain(p, t)
  BY DEF DrainOne, p, t
<1>4. p \in PendingCmd /\ p.bank \in Bank /\ p.type \in Types
  BY <1>1 DEF TypeOK, PendingCmd
<1>5. RankOf(p.bank) \in Ranks /\ GroupOf(p.bank) \in Groups
  BY <1>4 DEF Bank, RankOf, GroupOf
<1>6. t.col \in Nat /\ t.complete \in Nat /\ t.wanted \in Nat /\ t.ops \in Ops
  BY <1>2 DEF Placed
<1>7. pending' \subseteq PendingCmd
  <2>1. \A q \in PendingCmd : [q EXCEPT !.skip_count = q.skip_count + 1] \in PendingCmd
    BY DEF PendingCmd
  <2>2. pending' = {[q EXCEPT !.skip_count = q.skip_count + 1] : q \in pending \ {p}}
    BY <1>3 DEF Drain, Aged
  <2>3. \A q \in pending \ {p} : q \in PendingCmd
    BY <1>1 DEF TypeOK
  <2> QED
    BY <2>1, <2>2, <2>3
<1>8. banks' \in [Bank -> BankState]
  <2>1. \A b \in Bank : Refreshed(banks[b], t.ops.refresh.end) \in BankState
    BY <1>1, <1>6, RefreshedType DEF TypeOK, Ops, RefreshProgress
  <2>2. UsedBank(p, t) \in BankState
    BY <1>1, <1>2, UsedBankType
  <2> QED
    BY <1>1, <1>3, <2>1, <2>2 DEF Drain, BanksAfter, TypeOK
<1>9. ranks' \in [Ranks -> RankState]
  <2>1. t.ops.acts \in Seq(Nat) /\ t.ops.refresh.due \in Nat
    BY <1>6 DEF Ops, RefreshProgress
  <2> QED
    BY <1>1, <1>3, <1>5, <2>1 DEF Drain, RanksAfter, TypeOK, RankState, Cycle
<1>10. stats' \in ChannelStats
  BY <1>1, <1>2, <1>3, CountedType DEF Drain
<1>11. cmd_bus_slots' \in SUBSET Nat /\ SlotsBounded'
  BY <1>2, <1>3, PruneBounded DEF Drain, SlotsBounded
<1>12. /\ writes_in_batch' \in Nat /\ draining_writes' \in BOOLEAN
       /\ last_hit_bank' \in Bank \cup {NoBank} /\ consecutive_hit_count' \in Nat
  BY <1>1, <1>3, <1>4 DEF Drain, BatchCount, DrainsWrites, TypeOK
<1>13. /\ bus_free_cycle' \in Nat /\ last_bus_type' \in Types /\ bus_used' \in BOOLEAN
       /\ last_col_start_cycle' \in Nat /\ last_col_bankgroup' \in Groups
       /\ last_write_complete_cycle' \in Nat /\ last_write_bankgroup' \in Groups
       /\ had_write_cmd' \in BOOLEAN
       /\ next_seq' \in Nat /\ last_admitted_ready_cycle' \in Nat
  BY <1>1, <1>3, <1>4, <1>5, <1>6 DEF Drain, TypeOK, Cycle
<1>14. TypeOK'
  BY <1>7, <1>8, <1>9, <1>10, <1>11, <1>12, <1>13 DEF TypeOK, Cycle
<1>15. BusStartsAtZero'
  BY <1>3 DEF Drain, BusStartsAtZero
<1>16. BudgetCloses'
  <2> DEFINE c == Charge(p, t)
  <2>1. /\ Bubble(p, t) \in Nat /\ Pushed(t) \in Nat /\ c \in [Causes -> Nat]
        /\ c["refresh"] + c["row_miss"] + c["twtr"] + c["turnaround"]
             + c["tccd_l_excess"] + c["frontend_idle"] + c["other"]
           = Bubble(p, t) + Pushed(t)
    BY <1>1, <1>2, ChargeIsBubble
  <2>2. bus_free_cycle \in Nat /\ PrevEnd = bus_free_cycle
    BY <1>1 DEF IInv, BusStartsAtZero, PrevEnd, TypeOK, Cycle
  <2>3. CasCycles(p.type) \in Nat /\ TransferCycles(p) \in Nat
    BY <1>1, FloorsNat, TransferPositive
  <2>4. t.wanted + CasCycles(p.type) >= bus_free_cycle
    <3>1. Synced(p).at \in Nat /\ Synced(p).at >= ColumnFloor(p) /\ ColumnFloor(p) \in Nat
      BY <1>1, SyncedType, FloorsNat DEF RefreshProgress
    <3>2. bus_used => ColumnFloor(p) + CasCycles(p.type) >= bus_free_cycle
      BY <1>1, FloorsNat
    <3> QED
      BY <1>2, <1>6, <2>2, <2>3, <3>1, <3>2 DEF IInv, BusStartsAtZero
  <2>5. t.complete = bus_free_cycle + TransferCycles(p) + Bubble(p, t) + Pushed(t)
    BY <1>2, <1>6, <2>2, <2>3, <2>4 DEF Bubble, Pushed, Monus
  <2>6. /\ stats'.busy_cycles = stats.busy_cycles + TransferCycles(p)
        /\ stats'.last_data_end_cycle = t.complete
        /\ stats'.attr = [x \in Causes |-> stats.attr[x] + c[x]]
        /\ bus_free_cycle' = t.complete
    BY <1>3 DEF Drain, Counted
  <2>7. stats.attr \in [Causes -> Nat] /\ stats.busy_cycles \in Nat
    BY <1>1 DEF TypeOK, ChannelStats
  <2> HIDE DEF c
  <2>8. Attributed' = Attributed + (c["refresh"] + c["row_miss"] + c["twtr"] + c["turnaround"]
                        + c["tccd_l_excess"] + c["frontend_idle"] + c["other"])
    BY <2>1, <2>6, <2>7 DEF Attributed, Causes
  <2>9. Attributed \in Nat
    BY <2>7 DEF Attributed, Causes
  <2> QED
    BY <2>1, <2>2, <2>3, <2>5, <2>6, <2>7, <2>8, <2>9 DEF IInv, BudgetCloses
<1> QED
  BY <1>11, <1>14, <1>15, <1>16 DEF IInv

LEMMA NextInv == IInv /\ [Next]_vars => IInv'
<1> SUFFICES ASSUME IInv, [Next]_vars PROVE IInv'
  OBVIOUS
<1>1. CASE \E cmd \in Requests, ready \in Arrivals : Submit(cmd, ready)
  BY <1>1, AdmitInv DEF Submit
<1>2. CASE DrainOne
  BY <1>2, DrainInv
<1>3. CASE UNCHANGED vars
  BY <1>3 DEF vars, queueVars, busVars, policyVars, IInv, TypeOK, SlotsBounded,
              BusStartsAtZero, BudgetCloses, Attributed
<1> QED
  BY <1>1, <1>2, <1>3 DEF Next

LEMMA SpecInv == Spec => []IInv
BY InitInv, NextInv, PTL DEF Spec

-----------------------------------------------------------------------------
(* Every member of the scheduler keeps its type whatever is admitted and
   drained: no unsigned cycle arithmetic of drain_one wraps, and its searches
   always find a command and a slot. *)
THEOREM TypeCorrect == Spec => []TypeOK
<1>1. IInv => TypeOK
  BY DEF IInv
<1> QED
  BY <1>1, SpecInv, PTL

(* The bus-time attribution of drain_one is a closed budget: busy and charged
   cycles add up to the end of the last data burst, for every configuration. *)
THEOREM BudgetAlwaysCloses == Spec => []BudgetCloses
<1>1. IInv => BudgetCloses
  BY DEF IInv
<1> QED
  BY <1>1, SpecInv, PTL

-----------------------------------------------------------------------------
(***************************************************************************)
(* The log.                                                                *)
(***************************************************************************)
LogEntry ==
  [seq : Nat, bank : Bank, row : Rows, type : Types, ready : Nat, visible : Nat,
   decided : Nat, status : Status, pre : Nat \cup {NoCycle}, act : Nat \cup {NoCycle},
   col : Nat, data : Nat, complete : Nat, peeked_hit : BOOLEAN, starved : BOOLEAN,
   alternative : BOOLEAN, writes_queued : Nat, writes_arrived : Nat]

LogTyped == log \in Seq(LogEntry) /\ IsFiniteSet(pending)

LEMMA EntryTyped ==
  ASSUME IInv, LogTyped, NEW p \in pending
  PROVE  Entry(p, Placement(p)) \in LogEntry
<1> DEFINE t == Placement(p)
<1>1. TypeOK /\ SlotsBounded /\ IsFiniteSet(pending) /\ pending # {}
  BY DEF IInv, LogTyped
<1>2. t \in Placed
  BY <1>1, PlacementType
<1> HIDE DEF t
<1>3. p \in PendingCmd /\ DecisionCycle \in Nat
  BY <1>1, SomeArrived DEF TypeOK
<1>4. /\ Cardinality({q \in pending : q.type = "Write"}) \in Nat
      /\ Cardinality({q \in Arrived : q.type = "Write"}) \in Nat
  <2>1. \A S \in SUBSET pending : Cardinality(S) \in Nat
    BY <1>1, FS_Subset, FS_CardinalityType
  <2>2. {q \in Arrived : q.type = "Write"} \in SUBSET pending
    BY DEF Arrived
  <2> QED
    BY <2>1, <2>2
<1>5. /\ t.ops.status \in Status /\ t.ops.pre \in Nat \cup {NoCycle}
      /\ t.ops.act \in Nat \cup {NoCycle}
      /\ t.col \in Nat /\ t.data \in Nat /\ t.complete \in Nat
  BY <1>2 DEF Placed, Ops
<1>6. Entry(p, t) \in LogEntry
  BY <1>3, <1>4, <1>5 DEF Entry, LogEntry, PendingCmd, Cycle
<1> QED
  BY <1>6 DEF t

(* A drain places the commands of the one it picks, and logs them last. *)
Logs(p) ==
  /\ p = Pick /\ Drain(p, Placement(p))
  /\ log' \in Seq(LogEntry)
  /\ Len(log) \in Nat /\ DOMAIN log = 1 .. Len(log)
  /\ Len(log') = Len(log) + 1 /\ DOMAIN log' = 1 .. Len(log) + 1
  /\ \A i \in DOMAIN log : log'[i] = log[i] /\ log[i] \in LogEntry
  /\ log'[Len(log) + 1] = Entry(p, Placement(p))

LEMMA DrainLogs ==
  ASSUME IInv, LogTyped, DrainOne
  PROVE  Pick \in pending /\ Logs(Pick)
<1> DEFINE e == Entry(Pick, Placement(Pick))
<1>1. Pick \in pending
  BY PickPending DEF IInv, DrainOne
<1>2. e \in LogEntry
  BY <1>1, EntryTyped
<1>3. Drain(Pick, Placement(Pick)) /\ log' = Append(log, e)
  BY DEF DrainOne, Drain
<1> HIDE DEF e
<1>4. log \in Seq(LogEntry)
  BY DEF LogTyped
<1>5. /\ Append(log, e) \in Seq(LogEntry) /\ Len(Append(log, e)) = Len(log) + 1
      /\ \A i \in 1 .. Len(log) : Append(log, e)[i] = log[i]
      /\ Append(log, e)[Len(log) + 1] = e
  BY <1>2, <1>4, AppendProperties
<1>6. /\ Len(log) \in Nat /\ DOMAIN log = 1 .. Len(log)
      /\ DOMAIN log' = 1 .. Len(log')
      /\ \A i \in DOMAIN log : log[i] \in LogEntry
  BY <1>3, <1>4, <1>5, LenProperties
<1> QED
  BY <1>1, <1>3, <1>5, <1>6 DEF Logs, e

LEMMA LogTypedStep ==
  ASSUME IInv, LogTyped, Next
  PROVE  LogTyped'
<1>1. ASSUME NEW cmd \in Requests, NEW ready \in Arrivals, Submit(cmd, ready) PROVE LogTyped'
  BY <1>1, FS_AddElement DEF Submit, TryAdmit, LogTyped
<1>2. ASSUME DrainOne PROVE LogTyped'
  <2>1. Logs(Pick)
    BY <1>2, DrainLogs
  <2>2. pending' = {[q EXCEPT !.skip_count = @ + 1] : q \in pending \ {Pick}}
    BY <2>1 DEF Logs, Drain, Aged
  <2>3. IsFiniteSet(pending \ {Pick})
    BY FS_Subset DEF LogTyped
  <2>4. IsFiniteSet(pending')
    <3> DEFINE older == [q \in pending \ {Pick} |-> [q EXCEPT !.skip_count = @ + 1]]
    <3>1. pending' = {older[q] : q \in pending \ {Pick}}
      BY <2>2
    <3>2. older \in Surjection(pending \ {Pick}, pending')
      BY <3>1 DEF Surjection
    <3> HIDE DEF older
    <3> QED
      BY <2>3, <3>2, FS_Surjection
  <2> QED
    BY <2>1, <2>4 DEF Logs, LogTyped
<1> QED
  BY <1>1, <1>2 DEF Next

-----------------------------------------------------------------------------
(***************************************************************************)
(* Arbitration.                                                            *)
(***************************************************************************)
(* Sequence numbers count admissions, and an older command has been passed over
   at least as often as a younger one. *)
SeqsCount ==
  /\ \A p \in pending : p.seq < next_seq
  /\ \A p, q \in pending : p.seq = q.seq => p = q
  /\ \A p, q \in pending : p.seq < q.seq => p.skip_count >= q.skip_count
  /\ \A i \in DOMAIN log : log[i].seq < next_seq
  /\ \A i \in DOMAIN log, p \in pending : log[i].seq # p.seq

OrderInv == IInv /\ LogTyped /\ SeqsCount

(* A starved command is only passed over for an older one. *)
LEMMA StarvedGoFirst ==
  ASSUME TypeOK, pending # {}, NEW p \in Starved
  PROVE  Pick.seq <= p.seq
BY PickOldest DEF Contenders

LEMMA ArrivedAreEligible ==
  ASSUME NEW p \in Eligible, NEW q \in Arrived, q.type = p.type
  PROVE  q \in Eligible
BY DEF Eligible

(* Whoever is left waiting by a drain is there as it was, one selection older. *)
LEMMA LeftWaiting ==
  ASSUME IInv, DrainOne, NEW q \in pending'
  PROVE  \E o \in pending \ {Pick} :
           /\ o \in PendingCmd /\ q = [o EXCEPT !.skip_count = o.skip_count + 1]
           /\ q.skip_count = o.skip_count + 1 /\ q.seq = o.seq /\ q.ready = o.ready
           /\ q.visible = o.visible /\ q.bank = o.bank /\ q.row = o.row /\ q.type = o.type
<1>1. pending' = {[o EXCEPT !.skip_count = o.skip_count + 1] : o \in pending \ {Pick}}
  BY DEF DrainOne, Drain, Aged
<1>2. PICK o \in pending \ {Pick} : q = [o EXCEPT !.skip_count = o.skip_count + 1]
  BY <1>1
<1>3. o \in PendingCmd
  BY DEF IInv, TypeOK
<1> QED
  BY <1>2, <1>3 DEF PendingCmd

(* A command admitted is the youngest, and so far nobody was preferred to it. *)
LEMMA AdmittedLast ==
  ASSUME IInv, NEW cmd \in Requests, NEW ready \in Arrivals, Submit(cmd, ready),
         NEW q \in pending', q \notin pending
  PROVE  q.seq = next_seq /\ q.skip_count = 0 /\ q.ready = ready
<1> DEFINE entry == [bank |-> cmd.bank, row |-> cmd.row, type |-> cmd.type, bytes |-> cmd.bytes,
                     ready |-> ready, visible |-> Later(ready, last_col_start_cycle),
                     seq |-> next_seq, skip_count |-> 0]
<1>1. pending' = pending \cup {entry}
  BY DEF Submit, TryAdmit
<1>2. q = entry
  BY <1>1
<1> QED
  BY <1>2

LEMMA AdmitCounts ==
  ASSUME OrderInv, NEW cmd \in Requests, NEW ready \in Arrivals, Submit(cmd, ready)
  PROVE  SeqsCount'
<1>1. /\ next_seq \in Nat /\ next_seq' = next_seq + 1 /\ log' = log
      /\ \A p \in pending : p.seq \in Nat /\ p.skip_count \in Nat /\ p.seq < next_seq
  BY DEF OrderInv, IInv, TypeOK, PendingCmd, Submit, TryAdmit, SeqsCount
<1>2. \A q \in pending' : q \in pending \/ (q.seq = next_seq /\ q.skip_count = 0)
  <2>1. IInv
    BY DEF OrderInv
  <2> TAKE q \in pending'
  <2>2. CASE q \in pending
    BY <2>2
  <2>3. CASE q \notin pending
    BY <2>1, <2>3, AdmittedLast
  <2> QED
    BY <2>2, <2>3
<1>3. \A p, q \in pending' : p \notin pending /\ q \notin pending => p = q
  BY DEF Submit, TryAdmit
<1>4. \A i \in DOMAIN log : log[i].seq \in Nat
  <2>1. \A i \in DOMAIN log : log[i] \in LogEntry
    BY LenProperties DEF OrderInv, LogTyped
  <2> QED
    BY <2>1 DEF LogEntry
<1> QED
  BY <1>1, <1>2, <1>3, <1>4, SMTT(30) DEF OrderInv, SeqsCount

LEMMA DrainCounts ==
  ASSUME OrderInv, DrainOne
  PROVE  SeqsCount'
<1> DEFINE n == Len(log)
<1>1. Pick \in pending /\ Logs(Pick)
  BY DrainLogs DEF OrderInv
<1>2. /\ n \in Nat /\ DOMAIN log' = 1 .. n + 1 /\ DOMAIN log = 1 .. n
      /\ \A i \in 1 .. n : log'[i] = log[i]
      /\ log'[n + 1].seq = Pick.seq
  BY <1>1 DEF Logs, Entry
<1>3. next_seq' = next_seq
  BY DEF DrainOne, Drain
<1>4. \A q \in pending' : \E o \in pending \ {Pick} :
        q = [o EXCEPT !.skip_count = o.skip_count + 1]
        /\ q.seq = o.seq /\ q.skip_count = o.skip_count + 1
  BY LeftWaiting DEF OrderInv
<1>5. \A p \in pending : p.skip_count \in Nat /\ p.seq \in Nat
  BY DEF OrderInv, IInv, TypeOK, PendingCmd
<1> HIDE DEF n
<1>6. \A q \in pending' : q.seq < next_seq'
  BY <1>3, <1>4 DEF OrderInv, SeqsCount
<1>7. \A p, q \in pending' : p.seq = q.seq => p = q
  BY <1>4 DEF OrderInv, SeqsCount
<1>8. \A p, q \in pending' : p.seq < q.seq => p.skip_count >= q.skip_count
  <2> TAKE p \in pending', q \in pending'
  <2>1. PICK x \in pending : p.seq = x.seq /\ p.skip_count = x.skip_count + 1
    BY <1>4
  <2>2. PICK y \in pending : q.seq = y.seq /\ q.skip_count = y.skip_count + 1
    BY <1>4
  <2> QED
    BY <1>5, <2>1, <2>2 DEF OrderInv, SeqsCount
<1>9. \A i \in DOMAIN log' : log'[i].seq < next_seq'
  BY <1>1, <1>2, <1>3 DEF OrderInv, SeqsCount
<1>10. \A i \in DOMAIN log', p \in pending' : log'[i].seq # p.seq
  BY <1>1, <1>2, <1>4 DEF OrderInv, SeqsCount
<1> QED
  BY <1>6, <1>7, <1>8, <1>9, <1>10 DEF SeqsCount

LEMMA OrderInitially == Init => OrderInv
<1> SUFFICES ASSUME Init PROVE OrderInv
  OBVIOUS
<1>1. pending = {} /\ log = <<>>
  BY DEF Init
<1>2. LogTyped /\ SeqsCount
  BY <1>1, FS_EmptySet, EmptySeq DEF LogTyped, SeqsCount
<1> QED
  BY <1>2, InitInv DEF OrderInv

LEMMA OrderKept == OrderInv /\ [Next]_vars => OrderInv'
<1> SUFFICES ASSUME OrderInv, [Next]_vars PROVE OrderInv'
  OBVIOUS
<1>1. IInv'
  BY NextInv DEF OrderInv
<1>2. CASE Next
  <2>1. LogTyped'
    BY <1>2, LogTypedStep DEF OrderInv
  <2>2. SeqsCount'
    BY <1>2, AdmitCounts, DrainCounts DEF Next
  <2> QED
    BY <1>1, <2>1, <2>2 DEF OrderInv
<1>3. CASE UNCHANGED vars
  BY <1>1, <1>3 DEF OrderInv, LogTyped, SeqsCount, vars, queueVars
<1> QED
  BY <1>2, <1>3

-----------------------------------------------------------------------------
(***************************************************************************)
(* Starvation.                                                             *)
(***************************************************************************)
(* Whoever was preferred to p made p one selection older. *)
OvertakersSkip ==
  \A p \in pending : Overtaken(p, Len(log)) <= p.skip_count

OvertakingInv == OrderInv /\ OvertakersSkip /\ BoundedOvertaking

(* The drains among the first n of a history that preferred a younger command
   to one with this seq, ready from this cycle on. *)
Overtakers(history, seq, ready, n) ==
  {k \in 1 .. n : history[k].seq > seq /\ history[k].decided >= ready}

LEMMA OvertakersFinite ==
  ASSUME NEW history, NEW seq, NEW ready, NEW n \in Nat
  PROVE  /\ IsFiniteSet(Overtakers(history, seq, ready, n))
         /\ Cardinality(Overtakers(history, seq, ready, n)) \in Nat
<1>1. IsFiniteSet(1 .. n)
  BY FS_Interval
<1>2. Overtakers(history, seq, ready, n) \subseteq 1 .. n
  BY DEF Overtakers
<1> QED
  BY <1>1, <1>2, FS_Subset, FS_CardinalityType

(* A drain overtakes o only if it prefers a younger command to o, arrived and
   not starved. *)
LEMMA DrainOvertakes ==
  ASSUME OrderInv, DrainOne, NEW o \in pending
  PROVE  LET n == Len(log)
             before == Overtakers(log, o.seq, o.ready, n)
             after  == Overtakers(log', o.seq, o.ready, n + 1)
         IN  \/ after = before
             \/ after = before \cup {n + 1} /\ o.skip_count < StarvationLimit
<1> DEFINE n == Len(log)
           before == Overtakers(log, o.seq, o.ready, n)
           after  == Overtakers(log', o.seq, o.ready, n + 1)
<1>1. Pick \in pending /\ Logs(Pick)
  BY DrainLogs DEF OrderInv
<1>2. /\ n \in Nat /\ \A i \in 1 .. n : log'[i] = log[i]
      /\ log'[n + 1].seq = Pick.seq /\ log'[n + 1].decided = DecisionCycle
  BY <1>1 DEF Logs, Entry
<1>3. TypeOK /\ pending # {} /\ DecisionCycle \in Nat
  BY SomeArrived DEF OrderInv, IInv, DrainOne
<1>4. /\ o.seq \in Nat /\ o.ready \in Nat /\ o.skip_count \in Nat /\ Pick.seq \in Nat
  BY <1>1, <1>3 DEF TypeOK, PendingCmd, Cycle
<1> HIDE DEF n
<1>5. CASE Pick.seq > o.seq /\ DecisionCycle >= o.ready
  <2>1. after = before \cup {n + 1}
    BY <1>2, <1>5 DEF Overtakers
  <2>2. o \in Arrived
    BY <1>3, <1>4, <1>5 DEF Arrived
  <2>3. o \notin Starved
    BY <1>3, <1>4, <1>5, StarvedGoFirst
  <2>4. o.skip_count < StarvationLimit
    BY <1>4, <2>2, <2>3, PolicyAssumption DEF Starved
  <2> QED
    BY <2>1, <2>4 DEF n
<1>6. CASE ~ (Pick.seq > o.seq /\ DecisionCycle >= o.ready)
  <2>1. after = before
    BY <1>2, <1>6 DEF Overtakers
  <2> QED
    BY <2>1 DEF n
<1> QED
  BY <1>5, <1>6

LEMMA OvertakingDrain ==
  ASSUME OvertakingInv, DrainOne
  PROVE  OvertakersSkip' /\ BoundedOvertaking'
<1> DEFINE n == Len(log)
<1>1. /\ OrderInv /\ IInv /\ Pick \in pending /\ Logs(Pick)
      /\ StarvationLimit \in Nat
  BY DrainLogs, PolicyAssumption DEF OvertakingInv, OrderInv
<1>2. /\ n \in Nat /\ DOMAIN log = 1 .. n /\ DOMAIN log' = 1 .. n + 1 /\ Len(log') = n + 1
      /\ \A i \in 1 .. n : log'[i] = log[i]
      /\ log'[n + 1].seq = Pick.seq /\ log'[n + 1].ready = Pick.ready
  BY <1>1 DEF Logs, Entry
<1>3. \A o \in pending : /\ o.skip_count \in Nat
                         /\ Cardinality(Overtakers(log, o.seq, o.ready, n)) <= o.skip_count
                         /\ Cardinality(Overtakers(log, o.seq, o.ready, n)) <= StarvationLimit
  BY <1>1 DEF OvertakingInv, OvertakersSkip, BoundedOvertaking, Overtaken, Overtakers,
              IInv, TypeOK, PendingCmd
<1> HIDE DEF n
<1>4. ASSUME NEW o \in pending
      PROVE  /\ Cardinality(Overtakers(log', o.seq, o.ready, n + 1)) <= o.skip_count + 1
             /\ Cardinality(Overtakers(log', o.seq, o.ready, n + 1)) <= StarvationLimit
  <2> DEFINE before == Overtakers(log, o.seq, o.ready, n)
             after  == Overtakers(log', o.seq, o.ready, n + 1)
  <2>1. \/ after = before
        \/ after = before \cup {n + 1} /\ o.skip_count < StarvationLimit
    BY <1>1, DrainOvertakes DEF n
  <2>2. IsFiniteSet(before) /\ Cardinality(before) \in Nat
    BY <1>2, OvertakersFinite
  <2>3. Cardinality(before) <= o.skip_count /\ Cardinality(before) <= StarvationLimit
        /\ o.skip_count \in Nat
    BY <1>3
  <2> HIDE DEF before, after
  <2> DEFINE more == Cardinality(before \cup {n + 1})
  <2>4. more = IF n + 1 \in before THEN Cardinality(before) ELSE Cardinality(before) + 1
    BY <2>2, FS_AddElement
  <2>5. more \in Nat /\ more <= Cardinality(before) + 1
    BY <2>2, <2>4
  <2>6. ASSUME after = before
        PROVE  Cardinality(after) <= o.skip_count + 1 /\ Cardinality(after) <= StarvationLimit
    BY <1>1, <2>2, <2>3, <2>6
  <2>7. ASSUME after = before \cup {n + 1}, o.skip_count < StarvationLimit
        PROVE  Cardinality(after) <= o.skip_count + 1 /\ Cardinality(after) <= StarvationLimit
    <3>1. Cardinality(after) = more
      BY <2>7
    <3> HIDE DEF more
    <3> QED
      BY <1>1, <2>2, <2>3, <2>5, <2>7, <3>1
  <2> QED
    BY <2>1, <2>6, <2>7 DEF after
<1>5. ASSUME NEW q \in pending'
      PROVE  /\ Cardinality(Overtakers(log', q.seq, q.ready, n + 1)) <= q.skip_count
             /\ Cardinality(Overtakers(log', q.seq, q.ready, n + 1)) <= StarvationLimit
  <2>1. PICK o \in pending : /\ q.skip_count = o.skip_count + 1
                             /\ q.seq = o.seq /\ q.ready = o.ready
    BY <1>1, LeftWaiting
  <2> QED
    BY <1>4, <2>1
<1>6. ASSUME NEW i \in 1 .. n + 1
      PROVE  Cardinality(Overtakers(log', log'[i].seq, log'[i].ready, i - 1)) <= StarvationLimit
  <2>1. CASE i \in 1 .. n
    <3>1. Overtakers(log', log'[i].seq, log'[i].ready, i - 1)
            = Overtakers(log, log[i].seq, log[i].ready, i - 1)
      BY <1>2, <2>1 DEF Overtakers
    <3>2. Cardinality(Overtakers(log, log[i].seq, log[i].ready, i - 1)) <= StarvationLimit
      BY <1>2, <2>1 DEF OvertakingInv, BoundedOvertaking, Overtaken, Overtakers
    <3> QED
      BY <3>1, <3>2
  <2>2. CASE i = n + 1
    <3>1. i - 1 = n
      BY <1>2, <2>2
    <3>2. Overtakers(log', Pick.seq, Pick.ready, n) = Overtakers(log, Pick.seq, Pick.ready, n)
      BY <1>2 DEF Overtakers
    <3> QED
      BY <1>1, <1>2, <1>3, <2>2, <3>1, <3>2
  <2> QED
    BY <1>2, <2>1, <2>2
<1>7. OvertakersSkip'
  BY <1>2, <1>5 DEF OvertakersSkip, Overtaken, Overtakers
<1>8. BoundedOvertaking'
  BY <1>2, <1>5, <1>6 DEF BoundedOvertaking, Overtaken, Overtakers
<1> QED
  BY <1>7, <1>8

LEMMA OvertakingAdmit ==
  ASSUME OvertakingInv, NEW cmd \in Requests, NEW ready \in Arrivals, Submit(cmd, ready)
  PROVE  OvertakersSkip' /\ BoundedOvertaking'
<1> DEFINE n == Len(log)
<1>1. /\ IInv /\ SeqsCount /\ log' = log /\ next_seq \in Nat
      /\ StarvationLimit \in Nat /\ n \in Nat /\ DOMAIN log = 1 .. n
  BY PolicyAssumption, LenProperties
  DEF OvertakingInv, OrderInv, LogTyped, IInv, TypeOK, Submit, TryAdmit
<1>2. \A i \in 1 .. n : log[i].seq \in Nat /\ log[i].seq < next_seq
  <2>1. \A i \in 1 .. n : log[i] \in LogEntry
    BY LenProperties DEF OvertakingInv, OrderInv, LogTyped
  <2> QED
    BY <1>1, <2>1 DEF SeqsCount, LogEntry
<1>3. ASSUME NEW q \in pending'
      PROVE  /\ Cardinality(Overtakers(log, q.seq, q.ready, n)) <= q.skip_count
             /\ Cardinality(Overtakers(log, q.seq, q.ready, n)) <= StarvationLimit
  <2>1. CASE q \in pending
    BY <1>1, <2>1 DEF OvertakingInv, OvertakersSkip, BoundedOvertaking, Overtaken, Overtakers
  <2>2. CASE q \notin pending
    <3>1. q.seq = next_seq /\ q.skip_count = 0
      BY <1>1, <2>2, AdmittedLast
    <3>2. Overtakers(log, q.seq, q.ready, n) = {}
      BY <1>1, <1>2, <3>1 DEF Overtakers
    <3> QED
      BY <1>1, <3>1, <3>2, FS_EmptySet
  <2> QED
    BY <2>1, <2>2
<1>4. OvertakersSkip'
  BY <1>1, <1>3 DEF OvertakersSkip, Overtaken, Overtakers
<1>5. BoundedOvertaking'
  BY <1>1, <1>3 DEF OvertakingInv, BoundedOvertaking, Overtaken, Overtakers
<1> QED
  BY <1>4, <1>5

LEMMA OvertakingStep == OvertakingInv /\ [Next]_vars => OvertakingInv'
<1> SUFFICES ASSUME OvertakingInv, [Next]_vars PROVE OvertakingInv'
  OBVIOUS
<1>1. OrderInv'
  BY OrderKept DEF OvertakingInv
<1>2. CASE Next
  BY <1>1, <1>2, OvertakingAdmit, OvertakingDrain DEF Next, OvertakingInv
<1>3. CASE UNCHANGED vars
  BY <1>1, <1>3 DEF OvertakingInv, OvertakersSkip, BoundedOvertaking, Overtaken,
                    vars, queueVars
<1> QED
  BY <1>2, <1>3

LEMMA OvertakingInit == Init => OvertakingInv
<1> SUFFICES ASSUME Init PROVE OvertakingInv
  OBVIOUS
<1>1. pending = {} /\ log = <<>>
  BY DEF Init
<1> QED
  BY <1>1, OrderInitially DEF OvertakingInv, OvertakersSkip, BoundedOvertaking

(* kStarvationLimit bounds waiting whatever the page, direction and batch
   policies prefer: once a command has arrived, at most StarvationLimit younger
   commands are served before it, in every queue of every depth. *)
THEOREM StarvationBounded == Spec => []BoundedOvertaking
<1>1. OvertakingInv => BoundedOvertaking
  BY DEF OvertakingInv
<1> QED
  BY <1>1, OvertakingInit, OvertakingStep, PTL DEF Spec

-----------------------------------------------------------------------------
(***************************************************************************)
(* Order within a row.                                                     *)
(***************************************************************************)
SameRow(p, q) == <<p.bank, p.row, p.type>> = <<q.bank, q.row, q.type>>

(* Nobody waiting was passed over for a later command to the same row. *)
WaitingInOrder ==
  \A i \in DOMAIN log, p \in pending :
    SameRow(log[i], p) => log[i].seq < p.seq \/ log[i].ready < p.ready

RowOrderInv == OrderInv /\ WaitingInOrder /\ SameRowInOrder

(* A command is not picked while an older one to its row, ready as early, waits. *)
LEMMA PickRowOldest ==
  ASSUME OrderInv, pending # {}, NEW o \in pending, o # Pick, SameRow(Pick, o)
  PROVE  Pick.seq < o.seq \/ Pick.ready < o.ready
<1>1. TypeOK /\ SeqsCount
  BY DEF OrderInv, IInv
<1>2. Pick \in Contenders /\ Pick \in pending /\ \A q \in Contenders : Pick.seq <= q.seq
  BY <1>1, PickOldest, PickPending
<1>3. /\ Pick.seq \in Nat /\ o.seq \in Nat /\ Pick.ready \in Nat /\ o.ready \in Nat
      /\ Pick.skip_count \in Nat /\ o.skip_count \in Nat /\ DecisionCycle \in Nat
  BY <1>1, <1>2, SomeArrived DEF TypeOK, PendingCmd, Cycle
<1> SUFFICES ASSUME o.seq <= Pick.seq, o.ready <= Pick.ready PROVE FALSE
  BY <1>3
<1>4. o.seq < Pick.seq
  BY <1>1, <1>2, <1>3 DEF SeqsCount
<1>5. o.skip_count >= Pick.skip_count
  BY <1>1, <1>2, <1>4 DEF SeqsCount
<1>6. Pick \in Arrived
  BY <1>2 DEF Contenders, Starved, Eligible
<1>7. o \in Arrived
  BY <1>3, <1>6 DEF Arrived
<1>8. o.bank = Pick.bank /\ o.row = Pick.row /\ o.type = Pick.type
  BY DEF SameRow
<1>9. CASE Starved # {}
  <2>1. Pick.skip_count >= StarvationLimit
    BY <1>2, <1>9 DEF Contenders, Starved
  <2>2. o.skip_count >= StarvationLimit
    BY <1>3, <1>5, <2>1, PolicyAssumption
  <2>3. o \in Contenders
    BY <1>7, <1>9, <2>2 DEF Contenders, Starved
  <2> QED
    BY <1>2, <1>3, <1>4, <2>3
<1>10. CASE Starved = {}
  <2>1. Pick \in Eligible /\ Pick \notin MustYield
    BY <1>2, <1>10 DEF Contenders
  <2>2. \A q \in Eligible \ MustYield : Priority(Pick) <= Priority(q)
    BY <1>2, <1>10 DEF Contenders
  <2>3. Priority(o) = Priority(Pick)
    BY <1>8 DEF Priority
  <2>4. o \in Eligible
    BY <1>7, <1>8, <2>1, ArrivedAreEligible
  <2>5. o \notin MustYield
    BY <1>8, <2>1, <2>3 DEF MustYield
  <2>6. o \in Contenders
    BY <1>10, <2>2, <2>3, <2>4, <2>5 DEF Contenders
  <2> QED
    BY <1>2, <1>3, <1>4, <2>6
<1> QED
  BY <1>9, <1>10

LEMMA RowOrderDrain ==
  ASSUME RowOrderInv, DrainOne
  PROVE  WaitingInOrder' /\ SameRowInOrder'
<1> DEFINE n == Len(log)
<1>1. OrderInv /\ IInv /\ WaitingInOrder /\ SameRowInOrder /\ Pick \in pending /\ Logs(Pick)
  BY DrainLogs DEF RowOrderInv, OrderInv
<1>2. /\ n \in Nat /\ DOMAIN log = 1 .. n /\ DOMAIN log' = 1 .. n + 1
      /\ \A i \in 1 .. n : log'[i] = log[i]
      /\ SameRow(log'[n + 1], Pick)
      /\ log'[n + 1].seq = Pick.seq /\ log'[n + 1].ready = Pick.ready
  BY <1>1 DEF Logs, Entry, SameRow
<1> HIDE DEF n
<1>3. ASSUME NEW i \in 1 .. n, NEW o \in pending, SameRow(log[i], o)
      PROVE  log[i].seq < o.seq \/ log[i].ready < o.ready
  BY <1>1, <1>2, <1>3 DEF WaitingInOrder
<1>4. ASSUME NEW i \in 1 .. n + 1, NEW q \in pending', SameRow(log'[i], q)
      PROVE  log'[i].seq < q.seq \/ log'[i].ready < q.ready
  <2>1. PICK o \in pending \ {Pick} : /\ q.seq = o.seq /\ q.ready = o.ready
                                      /\ q.bank = o.bank /\ q.row = o.row /\ q.type = o.type
    BY <1>1, LeftWaiting
  <2>2. CASE i \in 1 .. n
    BY <1>2, <1>3, <1>4, <2>1, <2>2 DEF SameRow
  <2>3. CASE i = n + 1
    BY <1>1, <1>2, <1>4, <2>1, <2>3, PickRowOldest DEF SameRow
  <2> QED
    BY <1>2, <2>2, <2>3
<1>5. ASSUME NEW i \in 1 .. n + 1, NEW j \in 1 .. n + 1, i < j, SameRow(log'[i], log'[j])
      PROVE  log'[i].seq < log'[j].seq \/ log'[i].ready < log'[j].ready
  <2>1. i \in 1 .. n
    BY <1>2, <1>5
  <2>2. CASE j \in 1 .. n
    BY <1>1, <1>2, <1>5, <2>1, <2>2 DEF SameRowInOrder, SameRow
  <2>3. CASE j = n + 1
    BY <1>1, <1>2, <1>3, <1>5, <2>1, <2>3 DEF SameRow
  <2> QED
    BY <1>2, <2>2, <2>3
<1>6. WaitingInOrder'
  BY <1>2, <1>4 DEF WaitingInOrder, SameRow
<1>7. SameRowInOrder'
  BY <1>2, <1>5 DEF SameRowInOrder, SameRow
<1> QED
  BY <1>6, <1>7

LEMMA RowOrderStep == RowOrderInv /\ [Next]_vars => RowOrderInv'
<1> SUFFICES ASSUME RowOrderInv, [Next]_vars PROVE RowOrderInv'
  OBVIOUS
<1>1. OrderInv'
  BY OrderKept DEF RowOrderInv
<1>2. ASSUME NEW cmd \in Requests, NEW ready \in Arrivals, Submit(cmd, ready)
      PROVE  WaitingInOrder' /\ SameRowInOrder'
  <2>1. log' = log /\ IInv /\ SeqsCount /\ WaitingInOrder /\ SameRowInOrder
    BY <1>2 DEF RowOrderInv, OrderInv, Submit, TryAdmit
  <2>2. ASSUME NEW q \in pending', NEW i \in DOMAIN log, SameRow(log[i], q)
        PROVE  log[i].seq < q.seq \/ log[i].ready < q.ready
    <3>1. CASE q \in pending
      BY <2>1, <2>2, <3>1 DEF WaitingInOrder
    <3>2. CASE q \notin pending
      <4>1. q.seq = next_seq
        BY <1>2, <2>1, <3>2, AdmittedLast
      <4> QED
        BY <2>1, <4>1 DEF SeqsCount
    <3> QED
      BY <3>1, <3>2
  <2> QED
    BY <2>1, <2>2 DEF WaitingInOrder, SameRowInOrder, SameRow
<1>3. CASE Next
  BY <1>1, <1>2, <1>3, RowOrderDrain DEF Next, RowOrderInv
<1>4. CASE UNCHANGED vars
  BY <1>1, <1>4 DEF RowOrderInv, WaitingInOrder, SameRowInOrder, SameRow, vars, queueVars
<1> QED
  BY <1>3, <1>4

LEMMA RowOrderInit == Init => RowOrderInv
<1> SUFFICES ASSUME Init PROVE RowOrderInv
  OBVIOUS
<1>1. pending = {} /\ log = <<>>
  BY DEF Init
<1> QED
  BY <1>1, OrderInitially DEF RowOrderInv, WaitingInOrder, SameRowInOrder

(* However the queue is reordered for page hits, direction and starvation, two
   accesses of one type to one row are served in the order they were admitted,
   unless the one admitted later was ready earlier. *)
THEOREM RowsServedInOrder == Spec => []SameRowInOrder
<1>1. RowOrderInv => SameRowInOrder
  BY DEF RowOrderInv
<1> QED
  BY <1>1, RowOrderInit, RowOrderStep, PTL DEF Spec

-----------------------------------------------------------------------------
(***************************************************************************)
(* Page-match streaks.                                                     *)
(***************************************************************************)
(* Drains i to n of a history all peeked hits on the bank of drain i. *)
Streak(history, i, n) ==
  \A k \in i .. n : history[k].peeked_hit /\ history[k].bank = history[i].bank

(* A streak that still goes on has been counted. *)
StreakCounted ==
  \A i \in DOMAIN log : Streak(log, i, Len(log)) =>
    last_hit_bank = log[i].bank /\ consecutive_hit_count >= Len(log) - i + 1

StreakInv == OrderInv /\ StreakCounted /\ PagematchCapped

(* A command picked that is not starved is picked for the policies. *)
LEMMA PickUnstarved ==
  ASSUME TypeOK, pending # {}, Pick \notin Starved
  PROVE  Pick \in Eligible \ MustYield
BY PickOldest DEF Contenders

LEMMA StreakDrain ==
  ASSUME StreakInv, DrainOne
  PROVE  StreakCounted' /\ PagematchCapped'
<1> DEFINE n == Len(log)
           hit == Priority(Pick) = 0
<1>1. /\ OrderInv /\ TypeOK /\ pending # {} /\ StreakCounted /\ PagematchCapped
      /\ Pick \in pending /\ Logs(Pick) /\ PagematchLimit \in Nat \ {0}
  BY DrainLogs, PolicyAssumption DEF StreakInv, OrderInv, IInv, DrainOne
<1>2. /\ n \in Nat /\ DOMAIN log = 1 .. n /\ DOMAIN log' = 1 .. n + 1 /\ Len(log') = n + 1
      /\ \A i \in 1 .. n : log'[i] = log[i]
      /\ log'[n + 1].peeked_hit = hit /\ log'[n + 1].bank = Pick.bank
      /\ log'[n + 1].starved = (Pick \in Starved)
      /\ log'[n + 1].alternative = (\E q \in Eligible : q.bank # Pick.bank)
  BY <1>1 DEF Logs, Entry
<1>3. /\ consecutive_hit_count \in Nat
      /\ last_hit_bank' = IF hit THEN Pick.bank ELSE NoBank
      /\ consecutive_hit_count' = IF ~ hit THEN 0
                                  ELSE IF Pick.bank = last_hit_bank
                                       THEN consecutive_hit_count + 1 ELSE 1
  BY <1>1 DEF TypeOK, Logs, Drain
<1> HIDE DEF n, hit
<1>4. ASSUME NEW i \in 1 .. n, Streak(log', i, n + 1)
      PROVE  /\ hit /\ Pick.bank = log[i].bank /\ last_hit_bank = log[i].bank
             /\ consecutive_hit_count >= n - i + 1
  <2>1. n + 1 \in i .. n + 1 /\ i \in i .. n + 1 /\ \A k \in i .. n : k \in i .. n + 1
    BY <1>2
  <2>2. hit /\ Pick.bank = log[i].bank
    BY <1>2, <1>4, <2>1 DEF Streak
  <2>3. Streak(log, i, n)
    <3>1. \A k \in i .. n : k \in i .. n + 1 /\ k \in 1 .. n
      BY <1>2
    <3> QED
      BY <1>2, <1>4, <3>1 DEF Streak
  <2>4. last_hit_bank = log[i].bank /\ consecutive_hit_count >= n - i + 1
    BY <1>1, <1>2, <2>3 DEF StreakCounted, n
  <2> QED
    BY <2>2, <2>4
<1>5. ASSUME NEW i \in 1 .. n + 1, Streak(log', i, n + 1)
      PROVE  last_hit_bank' = log'[i].bank /\ consecutive_hit_count' >= (n + 1) - i + 1
  <2>1. CASE i \in 1 .. n
    BY <1>2, <1>3, <1>4, <1>5, <2>1
  <2>2. CASE i = n + 1
    <3>1. hit
      BY <1>2, <1>5, <2>2 DEF Streak
    <3> QED
      BY <1>2, <1>3, <2>2, <3>1
  <2> QED
    BY <1>2, <2>1, <2>2
<1>6. StreakCounted'
  BY <1>2, <1>5 DEF StreakCounted, Streak
<1>7. ASSUME NEW i \in 1 .. n + 1, i + PagematchLimit \in 1 .. n + 1,
             Streak(log', i, i + PagematchLimit),
             log'[i + PagematchLimit].alternative, ~ log'[i + PagematchLimit].starved
      PROVE  FALSE
  <2>1. i \in 1 .. n /\ i + PagematchLimit \in Nat
    BY <1>1, <1>2, <1>7
  <2>2. CASE i + PagematchLimit \in 1 .. n
    <3>1. \A k \in i .. i + PagematchLimit : log'[k] = log[k]
      BY <1>1, <1>2, <2>1, <2>2
    <3>2. Streak(log, i, i + PagematchLimit)
      BY <1>1, <1>2, <1>7, <2>1, <3>1 DEF Streak
    <3> QED
      BY <1>1, <1>2, <1>7, <2>1, <2>2, <3>2 DEF PagematchCapped, Streak
  <2>3. CASE i + PagematchLimit = n + 1
    <3>1. /\ hit /\ Pick.bank = last_hit_bank
          /\ consecutive_hit_count >= n - i + 1
      BY <1>4, <1>7, <2>1, <2>3
    <3>2. StreakAtLimit
      BY <1>1, <1>2, <1>3, <2>3, <3>1 DEF StreakAtLimit
    <3>3. Pick \notin Starved /\ \E q \in Eligible : q.bank # Pick.bank
      BY <1>2, <1>7, <2>3
    <3>4. Pick \in Eligible \ MustYield
      BY <1>1, <3>3, PickUnstarved
    <3> QED
      BY <3>1, <3>2, <3>3, <3>4 DEF MustYield, hit
  <2> QED
    BY <1>7, <2>1, <2>2, <2>3, <1>2
<1>8. PagematchCapped'
  BY <1>2, <1>7 DEF PagematchCapped, Streak
<1> QED
  BY <1>6, <1>8

LEMMA StreakStep == StreakInv /\ [Next]_vars => StreakInv'
<1> SUFFICES ASSUME StreakInv, [Next]_vars PROVE StreakInv'
  OBVIOUS
<1>1. OrderInv'
  BY OrderKept DEF StreakInv
<1>2. ASSUME NEW cmd \in Requests, NEW ready \in Arrivals, Submit(cmd, ready)
      PROVE  UNCHANGED <<policyVars, log>>
  BY <1>2 DEF Submit, TryAdmit
<1>3. ASSUME UNCHANGED <<policyVars, log>> PROVE StreakInv'
  BY <1>1, <1>3 DEF StreakInv, StreakCounted, PagematchCapped, Streak, policyVars
<1>4. CASE DrainOne
  BY <1>1, <1>4, StreakDrain DEF StreakInv
<1>5. CASE UNCHANGED vars
  BY <1>3, <1>5 DEF vars
<1> QED
  BY <1>2, <1>3, <1>4, <1>5 DEF Next

LEMMA StreakInit == Init => StreakInv
<1> SUFFICES ASSUME Init PROVE StreakInv
  OBVIOUS
<1>1. log = <<>>
  BY DEF Init
<1> QED
  BY <1>1, OrderInitially DEF StreakInv, StreakCounted, PagematchCapped

(* kPagematchLimit cannot be evaded: no more hits in a row go to one bank while
   a candidate on another waits, whatever made the streak and its counter. *)
THEOREM StreaksEnd == Spec => []PagematchCapped
<1>1. StreakInv => PagematchCapped
  BY DEF StreakInv
<1> QED
  BY <1>1, StreakInit, StreakStep, PTL DEF Spec

-----------------------------------------------------------------------------
(***************************************************************************)
(* Write batches.                                                          *)
(***************************************************************************)
UnstarvedRead(e) == e.type = "Read" /\ ~ e.starved

(* The first drain after the last unstarved read among the first n. *)
BatchStart(history, n) ==
  LET reads == {k \in 1 .. n : UnstarvedRead(history[k])}
  IN  IF reads = {} THEN 1 ELSE Max(reads) + 1

(* The drains since have all been for the policy's sake, with writes enough. *)
PolicyBatch(history, n) ==
  \A k \in BatchStart(history, n) .. n :
    ~ history[k].starved /\ history[k].writes_queued > Cfg.write_drain_low

(* What the batch members say of such a batch. *)
BatchCounted ==
  LET n == Len(log)
      first == BatchStart(log, n)
  IN  Cfg.write_policy = "batch" /\ PolicyBatch(log, n) =>
        /\ first > n => ~ draining_writes
        /\ first <= n => draining_writes /\ writes_in_batch <= n - first + 1

BatchInv == OrderInv /\ BatchCounted /\ BatchServesMinimum

LEMMA BatchStartType ==
  ASSUME NEW history, NEW n \in Nat
  PROVE  /\ BatchStart(history, n) \in 1 .. n + 1
         /\ \A k \in BatchStart(history, n) .. n : ~ UnstarvedRead(history[k])
         /\ BatchStart(history, n) # 1 => UnstarvedRead(history[BatchStart(history, n) - 1])
<1> DEFINE reads == {k \in 1 .. n : UnstarvedRead(history[k])}
<1>1. reads \in SUBSET (1 .. n)
  OBVIOUS
<1>2. ASSUME reads # {} PROVE Max(reads) \in reads /\ \A x \in reads : x <= Max(reads)
  <2>1. 1 \in Int /\ n \in Int
    OBVIOUS
  <2> HIDE DEF reads
  <2> QED
    BY <1>1, <1>2, <2>1, IntMax
<1>3. BatchStart(history, n) = IF reads = {} THEN 1 ELSE Max(reads) + 1
  BY DEF BatchStart
<1>4. CASE reads = {}
  BY <1>3, <1>4
<1>5. CASE reads # {}
  <2>1. Max(reads) \in 1 .. n /\ UnstarvedRead(history[Max(reads)])
    BY <1>2, <1>5
  <2>2. BatchStart(history, n) = Max(reads) + 1
    BY <1>3, <1>5
  <2>3. ASSUME NEW k \in Max(reads) + 1 .. n PROVE ~ UnstarvedRead(history[k])
    <3>1. k \in 1 .. n /\ ~ (k <= Max(reads))
      BY <2>1
    <3> QED
      BY <1>2, <1>5, <3>1
  <2> HIDE DEF reads
  <2> QED
    BY <2>1, <2>2, <2>3
<1> QED
  BY <1>4, <1>5

(* The start is what its two properties say. *)
LEMMA BatchStartUnique ==
  ASSUME NEW history, NEW n \in Nat, NEW first \in 1 .. n + 1,
         \A k \in first .. n : ~ UnstarvedRead(history[k]),
         first # 1 => UnstarvedRead(history[first - 1])
  PROVE  BatchStart(history, n) = first
<1> DEFINE start == BatchStart(history, n)
<1>1. /\ start \in 1 .. n + 1
      /\ \A k \in start .. n : ~ UnstarvedRead(history[k])
      /\ start # 1 => UnstarvedRead(history[start - 1])
  BY BatchStartType
<1> HIDE DEF start
<1>2. ~ (start < first)
  <2> SUFFICES ASSUME start < first PROVE FALSE
    OBVIOUS
  <2>1. first - 1 \in start .. n /\ first # 1
    BY <1>1
  <2> QED
    BY <1>1, <2>1
<1>3. ~ (first < start)
  <2> SUFFICES ASSUME first < start PROVE FALSE
    OBVIOUS
  <2>1. start - 1 \in first .. n /\ start # 1
    BY <1>1
  <2> QED
    BY <1>1, <2>1
<1> QED
  BY <1>1, <1>2, <1>3 DEF start

(* One drain more either ends the batch or belongs to it. *)
LEMMA BatchStartNext ==
  ASSUME NEW history, NEW n \in Nat
  PROVE  BatchStart(history, n + 1)
           = IF UnstarvedRead(history[n + 1]) THEN n + 2 ELSE BatchStart(history, n)
<1> DEFINE start == BatchStart(history, n)
<1>1. /\ start \in 1 .. n + 1
      /\ \A k \in start .. n : ~ UnstarvedRead(history[k])
      /\ start # 1 => UnstarvedRead(history[start - 1])
  BY BatchStartType
<1> HIDE DEF start
<1>2. CASE UnstarvedRead(history[n + 1])
  <2>1. n + 2 \in 1 .. (n + 1) + 1 /\ (n + 2) - 1 = n + 1 /\ n + 1 \in Nat
    OBVIOUS
  <2>2. \A k \in n + 2 .. n + 1 : ~ UnstarvedRead(history[k])
    OBVIOUS
  <2> QED
    BY <1>2, <2>1, <2>2, BatchStartUnique
<1>3. CASE ~ UnstarvedRead(history[n + 1])
  <2>1. start \in 1 .. (n + 1) + 1 /\ n + 1 \in Nat
    BY <1>1
  <2>2. \A k \in start .. n + 1 : k \in start .. n \/ k = n + 1
    BY <1>1
  <2>3. \A k \in start .. n + 1 : ~ UnstarvedRead(history[k])
    BY <1>1, <1>3, <2>2
  <2> QED
    BY <1>1, <1>3, <2>1, <2>3, BatchStartUnique DEF start
<1> QED
  BY <1>2, <1>3

(* Histories that agree on their first n drains agree on the batch. *)
LEMMA BatchStartSame ==
  ASSUME NEW h1, NEW h2, NEW n \in Nat, \A k \in 1 .. n : h1[k] = h2[k]
  PROVE  BatchStart(h1, n) = BatchStart(h2, n)
<1>1. {k \in 1 .. n : UnstarvedRead(h1[k])} = {k \in 1 .. n : UnstarvedRead(h2[k])}
  OBVIOUS
<1> QED
  BY <1>1 DEF BatchStart

(* Under write_policy "batch" an unstarved pick follows the direction. *)
LEMMA PickDirection ==
  ASSUME OrderInv, pending # {}, Cfg.write_policy = "batch", Pick \notin Starved
  PROVE  /\ Pick.type = "Read" => ~ DrainsWrites
         /\ Pick.type = "Write"
              /\ Cardinality({q \in pending : q.type = "Write"}) > Cfg.write_drain_low
            => DrainsWrites
<1> DEFINE queued == {q \in pending : q.type = "Write"}
           ready_writes == queued \cap Arrived
           ready_reads == Arrived \ queued
<1>1. Pick \in Eligible /\ Pick \in Arrived /\ Pick \in pending /\ TypeOK
  BY PickUnstarved, PickPending DEF OrderInv, IInv, Eligible
<1>2. ASSUME Pick.type = "Read", DrainsWrites PROVE FALSE
  <2>1. ready_writes # {}
    BY <1>2 DEF DrainsWrites
  <2>2. {q \in Arrived : q.type = "Write"} # {}
    BY <2>1
  <2>3. Eligible = {q \in Arrived : q.type = "Write"}
    BY <1>2, <2>2 DEF Eligible
  <2> QED
    BY <1>1, <1>2, <2>3
<1>3. ASSUME Pick.type = "Write", Cardinality(queued) > Cfg.write_drain_low, ~ DrainsWrites
      PROVE  FALSE
  <2>1. {q \in Arrived : q.type = "Read"} = {}
    BY <1>1, <1>3 DEF Eligible
  <2>2. ready_reads = {}
    <3>1. \A q \in Arrived : q.type \in {"Read", "Write"} /\ q \in pending
      BY <1>1 DEF Arrived, TypeOK, PendingCmd, Types
    <3> QED
      BY <2>1, <3>1
  <2>3. ready_writes # {}
    BY <1>1, <1>3
  <2>4. Cardinality(queued) \in Nat /\ Cfg.write_drain_low \in Nat
    <3>1. IsFiniteSet(queued)
      BY FS_Subset DEF OrderInv, LogTyped
    <3> QED
      BY <3>1, FS_CardinalityType, PolicyAssumption
  <2>5. ~ (Cardinality(queued) <= Cfg.write_drain_low)
    BY <1>3, <2>4
  <2> QED
    BY <1>3, <2>2, <2>3, <2>5 DEF DrainsWrites
<1> QED
  BY <1>2, <1>3

LEMMA BatchDrain ==
  ASSUME BatchInv, DrainOne
  PROVE  BatchCounted' /\ BatchServesMinimum'
<1> DEFINE n == Len(log)
           first == BatchStart(log, n)
           queued == Cardinality({q \in pending : q.type = "Write"})
           arrived == {q \in Arrived : q.type = "Write"}
           e == log'[n + 1]
<1>1. /\ OrderInv /\ TypeOK /\ pending # {} /\ BatchCounted /\ BatchServesMinimum
      /\ Pick \in pending /\ Logs(Pick)
  BY DrainLogs DEF BatchInv, OrderInv, IInv, DrainOne
<1>2. /\ n \in Nat /\ DOMAIN log = 1 .. n /\ DOMAIN log' = 1 .. n + 1 /\ Len(log') = n + 1
      /\ \A i \in 1 .. n : log'[i] = log[i]
      /\ e.type = Pick.type /\ e.starved = (Pick \in Starved)
      /\ e.writes_queued = queued /\ e.writes_arrived = Cardinality(arrived)
  BY <1>1 DEF Logs, Entry
<1>3. /\ Pick.type \in {"Read", "Write"} /\ writes_in_batch \in Nat
      /\ draining_writes \in BOOLEAN /\ Cfg.write_batch_min \in Nat
      /\ Cfg.write_drain_low \in Nat
  BY <1>1, PolicyAssumption DEF TypeOK, PendingCmd, Types
<1>4. ASSUME Cfg.write_policy = "batch"
      PROVE  /\ draining_writes' = DrainsWrites
             /\ writes_in_batch' = (IF DrainsWrites /\ ~ draining_writes THEN 0
                                    ELSE writes_in_batch)
                                   + (IF DrainsWrites /\ Pick.type = "Write" THEN 1 ELSE 0)
  BY <1>1, <1>4 DEF Logs, Drain, BatchCount, DrainsWrites
<1>5. first \in 1 .. n + 1
  BY <1>2, BatchStartType
<1>6. ASSUME Cfg.write_policy = "batch", Pick \notin Starved
      PROVE  /\ Pick.type = "Read" => ~ DrainsWrites
             /\ Pick.type = "Write" /\ queued > Cfg.write_drain_low => DrainsWrites
  BY <1>1, <1>6, PickDirection
<1>7. BatchStart(log', n + 1) = IF UnstarvedRead(e) THEN n + 2 ELSE first
  BY <1>2, BatchStartNext, BatchStartSame
<1> HIDE DEF n, first, queued, arrived, e
<1>8. ASSUME Cfg.write_policy = "batch", PolicyBatch(log, n)
      PROVE  /\ first > n => ~ draining_writes
             /\ first <= n => draining_writes /\ writes_in_batch <= n - first + 1
  BY <1>1, <1>8 DEF BatchCounted, n, first
<1>9. ASSUME Cfg.write_policy = "batch", PolicyBatch(log', n + 1)
      PROVE  LET start == BatchStart(log', n + 1) IN
             /\ start > n + 1 => ~ draining_writes'
             /\ start <= n + 1 => draining_writes' /\ writes_in_batch' <= (n + 1) - start + 1
  <2>1. CASE UnstarvedRead(e)
    <3>1. BatchStart(log', n + 1) = n + 2 /\ Pick \notin Starved /\ Pick.type = "Read"
      BY <1>2, <1>7, <2>1 DEF UnstarvedRead
    <3> QED
      BY <1>2, <1>4, <1>6, <1>9, <3>1
  <2>2. CASE ~ UnstarvedRead(e)
    <3>1. BatchStart(log', n + 1) = first
      BY <1>7, <2>2
    <3>2. n + 1 \in first .. n + 1 /\ \A k \in first .. n : k \in first .. n + 1 /\ k \in 1 .. n
      BY <1>2, <1>5
    <3>3. ~ e.starved /\ queued > Cfg.write_drain_low
      BY <1>2, <1>9, <3>1, <3>2 DEF PolicyBatch, e
    <3>4. Pick \notin Starved /\ Pick.type = "Write"
      BY <1>2, <1>3, <2>2, <3>3 DEF UnstarvedRead
    <3>5. DrainsWrites
      BY <1>6, <1>9, <3>3, <3>4
    <3>6. PolicyBatch(log, n)
      BY <1>2, <1>9, <3>1, <3>2 DEF PolicyBatch, first
    <3>7. draining_writes'
      BY <1>4, <1>9, <3>5
    <3>8. writes_in_batch' = (IF ~ draining_writes THEN 0 ELSE writes_in_batch) + 1
      BY <1>4, <1>9, <3>4, <3>5
    <3>9. writes_in_batch' <= (n + 1) - first + 1
      BY <1>2, <1>3, <1>5, <1>8, <1>9, <3>6, <3>8
    <3> QED
      BY <1>2, <1>5, <3>1, <3>7, <3>9
  <2> QED
    BY <2>1, <2>2
<1>10. BatchCounted'
  BY <1>2, <1>9 DEF BatchCounted
<1>11. ASSUME NEW j \in 1 .. n + 1, Cfg.write_policy = "batch", UnstarvedRead(log'[j]),
              BatchStart(log', j - 1) <= j - 1,
              \A k \in BatchStart(log', j - 1) .. j - 1 : ~ log'[k].starved,
              log'[j].writes_arrived > 0,
              \A k \in (BatchStart(log', j - 1) .. j - 1) \cup {j} :
                log'[k].writes_queued > Cfg.write_drain_low
       PROVE  Cardinality(BatchStart(log', j - 1) .. j - 1) >= Cfg.write_batch_min
  <2>1. CASE j \in 1 .. n
    <3>1. BatchStart(log', j - 1) = BatchStart(log, j - 1)
      BY <1>2, <2>1, BatchStartSame
    <3>2. BatchStart(log, j - 1) \in 1 .. (j - 1) + 1
      BY <1>2, <2>1, BatchStartType
    <3>3. \A k \in (BatchStart(log, j - 1) .. j - 1) \cup {j} : log'[k] = log[k]
      BY <1>2, <2>1, <3>2
    <3>4. BatchStart(log, j - 1) .. j - 1 # {}
      BY <1>2, <1>11, <2>1, <3>1, <3>2
    <3>5. UnstarvedRead(log[j]) /\ log[j].writes_arrived > 0
      BY <1>2, <1>11, <2>1
    <3>6. \A k \in BatchStart(log, j - 1) .. j - 1 : ~ log[k].starved
      BY <1>11, <3>1, <3>3
    <3>7. \A k \in (BatchStart(log, j - 1) .. j - 1) \cup {j} :
            log[k].writes_queued > Cfg.write_drain_low
      BY <1>11, <3>1, <3>3
    <3>8. j \in DOMAIN log
      BY <1>2, <2>1
    <3> QED
      BY <1>1, <1>11, <3>1, <3>4, <3>5, <3>6, <3>7, <3>8
      DEF BatchServesMinimum, BatchStart, UnstarvedRead
  <2>2. CASE j = n + 1
    <3>1. j - 1 = n /\ BatchStart(log', n) = first
      BY <1>2, <2>2, BatchStartSame DEF first
    <3>2. e.type = "Read" /\ ~ e.starved /\ e.writes_arrived > 0
          /\ e.writes_queued > Cfg.write_drain_low
      BY <1>11, <2>2 DEF UnstarvedRead, e
    <3>3. \A k \in first .. n : k \in 1 .. n
      BY <1>2, <1>5
    <3>4. PolicyBatch(log, n)
      BY <1>2, <1>11, <3>1, <3>3 DEF PolicyBatch, first
    <3>5. draining_writes /\ writes_in_batch <= n - first + 1
      BY <1>2, <1>5, <1>8, <1>11, <3>1, <3>4
    <3>6. Pick \notin Starved /\ ~ DrainsWrites
      BY <1>2, <1>6, <1>11, <3>2
    <3>7. arrived # {}
      <4>1. Cardinality(arrived) > 0
        BY <1>2, <3>2
      <4>2. ~ (0 > 0)
        OBVIOUS
      <4> QED
        BY <4>1, <4>2, FS_EmptySet
    <3>8. ~ (queued <= Cfg.write_drain_low)
      <4>1. queued \in Nat
        BY <1>1, FS_Subset, FS_CardinalityType DEF queued, OrderInv, LogTyped
      <4> QED
        BY <1>2, <1>3, <3>2, <4>1
    <3>9. {q \in pending : q.type = "Write"} \cap Arrived # {}
      BY <3>7 DEF arrived, Arrived
    <3>10. writes_in_batch >= Cfg.write_batch_min
      BY <3>5, <3>6, <3>8, <3>9 DEF DrainsWrites, queued
    <3>11. Cardinality(first .. n) = n - first + 1
      BY <1>2, <1>5, <1>11, <3>1, FS_Interval
    <3> QED
      BY <1>2, <1>3, <1>5, <3>1, <3>5, <3>10, <3>11
  <2> QED
    BY <1>2, <2>1, <2>2
<1>12. BatchServesMinimum'
  <2> SUFFICES ASSUME NEW j \in 1 .. n + 1, Cfg.write_policy = "batch",
                      log'[j].type = "Read", ~ log'[j].starved,
                      BatchStart(log', j - 1) .. j - 1 # {},
                      \A k \in BatchStart(log', j - 1) .. j - 1 : ~ log'[k].starved,
                      log'[j].writes_arrived > 0,
                      \A k \in (BatchStart(log', j - 1) .. j - 1) \cup {j} :
                        log'[k].writes_queued > Cfg.write_drain_low
               PROVE  Cardinality(BatchStart(log', j - 1) .. j - 1) >= Cfg.write_batch_min
    BY <1>2 DEF BatchServesMinimum, BatchStart, UnstarvedRead
  <2>1. BatchStart(log', j - 1) \in 1 .. (j - 1) + 1
    BY <1>2, BatchStartType
  <2>2. BatchStart(log', j - 1) <= j - 1
    BY <1>2, <2>1
  <2> QED
    BY <1>11, <2>2 DEF UnstarvedRead
<1> QED
  BY <1>10, <1>12

LEMMA BatchStep == BatchInv /\ [Next]_vars => BatchInv'
<1> SUFFICES ASSUME BatchInv, [Next]_vars PROVE BatchInv'
  OBVIOUS
<1>1. OrderInv'
  BY OrderKept DEF BatchInv
<1>2. ASSUME NEW cmd \in Requests, NEW ready \in Arrivals, Submit(cmd, ready)
      PROVE  UNCHANGED <<policyVars, log>>
  BY <1>2 DEF Submit, TryAdmit
<1>3. ASSUME UNCHANGED <<policyVars, log>> PROVE BatchInv'
  BY <1>1, <1>3 DEF BatchInv, BatchCounted, BatchServesMinimum, policyVars
<1>4. CASE DrainOne
  BY <1>1, <1>4, BatchDrain DEF BatchInv
<1>5. CASE UNCHANGED vars
  BY <1>3, <1>5 DEF vars
<1> QED
  BY <1>2, <1>3, <1>4, <1>5 DEF Next

LEMMA BatchInit == Init => BatchInv
<1> SUFFICES ASSUME Init PROVE BatchInv
  OBVIOUS
<1>1. log = <<>> /\ ~ draining_writes
  BY DEF Init
<1>2. BatchStart(log, Len(log)) = 1
  BY <1>1 DEF BatchStart
<1> QED
  BY <1>1, <1>2, OrderInitially DEF BatchInv, BatchCounted, BatchServesMinimum

(* write_batch_min means what it says: the policy turns a batch of writes
   around for a read only after that many, unless the writes run out. *)
THEOREM BatchesServeTheirMinimum == Spec => []BatchServesMinimum
<1>1. BatchInv => BatchServesMinimum
  BY DEF BatchInv
<1> QED
  BY <1>1, BatchInit, BatchStep, PTL DEF Spec

-----------------------------------------------------------------------------
(***************************************************************************)
(* The commands ChannelScheduler places, related to one another: what the  *)
(* log keeps of the drains against the cursors later drains start from,    *)
(* for every configuration, topology and workload.  First the buses and    *)
(* causality, then refresh and the placement of row operations, then what  *)
(* the banks and the ranks remember of their last commands.                *)
(***************************************************************************)

Turn(type) == Cyc(IF type = "Read" THEN "rd_wr_turnaround" ELSE "wr_rd_turnaround")

(* The cursors of the column floors cover every drain: its data burst, with the
   turnaround once the bus has changed direction, its column command, and its
   write. *)
CursorsCover ==
  /\ bus_used <=> log # <<>>
  /\ ~ bus_used => last_col_start_cycle = 0
  /\ log # <<>> => /\ log[Len(log)].col = last_col_start_cycle
                   /\ GroupOf(log[Len(log)].bank) = last_col_bankgroup
  /\ \A i \in DOMAIN log :
       LET e == log[i] IN
       /\ e.col <= last_col_start_cycle
       /\ e.complete + (IF e.type # last_bus_type THEN Turn(e.type) ELSE 0) <= bus_free_cycle
       /\ e.type = "Write" => had_write_cmd /\ e.complete <= last_write_complete_cycle

(* What a queued command asks for is asked for from a cycle it was known at. *)
VisibleInTime ==
  \A q \in pending : q.ready <= q.visible /\ q.visible <= Later(q.ready, last_col_start_cycle)

(* A command bus slot that is forgotten lies behind everything that is queued
   and all that is yet to be admitted. *)
Behind(slot) ==
  /\ slot + CmdSlotCycles <= last_admitted_ready_cycle
  /\ \A q \in pending : slot + CmdSlotCycles <= q.ready

SlotsRemembered ==
  \A i \in DOMAIN log : \A a \in Issued(log[i]) : a[2] \in cmd_bus_slots \/ Behind(a[2])

-----------------------------------------------------------------------------
(***************************************************************************)
(* One drain.                                                              *)
(***************************************************************************)
LEMMA LongerDurations == Cyc("tCCD_L") >= Cyc("tCCD_S") /\ Cyc("tWTR_L") >= Cyc("tWTR_S")
<1>1. /\ Cfg.clock \in Nat \ {0} /\ Cfg["tCCD_L"] \in Nat /\ Cfg["tCCD_S"] \in Nat
      /\ Cfg["tWTR_L"] \in Nat /\ Cfg["tWTR_S"] \in Nat
      /\ Cfg["tCCD_L"] >= Cfg["tCCD_S"] /\ Cfg["tWTR_L"] >= Cfg["tWTR_S"]
  BY DurationsAssumption DEF Durations
<1>2. ASSUME NEW a \in Nat, NEW b \in Nat, a >= b
      PROVE  (a + Cfg.clock - 1) \div Cfg.clock >= (b + Cfg.clock - 1) \div Cfg.clock
  BY <1>1, <1>2
<1> QED
  BY <1>1, <1>2 DEF Cyc, ToCycles

(* A column command is placed at or after each of its floors. *)
LEMMA ColumnAfterFloors ==
  ASSUME TypeOK, SlotsBounded, NEW p \in pending
  PROVE  LET t == Placement(p)
         IN  /\ t.col >= p.ready /\ t.col >= TccdFloor(p) /\ t.col >= BusFloor(p)
             /\ t.col >= TurnFloor(p) /\ t.col >= TwtrFloor(p)
             /\ t.data = t.col + CasCycles(p.type)
             /\ t.complete = t.data + TransferCycles(p)
<1>1. /\ Placement(p).col \in Nat /\ Placement(p).wanted \in Nat /\ Synced(p).at \in Nat
      /\ Placement(p).col >= Placement(p).wanted /\ Placement(p).wanted >= Synced(p).at
  BY PlacementType, SyncedType DEF Placed, RefreshProgress
<1>2. Synced(p).at >= ColumnFloor(p)
  BY SyncedType
<1>3. p.ready \in Nat /\ BusFloor(p) \in Nat
  BY FloorsNat DEF TypeOK, PendingCmd, Cycle, BusFloor, Monus
<1>4. BusReady(p) >= p.ready /\ BusReady(p) >= TccdFloor(p) /\ BusReady(p) >= BusFloor(p)
  BY <1>3, FloorsNat DEF BusReady, Later
<1>5. /\ ColumnFloor(p) >= BusReady(p) /\ ColumnFloor(p) >= TurnFloor(p)
      /\ ColumnFloor(p) >= TwtrFloor(p)
  BY FloorsNat DEF ColumnFloor, Later
<1>6. /\ Placement(p).data = Placement(p).col + CasCycles(p.type)
      /\ Placement(p).complete = Placement(p).data + TransferCycles(p)
  BY DEF Placement, PlacedWith
<1> QED
  BY <1>1, <1>2, <1>3, <1>4, <1>5, <1>6, FloorsNat

(* A slot the command bus is free at. *)
SlotFor(slots, a) == a # NoCycle => a \in Nat /\ Free(slots, a)

With(slots, a) == IF a = NoCycle THEN slots ELSE slots \cup {a}

(* What place_activate hands over: its ACT on a free slot at or after the floor. *)
ActivatedOn(placed, slots, floor) ==
  /\ placed.act \in Nat /\ placed.act >= floor /\ Free(slots, placed.act)
  /\ placed.slots = slots \cup {placed.act}

LEMMA ActivateReserved ==
  ASSUME TypeOK, NEW p \in pending, NEW r \in RefreshProgress,
         NEW slots \in SUBSET Nat, Bounded(slots), NEW floor \in Nat
  PROVE  ActivatedOn(PlaceActivate(p, r, slots, floor), slots, floor)
<1> DEFINE rank  == ranks[RankOf(p.bank)]
           first == ApplyRefresh(r, floor)
           gated == Gated(rank.recent_activates, rank.last_activate_bankgroup,
                          GroupOf(p.bank), first.at)
           again == ApplyRefresh(first, gated)
           act   == ReserveSlot(slots, again.at)
<1>1. rank.recent_activates \in Seq(Nat)
  BY DEF TypeOK, PendingCmd, Bank, RankOf, RankState, Cycle
<1>2. first \in RefreshProgress /\ first.at \in Nat /\ first.at >= floor
  BY ApplyRefreshType, RefreshAssumption DEF RefreshProgress
<1>3. gated \in Nat /\ gated >= first.at
  BY <1>1, <1>2, GatedType
<1>4. again.at \in Nat /\ again.at >= gated
  <2>1. again \in RefreshProgress /\ again.at >= gated
    BY <1>2, <1>3, ApplyRefreshType, RefreshAssumption
  <2> QED
    BY <2>1 DEF RefreshProgress
<1>5. act \in Nat /\ act >= again.at /\ Free(slots, act)
  BY <1>4, ReserveSlotFree
<1>6. /\ PlaceActivate(p, r, slots, floor).act = act
      /\ PlaceActivate(p, r, slots, floor).slots = slots \cup {act}
  BY DEF PlaceActivate, ActivateFrom
<1> HIDE DEF rank, first, gated, again, act
<1> QED
  BY <1>2, <1>3, <1>4, <1>5, <1>6 DEF ActivatedOn

(* The row operations of a drain take free slots, one after the other, at or
   after the cycle their command was known at. *)
RowOpsReserved(p, ops) ==
  /\ SlotFor(cmd_bus_slots, ops.pre)
  /\ SlotFor(With(cmd_bus_slots, ops.pre), ops.act)
  /\ ops.slots = With(With(cmd_bus_slots, ops.pre), ops.act)
  /\ ops.pre # NoCycle => ops.pre >= p.visible
  /\ ops.act # NoCycle => ops.act >= p.visible

LEMMA RowOpsSlots ==
  ASSUME TypeOK, SlotsBounded, NEW p \in pending, NEW bank \in BankState
  PROVE  RowOpsReserved(p, RowOps(p, bank))
<1> DEFINE before == ApplyRefresh(Synced(p), FromVisible(p, bank.precharge_ready))
           pre    == ReserveSlot(cmd_bus_slots, before.at)
           second == PlaceActivate(p, before, cmd_bus_slots \cup {pre}, pre + Cyc("tRP"))
           only   == PlaceActivate(p, Synced(p), cmd_bus_slots, FromVisible(p, bank.act_ready))
<1>1. cmd_bus_slots \in SUBSET Nat /\ Bounded(cmd_bus_slots)
  BY DEF TypeOK, SlotsBounded, Cycle
<1>2. /\ FromVisible(p, bank.precharge_ready) \in Nat /\ FromVisible(p, bank.act_ready) \in Nat
      /\ FromVisible(p, bank.precharge_ready) >= p.visible
      /\ FromVisible(p, bank.act_ready) >= p.visible
      /\ p.visible \in Nat
  BY DEF FromVisible, Later, BankState, TypeOK, PendingCmd, Cycle
<1>3. before \in RefreshProgress /\ before.at >= FromVisible(p, bank.precharge_ready)
  BY <1>2, SyncedType, ApplyRefreshType, RefreshAssumption
<1>4. before.at \in Nat /\ before.at >= p.visible
  BY <1>2, <1>3 DEF RefreshProgress
<1>5. pre \in Nat /\ pre >= p.visible /\ Free(cmd_bus_slots, pre)
  BY <1>1, <1>2, <1>4, ReserveSlotFree
<1>6. cmd_bus_slots \cup {pre} \in SUBSET Nat /\ Bounded(cmd_bus_slots \cup {pre})
  BY <1>1, <1>5, BoundedAdd
<1>7. pre + Cyc("tRP") \in Nat /\ pre + Cyc("tRP") >= pre
  BY <1>5, DurationsNat
<1> HIDE DEF before, pre
<1>8. ActivatedOn(second, cmd_bus_slots \cup {pre}, pre + Cyc("tRP"))
  BY <1>3, <1>6, <1>7, ActivateReserved
<1>9. ActivatedOn(only, cmd_bus_slots, FromVisible(p, bank.act_ready))
  BY <1>1, <1>2, SyncedType, ActivateReserved
<1>10. RowOps(p, bank) = IF bank.open_row = NoRow THEN MissOps("Empty", NoCycle, only)
                         ELSE MissOps("Conflict", pre, second)
  BY DEF RowOps, before, pre
<1> HIDE DEF second, only
<1>11. CASE bank.open_row = NoRow
  <2>1. /\ RowOps(p, bank).pre = NoCycle /\ RowOps(p, bank).act = only.act
        /\ RowOps(p, bank).slots = only.slots
    BY <1>10, <1>11 DEF MissOps
  <2>2. only.act \in Nat /\ only.act >= p.visible /\ Free(cmd_bus_slots, only.act)
    BY <1>2, <1>9 DEF ActivatedOn
  <2> QED
    BY <1>9, <2>1, <2>2 DEF RowOpsReserved, SlotFor, With, NoCycle, ActivatedOn
<1>12. CASE bank.open_row # NoRow
  <2>1. /\ RowOps(p, bank).pre = pre /\ RowOps(p, bank).act = second.act
        /\ RowOps(p, bank).slots = second.slots
    BY <1>10, <1>12 DEF MissOps
  <2>2. /\ second.act \in Nat /\ second.act >= p.visible
        /\ Free(cmd_bus_slots \cup {pre}, second.act)
    BY <1>2, <1>5, <1>7, <1>8 DEF ActivatedOn
  <2> QED
    BY <1>5, <1>8, <2>1, <2>2 DEF RowOpsReserved, SlotFor, With, NoCycle, ActivatedOn
<1> QED
  BY <1>11, <1>12

(* So do all commands of a drain. *)
LEMMA DrainReserves ==
  ASSUME TypeOK, SlotsBounded, NEW p \in pending
  PROVE  LET t == Placement(p)
         IN  RowOpsReserved(p, t.ops) /\ Free(t.ops.slots, t.col)
<1> DEFINE bank   == FoundBank(p)
           ops    == IF bank.open_row = p.row THEN HitOps(p, bank) ELSE RowOps(p, bank)
           wanted == Later(Synced(p).at, ops.row_ready)
<1>1. bank \in BankState
  BY FoundBankType
<1> HIDE DEF bank
<1>2. RowOpsReserved(p, ops)
  <2>1. CASE bank.open_row = p.row
    <3>1. ops.pre = NoCycle /\ ops.act = NoCycle /\ ops.slots = cmd_bus_slots
      BY <2>1 DEF HitOps
    <3> QED
      BY <3>1 DEF RowOpsReserved, SlotFor, With
  <2>2. CASE bank.open_row # p.row
    BY <1>1, <2>2, RowOpsSlots
  <2> QED
    BY <2>1, <2>2
<1>3. ops \in Ops /\ Bounded(ops.slots)
  BY <1>1, HitOpsType, RowOpsType
<1> HIDE DEF ops
<1>4. wanted \in Nat /\ ops.slots \in SUBSET Nat
  BY <1>3, SyncedType DEF Later, Ops, RefreshProgress
<1>5. Placement(p).ops = ops /\ Placement(p).col = ReserveSlot(ops.slots, wanted)
  BY DEF Placement, PlacedWith, bank, ops
<1> HIDE DEF wanted
<1>6. Free(ops.slots, ReserveSlot(ops.slots, wanted))
  BY <1>3, <1>4, ReserveSlotFree
<1> QED
  BY <1>2, <1>5, <1>6

-----------------------------------------------------------------------------
(***************************************************************************)
(* Column commands.                                                        *)
(***************************************************************************)
(* A column command placed after the cursors keeps its distance to all that
   they cover. *)
LEMMA ColumnAfterLog ==
  ASSUME IInv, CursorsCover, LogTyped, NEW p \in pending, NEW i \in DOMAIN log
  PROVE  LET e == log[i]  t == Placement(p)
         IN  /\ t.data >= e.complete + (IF e.type # p.type THEN Turn(e.type) ELSE 0)
             /\ t.col >= e.col + Cyc("tCCD_S")
             /\ i = Len(log) /\ GroupOf(e.bank) = GroupOf(p.bank)
                => t.col >= e.col + Cyc("tCCD_L")
             /\ e.type = "Write" /\ p.type = "Read" => t.col >= e.complete + Cyc("tWTR_S")
<1> DEFINE e == log[i]
           t == Placement(p)
<1>1. e \in LogEntry /\ log # <<>>
  BY LenProperties, EmptySeq DEF LogTyped
<1>2. /\ bus_used /\ e.col <= last_col_start_cycle
      /\ e.complete + (IF e.type # last_bus_type THEN Turn(e.type) ELSE 0) <= bus_free_cycle
      /\ e.type = "Write" => had_write_cmd /\ e.complete <= last_write_complete_cycle
      /\ i = Len(log) => e.col = last_col_start_cycle /\ GroupOf(e.bank) = last_col_bankgroup
  BY <1>1 DEF CursorsCover
<1>3. TypeOK /\ SlotsBounded /\ t \in Placed
  BY PlacementType DEF IInv
<1>4. /\ t.col >= TccdFloor(p) /\ t.col >= BusFloor(p)
      /\ t.col >= TurnFloor(p) /\ t.col >= TwtrFloor(p)
      /\ t.data = t.col + CasCycles(p.type)
  BY <1>3, ColumnAfterFloors
<1> HIDE DEF t
<1> HIDE DEF e
<1>5. /\ t.col \in Nat /\ e.col \in Nat /\ e.complete \in Nat /\ e.type \in Types
      /\ p.type \in Types /\ last_bus_type \in Types
      /\ bus_free_cycle \in Nat /\ last_col_start_cycle \in Nat
      /\ last_write_complete_cycle \in Nat /\ CasCycles(p.type) \in Nat
  BY <1>1, <1>3, FloorsNat DEF Placed, LogEntry, TypeOK, PendingCmd, Cycle
<1>6. /\ Turn("Read") \in Nat /\ Turn("Write") \in Nat
      /\ Cyc("tCCD_S") \in Nat /\ Cyc("tCCD_L") \in Nat
      /\ Cyc("tWTR_S") \in Nat /\ Cyc("tWTR_L") \in Nat
  BY DurationsNat DEF Turn
<1>7. t.data >= bus_free_cycle + (IF last_bus_type # p.type THEN Turn(last_bus_type) ELSE 0)
  BY <1>2, <1>4, <1>5, <1>6 DEF BusFloor, TurnFloor, Monus, Turn, Types
<1>8. t.data >= e.complete + (IF e.type # p.type THEN Turn(e.type) ELSE 0)
  <2>1. bus_free_cycle >= e.complete
    BY <1>2, <1>5, <1>6 DEF Types
  <2>2. t.data \in Nat
    BY <1>4, <1>5
  <2> QED
    BY SMTT(30), <1>2, <1>5, <1>6, <1>7, <2>1, <2>2 DEF Types
<1>9. /\ t.col >= e.col + Cyc("tCCD_S")
      /\ i = Len(log) /\ GroupOf(e.bank) = GroupOf(p.bank) => t.col >= e.col + Cyc("tCCD_L")
  BY SMTT(30), <1>2, <1>4, <1>5, <1>6, LongerDurations DEF TccdFloor, SameGroup
<1>10. e.type = "Write" /\ p.type = "Read" => t.col >= e.complete + Cyc("tWTR_S")
  BY SMTT(30), <1>2, <1>4, <1>5, <1>6, LongerDurations DEF TwtrFloor, SameGroup
<1> QED
  BY <1>8, <1>9, <1>10 DEF e, t

SpacingInv == IInv /\ LogTyped /\ CursorsCover /\ ColumnSpacing

LEMMA DrainSpaces ==
  ASSUME IInv, LogTyped, CursorsCover, DrainOne
  PROVE  CursorsCover' /\ (ColumnSpacing => ColumnSpacing')
<1> DEFINE p == Pick
           t == Placement(p)
           n == Len(log)
<1>1. IInv /\ LogTyped /\ CursorsCover /\ p \in pending /\ Logs(p)
  BY DrainLogs
<1> HIDE DEF p
<1>2. \A i \in DOMAIN log :
        LET e == log[i] IN
        /\ t.data >= e.complete + (IF e.type # p.type THEN Turn(e.type) ELSE 0)
        /\ t.col >= e.col + Cyc("tCCD_S")
        /\ i = n /\ GroupOf(e.bank) = GroupOf(p.bank) => t.col >= e.col + Cyc("tCCD_L")
        /\ e.type = "Write" /\ p.type = "Read" => t.col >= e.complete + Cyc("tWTR_S")
  BY <1>1, ColumnAfterLog
<1>3. /\ t \in Placed /\ t.data = t.col + CasCycles(p.type)
      /\ t.complete = t.data + TransferCycles(p)
      /\ CasCycles(p.type) \in Nat /\ TransferCycles(p) \in Nat \ {0} /\ p.type \in Types
  BY <1>1, PlacementType, ColumnAfterFloors, FloorsNat, TransferPositive
  DEF IInv, TypeOK, PendingCmd
<1>4. Drain(p, t) /\ log'[n + 1] = Entry(p, t)
  BY <1>1 DEF Logs
<1> HIDE DEF t
<1>5. /\ t.col \in Nat /\ t.data \in Nat /\ t.complete \in Nat /\ t.data <= t.complete
  BY <1>3 DEF Placed
<1>6. /\ log'[n + 1].col = t.col /\ log'[n + 1].data = t.data
      /\ log'[n + 1].complete = t.complete
      /\ log'[n + 1].type = p.type /\ log'[n + 1].bank = p.bank
  BY <1>4 DEF Entry
<1>7. /\ n \in Nat /\ DOMAIN log = 1 .. n /\ DOMAIN log' = 1 .. n + 1 /\ Len(log') = n + 1
      /\ \A i \in 1 .. n : log'[i] = log[i] /\ log[i] \in LogEntry
  BY <1>1 DEF Logs
<1>8. /\ bus_used' /\ last_bus_type' = p.type /\ bus_free_cycle' = t.complete
      /\ last_col_start_cycle' = t.col /\ last_col_bankgroup' = GroupOf(p.bank)
      /\ had_write_cmd' = (had_write_cmd \/ p.type = "Write")
      /\ last_write_complete_cycle'
           = IF p.type = "Write" THEN t.complete ELSE last_write_complete_cycle
  BY <1>4 DEF Drain
<1> HIDE DEF n
<1>9. /\ Cyc("tCCD_S") \in Nat /\ Turn("Read") \in Nat /\ Turn("Write") \in Nat
  BY DurationsNat DEF Turn
<1>10. \A i \in 1 .. n : /\ log[i].col \in Nat /\ log[i].complete \in Nat
                         /\ log[i].type \in Types
  BY <1>7 DEF LogEntry
<1>11. CursorsCover'
  <2>1. \A i \in 1 .. n + 1 :
          LET e == log'[i] IN
          /\ e.col <= t.col
          /\ e.complete + (IF e.type # p.type THEN Turn(e.type) ELSE 0) <= t.complete
          /\ e.type = "Write" => had_write_cmd' /\ e.complete <= last_write_complete_cycle'
    <3> TAKE i \in 1 .. n + 1
    <3>1. CASE i = n + 1
      <4>1. /\ log'[i].col = t.col /\ log'[i].complete = t.complete /\ log'[i].type = p.type
        BY <1>6, <3>1
      <4>2. p.type = "Write" => had_write_cmd'
        BY <1>8
      <4> QED
        BY <1>5, <1>8, <4>1, <4>2
    <3>2. CASE i \in 1 .. n
      <4>1. log'[i] = log[i] /\ i \in DOMAIN log
        BY <1>7, <3>2
      <4>2. log[i].col <= t.col
        BY <1>2, <1>5, <1>9, <1>10, <3>2, <4>1
      <4>3. log[i].complete + (IF log[i].type # p.type THEN Turn(log[i].type) ELSE 0)
              <= t.complete
        BY <1>2, <1>5, <1>9, <1>10, <3>2, <4>1 DEF Types
      <4>4. log[i].complete <= t.complete
        BY <1>5, <1>9, <1>10, <3>2, <4>3 DEF Types
      <4>5. log[i].type = "Write"
              => had_write_cmd /\ log[i].complete <= last_write_complete_cycle
        BY <1>1, <4>1 DEF CursorsCover
      <4> QED
        BY <1>8, <4>1, <4>2, <4>3, <4>4, <4>5
    <3> QED
      BY <1>7, <3>1, <3>2
  <2>2. log' # <<>>
    BY <1>7
  <2>3. log'[Len(log')].col = t.col /\ GroupOf(log'[Len(log')].bank) = GroupOf(p.bank)
    BY <1>6, <1>7
  <2> QED
    BY <1>7, <1>8, <2>1, <2>2, <2>3 DEF CursorsCover
<1>12. ASSUME ColumnSpacing PROVE ColumnSpacing'
  <2> SUFFICES ASSUME NEW i \in 1 .. n + 1, NEW j \in 1 .. n + 1, i < j
               PROVE  LET e == log'[i]  f == log'[j] IN
                      /\ f.data >= e.complete + (IF e.type # f.type THEN Turn(e.type) ELSE 0)
                      /\ f.col >= e.col + Cyc("tCCD_S")
                      /\ j = i + 1 /\ GroupOf(e.bank) = GroupOf(f.bank)
                           => f.col >= e.col + Cyc("tCCD_L")
                      /\ e.type = "Write" /\ f.type = "Read"
                           => f.col >= e.complete + Cyc("tWTR_S")
    BY <1>7 DEF ColumnSpacing, Turn
  <2>1. CASE j = n + 1
    <3>1. i \in 1 .. n /\ log'[i] = log[i] /\ (j = i + 1 => i = n)
      BY <1>7, <2>1
    <3> QED
      BY <1>2, <1>6, <1>7, <2>1, <3>1
  <2>2. CASE j \in 1 .. n
    <3>1. i \in 1 .. n /\ log'[i] = log[i] /\ log'[j] = log[j]
      BY <1>7, <2>2
    <3> QED
      BY <1>7, <1>12, <2>2, <3>1 DEF ColumnSpacing, Turn
  <2> QED
    BY <1>7, <2>1, <2>2
<1> QED
  BY <1>11, <1>12

LEMMA SpacingStep == SpacingInv /\ [Next]_vars => SpacingInv'
<1> SUFFICES ASSUME SpacingInv, [Next]_vars PROVE SpacingInv'
  OBVIOUS
<1>1. IInv'
  BY NextInv DEF SpacingInv
<1>2. CASE \E cmd \in Requests, ready \in Arrivals : Submit(cmd, ready)
  <2>1. UNCHANGED <<busVars, log>>
    BY <1>2 DEF Submit, TryAdmit
  <2>2. LogTyped'
    BY <1>2, LogTypedStep DEF SpacingInv, Next
  <2> QED
    BY <1>1, <2>1, <2>2 DEF SpacingInv, CursorsCover, ColumnSpacing, busVars
<1>3. CASE DrainOne
  BY <1>1, <1>3, DrainSpaces, LogTypedStep DEF SpacingInv, Next
<1>4. CASE UNCHANGED vars
  BY <1>1, <1>4 DEF SpacingInv, LogTyped, CursorsCover, ColumnSpacing, vars, queueVars, busVars
<1> QED
  BY <1>2, <1>3, <1>4 DEF Next

LEMMA SpacingInit == Init => SpacingInv
<1> SUFFICES ASSUME Init PROVE SpacingInv
  OBVIOUS
<1>1. log = <<>> /\ pending = {} /\ ~ bus_used /\ last_col_start_cycle = 0
  BY DEF Init
<1>2. LogTyped
  BY <1>1, EmptySeq, FS_EmptySet DEF LogTyped
<1>3. CursorsCover /\ ColumnSpacing
  BY <1>1 DEF CursorsCover, ColumnSpacing
<1> QED
  BY <1>2, <1>3, InitInv DEF SpacingInv

(* Column commands, placed out of order of their arrival and each from cursors
   of its own, never violate tCCD, tWTR, the turnaround or one another's data
   burst, for any two of a history and any durations validate() accepts. *)
THEOREM ColumnsKeepTheirDistance == Spec => []ColumnSpacing
<1>1. SpacingInv => ColumnSpacing
  BY DEF SpacingInv
<1> QED
  BY <1>1, SpacingInit, SpacingStep, PTL DEF Spec

-----------------------------------------------------------------------------
(***************************************************************************)
(* Causality.                                                              *)
(***************************************************************************)
KnownInv == IInv /\ LogTyped /\ CursorsCover /\ VisibleInTime /\ PlacedWhenKnown

(* The command picked has arrived by the decision cycle, and its column command
   is no earlier than the decision. *)
LEMMA PickDecided ==
  ASSUME TypeOK, SlotsBounded, pending # {}, ~ bus_used => last_col_start_cycle = 0
  PROVE  /\ Pick \in Arrived /\ Pick.ready <= DecisionCycle
         /\ Placement(Pick).col >= DecisionCycle
<1> DEFINE Readies == {p.ready : p \in pending}
           oldest == Min(Readies)
<1>1. Pick \in pending /\ Pick.ready \in Nat
  BY PickPending DEF TypeOK, PendingCmd, Cycle
<1>2. Pick \in Arrived
  <2> DEFINE Seqs == {p.seq : p \in Contenders}
  <2>1. Contenders # {} /\ Contenders \subseteq pending
    BY SomeContender
  <2>2. Contenders \subseteq Arrived
    BY DEF Contenders, Starved, Eligible
  <2>3. Seqs \in SUBSET Nat /\ Seqs # {}
    BY <2>1 DEF TypeOK, PendingCmd
  <2>4. PICK p \in Contenders : p.seq = Min(Seqs) /\ \A x \in Seqs : Min(Seqs) <= x
    BY <2>3, NatMin
  <2>5. \A q \in Contenders : p.seq <= q.seq
    BY <2>4
  <2>6. Pick \in Contenders
    BY <2>4, <2>5 DEF Pick
  <2> QED
    BY <2>2, <2>6
<1>3. oldest \in Readies /\ \A x \in Readies : oldest <= x
  <2>1. Readies \in SUBSET Nat /\ Readies # {}
    BY <1>1 DEF TypeOK, PendingCmd, Cycle
  <2> QED
    BY <2>1, NatMin
<1>4. oldest \in Nat /\ oldest <= Pick.ready
  BY <1>1, <1>3 DEF TypeOK, PendingCmd, Cycle
<1>5. DecisionCycle
        = IF bus_used THEN Later(oldest, last_col_start_cycle + Cyc("tCCD_S")) ELSE oldest
  BY DEF DecisionCycle
<1> HIDE DEF oldest
<1>6. /\ Placement(Pick).col \in Nat /\ Placement(Pick).col >= Pick.ready
      /\ Placement(Pick).col >= TccdFloor(Pick)
  BY <1>1, ColumnAfterFloors, PlacementType DEF Placed
<1>7. bus_used => TccdFloor(Pick) >= last_col_start_cycle + Cyc("tCCD_S")
  BY LongerDurations, DurationsNat DEF TccdFloor, TypeOK, Cycle
<1>8. Cyc("tCCD_S") \in Nat /\ last_col_start_cycle \in Nat /\ TccdFloor(Pick) \in Nat
  BY <1>1, DurationsNat, FloorsNat DEF TypeOK, Cycle
<1>9. Placement(Pick).col >= DecisionCycle
  BY <1>1, <1>4, <1>5, <1>6, <1>7, <1>8 DEF Later
<1> QED
  BY <1>2, <1>9 DEF Arrived

(* What a drain issues. *)
LEMMA IssuedByDrain ==
  ASSUME NEW p, NEW t, NEW a \in Issued(Entry(p, t))
  PROVE  /\ a[2] # NoCycle /\ a[2] \in {t.ops.pre, t.ops.act, t.col}
         /\ a = <<"PRE", t.ops.pre>> \/ a = <<"ACT", t.ops.act>> \/ a = <<"COL", t.col>>
BY DEF Issued, Entry

LEMMA DrainKnown ==
  ASSUME KnownInv, DrainOne
  PROVE  PlacedWhenKnown'
<1> DEFINE p == Pick
           t == Placement(p)
           n == Len(log)
<1>1. IInv /\ LogTyped /\ CursorsCover /\ VisibleInTime /\ PlacedWhenKnown
      /\ p \in pending /\ Logs(p) /\ TypeOK /\ SlotsBounded
  BY DrainLogs DEF KnownInv, IInv
<1>2. p.ready <= DecisionCycle /\ t.col >= DecisionCycle
  BY <1>1, PickDecided DEF CursorsCover
<1> HIDE DEF p
<1>3. /\ RowOpsReserved(p, t.ops)
      /\ t.col >= p.ready /\ t.col >= TccdFloor(p) /\ t \in Placed
  BY <1>1, DrainReserves, ColumnAfterFloors, PlacementType
<1>4. t.col >= p.visible
  <2>1. /\ p.ready \in Nat /\ p.visible \in Nat /\ last_col_start_cycle \in Nat /\ t.col \in Nat
        /\ p.visible <= Later(p.ready, last_col_start_cycle)
        /\ TccdFloor(p) \in Nat
    BY <1>1, <1>3, FloorsNat DEF VisibleInTime, TypeOK, PendingCmd, Cycle, Placed
  <2>2. bus_used => TccdFloor(p) >= last_col_start_cycle
    BY <2>1, DurationsNat DEF TccdFloor
  <2> QED
    BY <1>1, <1>3, <2>1, <2>2 DEF CursorsCover, Later
<1>5. \A a \in Issued(Entry(p, t)) : a[2] >= p.visible
  <2> TAKE a \in Issued(Entry(p, t))
  <2>1. a[2] # NoCycle /\ a[2] \in {t.ops.pre, t.ops.act, t.col}
    BY IssuedByDrain
  <2> QED
    BY <1>3, <1>4, <2>1 DEF RowOpsReserved
<1>6. /\ log'[n + 1] = Entry(p, t)
      /\ n \in Nat /\ DOMAIN log = 1 .. n /\ DOMAIN log' = 1 .. n + 1
      /\ \A i \in 1 .. n : log'[i] = log[i]
  BY <1>1 DEF Logs
<1>7. /\ Entry(p, t).visible = p.visible /\ Entry(p, t).col = t.col
      /\ Entry(p, t).decided = DecisionCycle /\ Entry(p, t).ready = p.ready
  BY DEF Entry
<1> HIDE DEF t, n
<1>8. ASSUME NEW i \in 1 .. n + 1
      PROVE  /\ \A a \in Issued(log'[i]) : a[2] >= log'[i].visible
             /\ log'[i].col >= log'[i].decided
             /\ log'[i].decided >= log'[i].ready
  <2>1. CASE i = n + 1
    BY <1>2, <1>5, <1>6, <1>7, <2>1 DEF p
  <2>2. CASE i \in 1 .. n
    BY <1>1, <1>6, <2>2 DEF PlacedWhenKnown
  <2> QED
    BY <1>6, <2>1, <2>2
<1> QED
  BY <1>6, <1>8 DEF PlacedWhenKnown, Issued

LEMMA VisibleStep ==
  ASSUME KnownInv, Next
  PROVE  VisibleInTime'
<1>1. ASSUME NEW cmd \in Requests, NEW ready \in Arrivals, Submit(cmd, ready)
      PROVE  VisibleInTime'
  <2>1. ready \in Nat /\ last_col_start_cycle \in Nat
    BY CallerAssumption DEF KnownInv, IInv, TypeOK, Cycle
  <2>2. ready <= Later(ready, last_col_start_cycle)
    BY <2>1 DEF Later
  <2>3. last_col_start_cycle' = last_col_start_cycle
    BY <1>1 DEF Submit, TryAdmit, busVars
  <2>4. \A q \in pending' :
          \/ q \in pending
          \/ q.ready = ready /\ q.visible = Later(ready, last_col_start_cycle)
    <3> DEFINE new == [bank |-> cmd.bank, row |-> cmd.row, type |-> cmd.type,
                       bytes |-> cmd.bytes, ready |-> ready,
                       visible |-> Later(ready, last_col_start_cycle),
                       seq |-> next_seq, skip_count |-> 0]
    <3>1. pending' = pending \cup {new}
      BY <1>1 DEF Submit, TryAdmit
    <3>2. new.ready = ready /\ new.visible = Later(ready, last_col_start_cycle)
      OBVIOUS
    <3> HIDE DEF new
    <3> QED
      BY <3>1, <3>2
  <2>5. Later(ready, last_col_start_cycle) \in Nat
    BY <2>1 DEF Later
  <2> QED
    BY <2>2, <2>3, <2>4, <2>5 DEF KnownInv, VisibleInTime
<1>2. ASSUME DrainOne PROVE VisibleInTime'
  <2> DEFINE t == Placement(Pick)
  <2>1. Pick \in pending /\ Logs(Pick) /\ IInv /\ CursorsCover /\ VisibleInTime
    BY <1>2, DrainLogs DEF KnownInv
  <2>2. t.col \in Nat /\ t.col >= TccdFloor(Pick) /\ TccdFloor(Pick) \in Nat
    BY <2>1, ColumnAfterFloors, PlacementType, FloorsNat DEF IInv, Placed
  <2>3. last_col_start_cycle \in Nat /\ last_col_start_cycle <= t.col
    <3>1. last_col_start_cycle \in Nat
      BY <2>1 DEF IInv, TypeOK, Cycle
    <3>2. ~ bus_used => last_col_start_cycle = 0
      BY <2>1 DEF CursorsCover
    <3>3. bus_used => TccdFloor(Pick) >= last_col_start_cycle
      BY <3>1, DurationsNat DEF TccdFloor
    <3> HIDE DEF t
    <3> QED
      BY <2>2, <3>1, <3>2, <3>3
  <2>4. /\ last_col_start_cycle' = t.col
        /\ pending' = {[q EXCEPT !.skip_count = @ + 1] : q \in pending \ {Pick}}
    BY <2>1 DEF Logs, Drain, Aged
  <2> HIDE DEF t
  <2>5. \A q \in pending : q \in PendingCmd
    BY <2>1 DEF IInv, TypeOK
  <2>6. ASSUME NEW q \in pending'
        PROVE  q.ready <= q.visible /\ q.visible <= Later(q.ready, t.col)
    <3>1. PICK o \in pending \ {Pick} : q = [o EXCEPT !.skip_count = @ + 1]
      BY <2>4
    <3>2. o \in PendingCmd /\ q.ready = o.ready /\ q.visible = o.visible
      BY <2>5, <3>1 DEF PendingCmd
    <3>3. o.ready \in Nat /\ o.visible \in Nat
      BY <3>2 DEF PendingCmd, Cycle
    <3>4. o.ready <= o.visible /\ o.visible <= Later(o.ready, last_col_start_cycle)
      BY <2>1 DEF VisibleInTime
    <3> QED
      BY <2>2, <2>3, <3>2, <3>3, <3>4 DEF Later
  <2> QED
    BY <2>4, <2>6 DEF VisibleInTime
<1> QED
  BY <1>1, <1>2 DEF Next

LEMMA KnownStep == KnownInv /\ [Next]_vars => KnownInv'
<1> SUFFICES ASSUME KnownInv, [Next]_vars PROVE KnownInv'
  OBVIOUS
<1>1. IInv'
  BY NextInv DEF KnownInv
<1>2. ASSUME Next PROVE KnownInv'
  <2>1. LogTyped' /\ VisibleInTime'
    BY <1>2, LogTypedStep, VisibleStep DEF KnownInv
  <2>2. CASE \E cmd \in Requests, ready \in Arrivals : Submit(cmd, ready)
    <3>1. UNCHANGED <<busVars, log>>
      BY <2>2 DEF Submit, TryAdmit
    <3> QED
      BY <1>1, <2>1, <3>1 DEF KnownInv, CursorsCover, PlacedWhenKnown, busVars
  <2>3. CASE DrainOne
    <3>1. PlacedWhenKnown'
      BY <2>3, DrainKnown
    <3>2. CursorsCover'
      BY <2>3, DrainSpaces DEF KnownInv
    <3> QED
      BY <1>1, <2>1, <3>1, <3>2 DEF KnownInv
  <2> QED
    BY <1>2, <2>2, <2>3 DEF Next
<1>3. CASE UNCHANGED vars
  BY <1>1, <1>3 DEF KnownInv, LogTyped, CursorsCover, VisibleInTime, PlacedWhenKnown,
                    vars, queueVars, busVars
<1> QED
  BY <1>2, <1>3

LEMMA KnownInit == Init => KnownInv
<1> SUFFICES ASSUME Init PROVE KnownInv
  OBVIOUS
<1>1. log = <<>> /\ pending = {}
  BY DEF Init
<1>2. VisibleInTime /\ PlacedWhenKnown
  BY <1>1 DEF VisibleInTime, PlacedWhenKnown
<1> QED
  BY <1>2, SpacingInit DEF SpacingInv, KnownInv

(* However far back in time a drain reaches, no command of it, PRECHARGE and
   ACTIVATE included, issues before the controller knew of the request, and no
   column command before the decision that chose it. *)
THEOREM NothingPlacedTooEarly == Spec => []PlacedWhenKnown
<1>1. KnownInv => PlacedWhenKnown
  BY DEF KnownInv
<1> QED
  BY <1>1, KnownInit, KnownStep, PTL DEF Spec

-----------------------------------------------------------------------------
(***************************************************************************)
(* The command bus, for callers whose ready cycles never decrease.         *)
(***************************************************************************)
SlotInv == KnownInv /\ SlotsRemembered /\ CommandBusExclusive

LEMMA OverlapEither == \A s, t \in Nat : Overlap(s, t) <=> Overlap(t, s)
BY SlotAssumption DEF Overlap

(* Each command of a drain is free of all slots reserved before, and known of. *)
LEMMA NewCommands ==
  ASSUME KnownInv, NEW p \in pending, NEW a \in Issued(Entry(p, Placement(p)))
  PROVE  LET t == Placement(p)
         IN  /\ a[2] \in Nat /\ a[2] >= p.ready /\ p.ready \in Nat
             /\ Free(cmd_bus_slots, a[2]) /\ cmd_bus_slots \subseteq t.ops.slots
             /\ a[2] \in t.ops.slots \cup {t.col}
<1> DEFINE t == Placement(p)
<1>1. TypeOK /\ SlotsBounded /\ VisibleInTime
  BY DEF KnownInv, IInv
<1>2. /\ RowOpsReserved(p, t.ops) /\ Free(t.ops.slots, t.col)
      /\ t.col >= p.ready /\ t \in Placed
  BY <1>1, DrainReserves, ColumnAfterFloors, PlacementType
<1>3. a[2] # NoCycle /\ a[2] \in {t.ops.pre, t.ops.act, t.col}
  BY IssuedByDrain
<1>4. p.ready \in Nat /\ p.visible \in Nat /\ p.ready <= p.visible
  BY <1>1 DEF TypeOK, PendingCmd, Cycle, VisibleInTime
<1> HIDE DEF t
<1>5. t.col \in Nat /\ t.ops.slots \in SUBSET Nat
  BY <1>2 DEF Placed, Ops
<1>6. /\ cmd_bus_slots \subseteq With(cmd_bus_slots, t.ops.pre)
      /\ With(cmd_bus_slots, t.ops.pre) \subseteq t.ops.slots
      /\ cmd_bus_slots \subseteq t.ops.slots
  BY <1>2 DEF RowOpsReserved, With
<1>7. CASE a[2] = t.col
  BY <1>2, <1>4, <1>5, <1>6, <1>7 DEF Free, t
<1>8. CASE a[2] = t.ops.pre
  <2>1. a[2] \in Nat /\ a[2] >= p.visible /\ Free(cmd_bus_slots, a[2])
    BY <1>2, <1>3, <1>8 DEF RowOpsReserved, SlotFor
  <2>2. a[2] \in t.ops.slots
    BY <1>2, <1>3, <1>8 DEF RowOpsReserved, With
  <2> QED
    BY <1>4, <1>6, <2>1, <2>2 DEF t
<1>9. CASE a[2] = t.ops.act
  <2>1. /\ a[2] \in Nat /\ a[2] >= p.visible
        /\ Free(With(cmd_bus_slots, t.ops.pre), a[2])
    BY <1>2, <1>3, <1>9 DEF RowOpsReserved, SlotFor
  <2>2. a[2] \in t.ops.slots
    BY <1>2, <1>3, <1>9 DEF RowOpsReserved, With
  <2>3. Free(cmd_bus_slots, a[2])
    BY <1>6, <2>1 DEF Free
  <2> QED
    BY <1>4, <1>6, <2>1, <2>2, <2>3 DEF t
<1> QED
  BY <1>3, <1>7, <1>8, <1>9

(* The commands of one drain do not overlap. *)
LEMMA NewApart ==
  ASSUME KnownInv, NEW p \in pending,
         NEW a \in Issued(Entry(p, Placement(p))), NEW b \in Issued(Entry(p, Placement(p))),
         a # b
  PROVE  ~ Overlap(a[2], b[2])
<1> DEFINE t == Placement(p)
<1>1. RowOpsReserved(p, t.ops) /\ Free(t.ops.slots, t.col)
  BY DrainReserves DEF KnownInv, IInv
<1>2. a[2] \in Nat /\ b[2] \in Nat /\ a[2] # NoCycle /\ b[2] # NoCycle
  BY NewCommands, IssuedByDrain
<1>3. /\ a = <<"PRE", t.ops.pre>> \/ a = <<"ACT", t.ops.act>> \/ a = <<"COL", t.col>>
      /\ b = <<"PRE", t.ops.pre>> \/ b = <<"ACT", t.ops.act>> \/ b = <<"COL", t.col>>
  BY IssuedByDrain
<1> HIDE DEF t
<1>4. t.ops.pre # NoCycle /\ t.ops.act # NoCycle => ~ Overlap(t.ops.pre, t.ops.act)
  BY <1>1 DEF RowOpsReserved, SlotFor, With, Free
<1>5. t.ops.pre # NoCycle => ~ Overlap(t.ops.pre, t.col)
  BY <1>1 DEF RowOpsReserved, With, Free
<1>6. t.ops.act # NoCycle => ~ Overlap(t.ops.act, t.col)
  BY <1>1 DEF RowOpsReserved, With, Free
<1>7. ASSUME a = <<"PRE", t.ops.pre>>, b = <<"ACT", t.ops.act>> PROVE ~ Overlap(a[2], b[2])
  BY <1>2, <1>4, <1>7
<1>8. ASSUME a = <<"PRE", t.ops.pre>>, b = <<"COL", t.col>> PROVE ~ Overlap(a[2], b[2])
  BY <1>2, <1>5, <1>8
<1>9. ASSUME a = <<"ACT", t.ops.act>>, b = <<"COL", t.col>> PROVE ~ Overlap(a[2], b[2])
  BY <1>2, <1>6, <1>9
<1>10. ASSUME b = <<"PRE", t.ops.pre>>, a = <<"ACT", t.ops.act>> PROVE ~ Overlap(b[2], a[2])
  BY <1>2, <1>4, <1>10
<1>11. ASSUME b = <<"PRE", t.ops.pre>>, a = <<"COL", t.col>> PROVE ~ Overlap(b[2], a[2])
  BY <1>2, <1>5, <1>11
<1>12. ASSUME b = <<"ACT", t.ops.act>>, a = <<"COL", t.col>> PROVE ~ Overlap(b[2], a[2])
  BY <1>2, <1>6, <1>12
<1> QED
  BY <1>2, <1>3, <1>7, <1>8, <1>9, <1>10, <1>11, <1>12, OverlapEither

LEMMA DrainExclusive ==
  ASSUME SlotInv, DrainOne
  PROVE  CommandBusExclusive'
<1> DEFINE p == Pick
           n == Len(log)
           e == Entry(p, Placement(p))
<1>1. KnownInv /\ SlotsRemembered /\ CommandBusExclusive /\ p \in pending /\ Logs(p)
  BY DrainLogs DEF SlotInv, KnownInv
<1> HIDE DEF p
<1>2. /\ n \in Nat /\ DOMAIN log = 1 .. n /\ DOMAIN log' = 1 .. n + 1
      /\ \A i \in 1 .. n : log'[i] = log[i]
      /\ log'[n + 1] = e
  BY <1>1 DEF Logs
<1> HIDE DEF n
<1>3. ASSUME NEW i \in 1 .. n, NEW a \in Issued(log[i]), NEW b \in Issued(e)
      PROVE  ~ Overlap(a[2], b[2]) /\ ~ Overlap(b[2], a[2])
  <2>1. /\ b[2] \in Nat /\ b[2] >= p.ready /\ p.ready \in Nat /\ Free(cmd_bus_slots, b[2])
    BY <1>1, NewCommands
  <2>2. a[2] \in Nat
    <3>1. log[i] \in LogEntry
      BY <1>1, <1>2 DEF Logs
    <3> QED
      BY <3>1 DEF Issued, LogEntry
  <2>3. a[2] \in cmd_bus_slots \/ Behind(a[2])
    BY <1>1, <1>2 DEF SlotsRemembered
  <2>4. CASE a[2] \in cmd_bus_slots
    BY <2>1, <2>2, <2>4, OverlapEither DEF Free
  <2>5. CASE Behind(a[2])
    <3>1. a[2] + CmdSlotCycles <= p.ready
      BY <1>1, <2>5 DEF Behind
    <3> QED
      BY <2>1, <2>2, <3>1, SlotAssumption DEF Overlap
  <2> QED
    BY <2>3, <2>4, <2>5
<1>4. ASSUME NEW a \in Issued(e), NEW b \in Issued(e), a # b PROVE ~ Overlap(a[2], b[2])
  BY <1>1, <1>4, NewApart
<1> HIDE DEF e
<1> SUFFICES ASSUME NEW i \in 1 .. n + 1, NEW j \in 1 .. n + 1,
                    NEW a \in Issued(log'[i]), NEW b \in Issued(log'[j]),
                    <<i, a>> # <<j, b>>
             PROVE  ~ Overlap(a[2], b[2])
  BY <1>2 DEF CommandBusExclusive, Issued, Overlap
<1>5. CASE i \in 1 .. n /\ j \in 1 .. n
  BY <1>1, <1>2, <1>5 DEF CommandBusExclusive
<1>6. CASE i \in 1 .. n /\ j = n + 1
  BY <1>2, <1>3, <1>6
<1>7. CASE i = n + 1 /\ j \in 1 .. n
  BY <1>2, <1>3, <1>7
<1>8. CASE i = n + 1 /\ j = n + 1
  BY <1>2, <1>4, <1>8
<1> QED
  BY <1>2, <1>5, <1>6, <1>7, <1>8

(* The horizon is no later than any ready cycle still to come. *)
LEMMA HorizonFirst ==
  ASSUME TypeOK, NEW rest \in SUBSET pending
  PROVE  /\ Horizon(rest) \in Nat /\ Horizon(rest) <= last_admitted_ready_cycle
         /\ \A q \in rest : Horizon(rest) <= q.ready
<1> DEFINE H == {last_admitted_ready_cycle} \cup {q.ready : q \in rest}
<1>1. H \in SUBSET Nat /\ H # {}
  BY DEF TypeOK, PendingCmd, Cycle
<1>2. Min(H) \in H /\ \A x \in H : Min(H) <= x
  BY <1>1, NatMin
<1>3. Horizon(rest) = Min(H)
  BY DEF Horizon
<1> QED
  BY <1>1, <1>2, <1>3

LEMMA DrainRemembers ==
  ASSUME SlotInv, DrainOne
  PROVE  SlotsRemembered'
<1> DEFINE p == Pick
           n == Len(log)
           t == Placement(p)
           e == Entry(p, t)
           used == t.ops.slots \cup {t.col}
           horizon == Horizon(pending \ {p})
<1>1. KnownInv /\ SlotsRemembered /\ TypeOK /\ p \in pending /\ Logs(p)
  BY DrainLogs DEF SlotInv, KnownInv, IInv
<1> HIDE DEF p
<1>2. /\ n \in Nat /\ DOMAIN log = 1 .. n /\ DOMAIN log' = 1 .. n + 1
      /\ \A i \in 1 .. n : log'[i] = log[i] /\ log[i] \in LogEntry
      /\ log'[n + 1] = e
      /\ cmd_bus_slots' = Prune(used, horizon)
      /\ pending' = {[q EXCEPT !.skip_count = @ + 1] : q \in pending \ {p}}
      /\ last_admitted_ready_cycle' = last_admitted_ready_cycle
  BY <1>1 DEF Logs, Drain, Aged
<1>3. /\ horizon <= last_admitted_ready_cycle /\ horizon \in Nat
      /\ \A q \in pending \ {p} : horizon <= q.ready
  BY <1>1, HorizonFirst
<1>4. \A q \in pending' : \E o \in pending \ {p} : q.ready = o.ready
  <2> TAKE q \in pending'
  <2>1. PICK o \in pending \ {p} : q = [o EXCEPT !.skip_count = @ + 1]
    BY <1>2
  <2>2. o \in PendingCmd
    BY <1>1 DEF TypeOK
  <2>3. q.ready = o.ready
    BY <2>1, <2>2 DEF PendingCmd
  <2> QED
    BY <2>3
<1> HIDE DEF n, e, used, horizon
<1>5. \A q \in pending : q.ready \in Nat
  BY <1>1 DEF TypeOK, PendingCmd, Cycle
<1>6. ASSUME NEW s \in Nat, s \in used PROVE s \in cmd_bus_slots' \/ Behind(s)'
  <2>1. CASE s + CmdSlotCycles > horizon
    BY <1>2, <1>6, <2>1 DEF Prune
  <2>2. CASE s + CmdSlotCycles <= horizon
    <3>1. s + CmdSlotCycles <= last_admitted_ready_cycle'
      BY <1>1, <1>2, <1>3, <2>2, SlotAssumption DEF TypeOK, Cycle
    <3>2. \A q \in pending' : s + CmdSlotCycles <= q.ready
      BY <1>3, <1>4, <1>5, <2>2, SlotAssumption
    <3> QED
      BY <3>1, <3>2 DEF Behind
  <2> QED
    BY <1>3, <2>1, <2>2, SlotAssumption
<1>7. ASSUME NEW s, Behind(s) PROVE Behind(s)'
  BY <1>2, <1>4, <1>7 DEF Behind
<1>8. cmd_bus_slots \subseteq used
  <2>1. PICK a \in Issued(e) : TRUE
    <3>1. t.col \in Nat
      BY <1>1, PlacementType DEF KnownInv, IInv, Placed
    <3>2. <<"COL", t.col>> \in Issued(e)
      BY <3>1 DEF Issued, Entry, e, NoCycle
    <3> QED
      BY <3>2
  <2> QED
    BY <1>1, <2>1, NewCommands DEF e, used
<1>9. ASSUME NEW a \in Issued(e) PROVE a[2] \in Nat /\ a[2] \in used
  BY <1>1, <1>9, NewCommands DEF e, used
<1>10. ASSUME NEW i \in 1 .. n, NEW a \in Issued(log[i])
       PROVE  a[2] \in cmd_bus_slots' \/ Behind(a[2])'
  <2>1. a[2] \in Nat
    BY <1>2 DEF Issued, LogEntry
  <2>2. a[2] \in cmd_bus_slots \/ Behind(a[2])
    BY <1>1, <1>2 DEF SlotsRemembered
  <2> QED
    BY <1>6, <1>7, <1>8, <2>1, <2>2
<1>11. ASSUME NEW i \in 1 .. n + 1, NEW a \in Issued(log'[i])
       PROVE  a[2] \in cmd_bus_slots' \/ Behind(a[2])'
  <2>1. CASE i \in 1 .. n
    BY <1>2, <1>10, <2>1
  <2>2. CASE i = n + 1
    BY <1>2, <1>6, <1>9, <2>2
  <2> QED
    BY <1>2, <2>1, <2>2
<1> QED
  BY <1>2, <1>11 DEF SlotsRemembered, Issued, Behind

LEMMA SlotStep ==
  ASSUME InOrderArrivals
  PROVE  SlotInv /\ [Next]_vars => SlotInv'
<1> SUFFICES ASSUME SlotInv, [Next]_vars PROVE SlotInv'
  OBVIOUS
<1>1. KnownInv'
  BY KnownStep DEF SlotInv
<1>2. ASSUME NEW cmd \in Requests, NEW ready \in Arrivals, Submit(cmd, ready) PROVE SlotInv'
  <2>1. /\ ready \in Nat /\ last_admitted_ready_cycle \in Nat
        /\ ready >= last_admitted_ready_cycle
    BY <1>2, CallerAssumption DEF Submit, SlotInv, KnownInv, IInv, TypeOK, Cycle
  <2>2. /\ last_admitted_ready_cycle' = ready
        /\ UNCHANGED <<log, cmd_bus_slots>>
    BY <1>2, <2>1 DEF Submit, TryAdmit, Later, busVars
  <2>3. \A q \in pending' : q \in pending \/ q.ready = ready
    <3> DEFINE new == [bank |-> cmd.bank, row |-> cmd.row, type |-> cmd.type,
                       bytes |-> cmd.bytes, ready |-> ready,
                       visible |-> Later(ready, last_col_start_cycle),
                       seq |-> next_seq, skip_count |-> 0]
    <3>1. pending' = pending \cup {new}
      BY <1>2 DEF Submit, TryAdmit
    <3>2. new.ready = ready
      OBVIOUS
    <3> HIDE DEF new
    <3> QED
      BY <3>1, <3>2
  <2>4. ASSUME NEW s \in Nat, Behind(s) PROVE Behind(s)'
    <3>1. s + CmdSlotCycles <= ready
      BY <2>1, <2>4, SlotAssumption DEF Behind
    <3> QED
      BY <2>2, <2>3, <2>4, <3>1 DEF Behind
  <2>5. ASSUME NEW i \in DOMAIN log, NEW a \in Issued(log[i]) PROVE a[2] \in Nat
    <3>1. log \in Seq(LogEntry)
      BY DEF SlotInv, KnownInv, LogTyped
    <3>2. log[i] \in LogEntry
      BY <3>1, LenProperties
    <3> QED
      BY <3>2 DEF Issued, LogEntry
  <2>6. ASSUME NEW i \in DOMAIN log, NEW a \in Issued(log[i])
        PROVE  a[2] \in cmd_bus_slots \/ Behind(a[2])'
    BY <2>4, <2>5 DEF SlotInv, SlotsRemembered
  <2>7. SlotsRemembered'
    BY <2>2, <2>6 DEF SlotsRemembered
  <2>8. CommandBusExclusive'
    BY <2>2 DEF SlotInv, CommandBusExclusive
  <2> QED
    BY <1>1, <2>7, <2>8 DEF SlotInv
<1>3. CASE DrainOne
  BY <1>1, <1>3, DrainExclusive, DrainRemembers DEF SlotInv
<1>4. CASE UNCHANGED vars
  BY <1>1, <1>4 DEF SlotInv, SlotsRemembered, Behind, CommandBusExclusive,
                    vars, queueVars, busVars
<1> QED
  BY <1>2, <1>3, <1>4 DEF Next

LEMMA SlotInit == Init => SlotInv
<1> SUFFICES ASSUME Init PROVE SlotInv
  OBVIOUS
<1>1. log = <<>>
  BY DEF Init
<1>2. SlotsRemembered /\ CommandBusExclusive
  BY <1>1 DEF SlotsRemembered, CommandBusExclusive
<1> QED
  BY <1>2, KnownInit DEF SlotInv

(* As long as ready cycles do not decrease, no two commands a channel ever
   places hold the command bus at once, although rows are opened back in time
   and prune_cmd_bus_slots forgets: what it forgets is never wanted again. *)
THEOREM CommandBusStaysExclusive ==
  ASSUME InOrderArrivals
  PROVE  Spec => []CommandBusExclusive
<1>1. SlotInv => CommandBusExclusive
  BY DEF SlotInv
<1>2. SlotInv /\ [Next]_vars => SlotInv'
  BY SlotStep
<1> QED
  BY <1>1, <1>2, SlotInit, PTL DEF Spec

-----------------------------------------------------------------------------
(***************************************************************************)
(* Refresh boundaries and the placement of row operations.                 *)
(***************************************************************************)
(* A cycle that is not before the end of the last refresh a cursor has left
   behind; before its first there is none. *)
Past(c, due) == due = Cyc("tREFI") \/ c >= RefreshEnd(due)

(* Progress from a cursor at `first`: nothing was performed, or the last refresh
   performed fell due by `bound` and ended where the cursor says. *)
Advanced(r, first, bound) ==
  /\ r \in RefreshProgress /\ Boundary(r.due) /\ r.due >= first
  /\ r.due = first => r.end = 0
  /\ r.due # first => /\ r.end = RefreshEnd(r.due)
                      /\ r.due - Cyc("tREFI") >= first /\ r.due - Cyc("tREFI") <= bound

LEMMA AdvanceFurther ==
  ASSUME NEW r, NEW first \in Nat, NEW bound \in Nat, NEW cycle \in Nat,
         Advanced(r, first, bound), cycle <= bound
  PROVE  Advanced(ApplyRefresh(r, cycle), first, bound)
<1> DEFINE q == ApplyRefresh(r, cycle)
<1>1. r \in RefreshProgress /\ Boundary(r.due) /\ Cyc("tREFI") \in Nat /\ r.due \in Nat
  BY RefreshPeriod, RefreshAssumption DEF Advanced, RefreshProgress
<1>2. /\ q \in RefreshProgress /\ Boundary(q.due) /\ q.due >= r.due
      /\ q.due = r.due => q.end = r.end
      /\ q.due # r.due => /\ q.end = RefreshEnd(q.due) /\ q.due - Cyc("tREFI") <= cycle
                          /\ q.due - Cyc("tREFI") >= r.due
  BY <1>1, ApplyRefreshMoves, RefreshAssumption
<1>3. q.due \in Nat
  BY <1>2 DEF RefreshProgress
<1> HIDE DEF q
<1>4. ASSUME q.due = r.due PROVE Advanced(q, first, bound)
  BY <1>1, <1>2, <1>3, <1>4 DEF Advanced
<1>5. ASSUME q.due # r.due PROVE Advanced(q, first, bound)
  <2>1. q.due # first /\ q.due >= first /\ q.due - Cyc("tREFI") >= first
    BY <1>1, <1>2, <1>3, <1>5 DEF Advanced
  <2>2. q.due - Cyc("tREFI") <= bound
    BY <1>1, <1>2, <1>3, <1>5
  <2> QED
    BY <1>2, <1>5, <2>1, <2>2 DEF Advanced
<1> QED
  BY <1>4, <1>5 DEF q

LEMMA PastType ==
  ASSUME NEW due, Boundary(due), NEW c \in Nat, NEW d \in Nat, c <= d, Past(c, due)
  PROVE  Past(d, due)
<1>1. due \in Nat /\ Cyc("tREFI") \in Nat /\ Cyc("tRFC") \in Nat
  BY BoundaryType, RefreshPeriod, RefreshAssumption
<1> QED
  BY <1>1 DEF Past, RefreshEnd

LEMMA PastFurther ==
  ASSUME NEW r \in RefreshProgress, Boundary(r.due), NEW cycle \in Nat, Past(cycle, r.due)
  PROVE  LET q == ApplyRefresh(r, cycle) IN Past(q.at, q.due)
<1> DEFINE q == ApplyRefresh(r, cycle)
<1>1. /\ q.due = r.due => q.at = cycle
      /\ q.due # r.due => q.end = RefreshEnd(q.due) /\ q.at >= q.end
  BY ApplyRefreshMoves, RefreshAssumption
<1> HIDE DEF q
<1> QED
  BY <1>1 DEF Past, q

LEMMA WholePeriods ==
  ASSUME NEW period \in Nat \ {0}, NEW x \in Nat, NEW n \in Nat,
         n * period <= x, x < n * period + period
  PROVE  x % period = x - n * period
<1>1. x % period = x - period * (x \div period) /\ x \div period \in Nat
  <2>1. x % period = x - period * (x \div period)
    BY Z3
  <2> QED
    BY <2>1
<1>2. n + 1 \in Nat /\ (n + 1) * period = n * period + period /\ n * period \in Nat
  OBVIOUS
<1>3. ~ (x \div period < n) /\ x \div period < n + 1
  BY <1>2, DivBelow
<1>4. x \div period = n
  BY <1>1, <1>3
<1>5. period * n = n * period
  OBVIOUS
<1> QED
  BY <1>1, <1>4, <1>5

(* What is past the last refresh and before the next is in no refresh window. *)
LEMMA ClearOfRefresh ==
  ASSUME NEW due, Boundary(due), NEW c \in Nat, c < due, Past(c, due)
  PROVE  ~ InRefresh(c)
<1> DEFINE T == Cyc("tREFI")
<1>1. T \in Nat \ {0} /\ Cyc("tRFC") \in Nat /\ due \in Nat /\ due >= T
  BY BoundaryType, RefreshPeriod, RefreshAssumption
<1>2. PICK k \in Nat \ {0} : due = k * T
  BY DEF Boundary
<1>3. CASE due = T
  BY <1>1, <1>3 DEF InRefresh
<1>4. CASE due # T
  <2>1. c >= due - T + Cyc("tRFC")
    BY <1>4 DEF Past, RefreshEnd
  <2>2. k - 1 \in Nat /\ (k - 1) * T = due - T /\ due - T \in Nat
    BY <1>1, <1>2
  <2> DEFINE rest == c - (due - T)
  <2>3. rest \in Nat /\ rest < T /\ rest >= Cyc("tRFC")
    BY <1>1, <2>1, <2>2
  <2>4. (k - 1) * T <= c /\ c < (k - 1) * T + T
    BY <1>1, <2>1, <2>2
  <2>5. c % T = c - (k - 1) * T
    BY <1>1, <2>2, <2>4, WholePeriods
  <2>6. c % T = rest
    BY <2>2, <2>5
  <2> HIDE DEF rest, T
  <2> QED
    BY <1>1, <2>3, <2>6 DEF InRefresh, T
<1> QED
  BY <1>3, <1>4

(* Cycles on the two sides of a boundary have a refresh between them, cycles of
   one period none. *)
LEMMA BoundaryBetween ==
  ASSUME NEW due, Boundary(due), NEW a \in Nat, NEW b \in Nat
  PROVE  /\ a < due /\ due <= b => RefreshBetween(a, b)
         /\ a >= due - Cyc("tREFI") /\ b < due => ~ RefreshBetween(a, b)
<1> DEFINE T == Cyc("tREFI")
<1>1. T \in Nat \ {0} /\ due \in Nat /\ due >= T
  BY BoundaryType, RefreshAssumption
<1>2. PICK k \in Nat \ {0} : due = k * T
  BY DEF Boundary
<1>3. k - 1 \in Nat /\ (k - 1) * T = due - T
  BY <1>1, <1>2
<1> HIDE DEF T
<1>4. \A x, n \in Nat : (x \div T < n) <=> (x < n * T)
  BY <1>1, DivBelow
<1>5. a \div T \in Nat /\ b \div T \in Nat
  BY <1>1
<1>6. ASSUME a < due, due <= b PROVE a \div T < b \div T
  <2>1. a \div T < k /\ ~ (b \div T < k)
    BY <1>1, <1>2, <1>4, <1>6
  <2> QED
    BY <1>5, <2>1
<1>7. ASSUME a >= due - T, b < due PROVE ~ (a \div T < b \div T)
  <2>1. b \div T < k /\ ~ (a \div T < k - 1)
    BY <1>1, <1>2, <1>3, <1>4, <1>7
  <2> QED
    BY <1>5, <2>1
<1> QED
  BY <1>6, <1>7 DEF RefreshBetween, T

LEMMA BetweenLater ==
  ASSUME NEW a \in Nat, NEW b \in Nat, NEW c \in Nat, RefreshBetween(a, b), b <= c
  PROVE  RefreshBetween(a, c)
<1> DEFINE T == Cyc("tREFI")
<1>1. T \in Nat \ {0}
  BY RefreshPeriod, RefreshAssumption
<1> HIDE DEF T
<1>2. a \div T \in Nat /\ b \div T \in Nat /\ c \div T \in Nat /\ a \div T < b \div T
  BY <1>1 DEF RefreshBetween, T
<1>3. ~ (b \div T < b \div T) /\ ~ (b < (b \div T) * T)
  BY <1>1, <1>2, DivBelow
<1>4. (b \div T) * T \in Nat
  BY <1>1, <1>2
<1>5. ~ (c < (b \div T) * T)
  BY <1>3, <1>4
<1>6. ~ (c \div T < b \div T)
  BY <1>1, <1>2, <1>5, DivBelow
<1> QED
  BY <1>2, <1>6 DEF RefreshBetween, T

(* A command asked for outside the refresh windows, on the first free slot. *)
FromClear(slots, c) ==
  \E at \in Nat : ~ InRefresh(at) /\ at <= c /\ c = ReserveSlot(slots, at)

(* An ACT of p's rank keeps tRRD and tFAW to those the rank remembers, and the
   rank goes on remembering what it may still need. *)
SpacedActs(p, ops) ==
  LET rank  == ranks[RankOf(p.bank)]
      acts  == rank.recent_activates
      gap   == Cyc(IF rank.last_activate_bankgroup = GroupOf(p.bank) THEN "tRRD_L" ELSE "tRRD_S")
  IN  \E gated \in Nat :
        /\ gated <= ops.act
        /\ acts # <<>> => gated >= acts[Len(acts)] + gap
        /\ Len(acts) >= 4 => gated >= acts[1] + Cyc("tFAW")
        /\ ops.acts = Append(StillInWindow(acts, gated), ops.act)

(* What place_activate does to the refresh progress r it is handed. *)
ActivateMoved(p, r, slots, floor, placed) ==
  /\ placed.act \in Nat /\ placed.act >= floor
  /\ placed.refresh \in RefreshProgress /\ Boundary(placed.refresh.due)
  /\ placed.refresh.due >= r.due
  /\ SpacedActs(p, placed)
  /\ Past(floor, r.due) =>
       Past(placed.act, placed.refresh.due) /\ FromClear(slots, placed.act)
  /\ \A first, bound \in Nat :
       Advanced(r, first, bound) /\ placed.act <= bound => Advanced(placed.refresh, first, bound)

LEMMA ActivateMoves ==
  ASSUME TypeOK, NEW p \in pending, NEW r \in RefreshProgress, Boundary(r.due),
         NEW slots \in SUBSET Nat, Bounded(slots), NEW floor \in Nat
  PROVE  ActivateMoved(p, r, slots, floor, PlaceActivate(p, r, slots, floor))
<1> DEFINE rank  == ranks[RankOf(p.bank)]
           acts  == rank.recent_activates
           last  == rank.last_activate_bankgroup
           first == ApplyRefresh(r, floor)
           gated == Gated(acts, last, GroupOf(p.bank), first.at)
           again == ApplyRefresh(first, gated)
           act   == ReserveSlot(slots, again.at)
           placed == PlaceActivate(p, r, slots, floor)
<1>1. acts \in Seq(Nat)
  BY DEF TypeOK, PendingCmd, Bank, RankOf, RankState, Cycle
<1>2. /\ first \in RefreshProgress /\ Boundary(first.due) /\ first.at >= floor
      /\ first.due >= r.due
  BY ApplyRefreshMoves, RefreshAssumption
<1>3. first.at \in Nat /\ first.due \in Nat /\ r.due \in Nat
  BY <1>2 DEF RefreshProgress
<1>4. /\ gated \in Nat /\ gated >= first.at
      /\ acts # <<>> => gated >= acts[Len(acts)]
                                   + Cyc(IF last = GroupOf(p.bank) THEN "tRRD_L" ELSE "tRRD_S")
      /\ Len(acts) >= 4 => gated >= acts[1] + Cyc("tFAW")
  BY <1>1, <1>3, GatedType, GatedSpaces
<1>5. placed = [act |-> act, refresh |-> again, slots |-> slots \cup {act},
                acts |-> Append(StillInWindow(acts, gated), act)]
  BY DEF PlaceActivate, ActivateFrom
<1>6. Past(floor, r.due) => Past(first.at, first.due)
  BY PastFurther
<1> HIDE DEF placed
<1>7. /\ again \in RefreshProgress /\ Boundary(again.due) /\ again.at >= gated
      /\ again.due >= first.due /\ again.at < again.due
  <2> HIDE DEF first, gated
  <2> QED
    BY <1>2, <1>4, ApplyRefreshMoves, RefreshAssumption
<1>8. again.at \in Nat /\ again.due \in Nat
  BY <1>7 DEF RefreshProgress
<1>9. act \in Nat /\ act >= again.at
  <2> HIDE DEF again
  <2> QED
    BY <1>8, ReserveSlotFree
<1>10. act >= gated /\ act >= floor /\ again.due >= r.due
  <2> HIDE DEF first, gated, again, act
  <2> QED
    BY <1>2, <1>3, <1>4, <1>7, <1>8, <1>9
<1>11. SpacedActs(p, placed)
  <2>1. placed.act = act /\ placed.acts = Append(StillInWindow(acts, gated), act)
    BY <1>5
  <2> HIDE DEF gated, act
  <2> QED
    BY <1>4, <1>10, <2>1 DEF SpacedActs
<1>12. ASSUME Past(floor, r.due)
       PROVE  Past(act, again.due) /\ FromClear(slots, act)
  <2>1. Past(first.at, first.due)
    BY <1>6, <1>12
  <2> HIDE DEF first
  <2>2. Past(gated, first.due)
    BY <1>2, <1>3, <1>4, <2>1, PastType
  <2> HIDE DEF gated
  <2>3. Past(again.at, again.due)
    BY <1>2, <1>4, <2>2, PastFurther
  <2>4. ~ InRefresh(again.at)
    <3> HIDE DEF again
    <3> QED
      BY <1>7, <1>8, <2>3, ClearOfRefresh
  <2>5. FromClear(slots, act)
    BY <1>8, <1>9, <2>4 DEF FromClear
  <2> HIDE DEF again, act
  <2>6. Past(act, again.due)
    BY <1>7, <1>8, <1>9, <2>3, PastType
  <2> QED
    BY <2>5, <2>6
<1>13. ASSUME NEW from \in Nat, NEW bound \in Nat, Advanced(r, from, bound), act <= bound
       PROVE  Advanced(again, from, bound)
  <2>1. floor <= bound
    <3> HIDE DEF act
    <3> QED
      BY <1>9, <1>10, <1>13
  <2>2. Advanced(first, from, bound)
    BY <1>13, <2>1, AdvanceFurther
  <2>3. gated <= bound
    <3> HIDE DEF act, gated
    <3> QED
      BY <1>4, <1>9, <1>10, <1>13
  <2> HIDE DEF first, gated
  <2> QED
    BY <1>4, <2>2, <2>3, AdvanceFurther
<1>14. placed.act = act /\ placed.refresh = again
  BY <1>5
<1> HIDE DEF act, again
<1> QED
  BY <1>7, <1>9, <1>10, <1>11, <1>12, <1>13, <1>14 DEF ActivateMoved, placed

Due(b) == ranks[RankOf(b)].next_refresh_due_cycle

(* Refresh cursors stand at boundaries, and none is further than a period past
   the last column command. *)
CursorsAtBoundaries ==
  \A r \in Ranks :
    /\ Boundary(ranks[r].next_refresh_due_cycle)
    /\ ranks[r].next_refresh_due_cycle <= last_col_start_cycle + Cyc("tREFI")

LEMMA DueType ==
  ASSUME TypeOK, CursorsAtBoundaries, NEW b \in Bank
  PROVE  /\ RankOf(b) \in Ranks /\ Due(b) \in Nat /\ Boundary(Due(b))
         /\ Due(b) <= last_col_start_cycle + Cyc("tREFI")
BY DEF TypeOK, CursorsAtBoundaries, Due, RankOf, Bank, RankState, Cycle

LEMMA SyncedMoves ==
  ASSUME TypeOK, CursorsAtBoundaries, NEW p \in pending
  PROVE  /\ Synced(p) \in RefreshProgress /\ Boundary(Synced(p).due)
         /\ \A bound \in Nat : ColumnFloor(p) <= bound => Advanced(Synced(p), Due(p.bank), bound)
         /\ Synced(p).due > ColumnFloor(p) /\ Synced(p).due > Synced(p).at
<1> DEFINE start == [at |-> 0, due |-> Due(p.bank), end |-> 0, blocked |-> 0]
           floor == ColumnFloor(p)
<1>1. p.bank \in Bank /\ floor \in Nat
  BY FloorsNat DEF TypeOK, PendingCmd
<1>2. Due(p.bank) \in Nat /\ Boundary(Due(p.bank))
  BY <1>1, DueType
<1>3. start \in RefreshProgress /\ start.due = Due(p.bank) /\ start.end = 0
  BY <1>2 DEF RefreshProgress
<1>4. Synced(p) = ApplyRefresh(start, floor)
  BY DEF Synced, Due
<1> HIDE DEF start, floor
<1>5. \A bound \in Nat : Advanced(start, Due(p.bank), bound)
  BY <1>2, <1>3 DEF Advanced
<1>6. Synced(p) \in RefreshProgress /\ Boundary(Synced(p).due) /\ Synced(p).due > floor
      /\ Synced(p).due > Synced(p).at
  BY <1>1, <1>2, <1>3, <1>4, ApplyRefreshMoves, RefreshAssumption
<1>7. ASSUME NEW bound \in Nat, floor <= bound PROVE Advanced(Synced(p), Due(p.bank), bound)
  BY <1>1, <1>2, <1>4, <1>5, <1>7, AdvanceFurther
<1> QED
  BY <1>6, <1>7 DEF floor

(* The row operations p needs on a bank left in this state. *)
RowOpsMoved(p, bank, ops) ==
  /\ ops.status # "Hit" /\ ops.act \in Nat /\ ops.row_ready \in Nat
  /\ ops.row_ready >= ops.act + Cyc("tRCD")
  /\ ops.refresh \in RefreshProgress /\ Boundary(ops.refresh.due)
  /\ ops.refresh.due > ops.act /\ ops.refresh.due >= Synced(p).due
  /\ ops.refresh.due > ops.row_ready /\ Past(ops.row_ready, ops.refresh.due)
  /\ SpacedActs(p, ops)
  /\ bank.open_row = NoRow =>
       ops.pre = NoCycle /\ ops.act >= bank.act_ready /\ FromClear(cmd_bus_slots, ops.act)
  /\ bank.open_row # NoRow =>
       /\ ops.pre \in Nat /\ ops.pre >= bank.precharge_ready
       /\ ops.act >= ops.pre + Cyc("tRP")
       /\ FromClear(cmd_bus_slots, ops.pre)
       /\ FromClear(cmd_bus_slots \cup {ops.pre}, ops.act)
  /\ \A bound \in Nat : ops.row_ready <= bound /\ ColumnFloor(p) <= bound
                        => Advanced(ops.refresh, Due(p.bank), bound)

(* What is left for a miss to do once its ACT is placed from progress r. *)
MissMoved(p, r, slots, ops) ==
  /\ ops.row_ready \in Nat /\ ops.row_ready >= ops.act + Cyc("tRCD")
  /\ ops.refresh \in RefreshProgress /\ Boundary(ops.refresh.due)
  /\ ops.refresh.due > ops.act /\ ops.refresh.due >= r.due
  /\ ops.refresh.due > ops.row_ready /\ Past(ops.row_ready, ops.refresh.due)
  /\ SpacedActs(p, ops) /\ FromClear(slots, ops.act)
  /\ \A first, bound \in Nat :
       Advanced(r, first, bound) /\ ops.row_ready <= bound => Advanced(ops.refresh, first, bound)

LEMMA MissMoves ==
  ASSUME NEW p, NEW status, NEW pre, NEW placed, NEW r, r.due \in Nat,
         NEW slots, NEW floor \in Nat,
         ActivateMoved(p, r, slots, floor, placed), Past(floor, r.due)
  PROVE  LET ops == MissOps(status, pre, placed) IN
         /\ ops.status = status /\ ops.pre = pre /\ ops.act = placed.act
         /\ MissMoved(p, r, slots, ops)
<1> DEFINE open == placed.act + Cyc("tRCD")
           refresh == ApplyRefresh(placed.refresh, open)
           ops == MissOps(status, pre, placed)
<1>1. /\ placed.act \in Nat /\ Cyc("tRCD") \in Nat
      /\ placed.refresh \in RefreshProgress /\ Boundary(placed.refresh.due)
      /\ placed.refresh.due >= r.due
      /\ Past(placed.act, placed.refresh.due) /\ FromClear(slots, placed.act)
  BY DurationsNat DEF ActivateMoved
<1>2. open \in Nat /\ open >= placed.act
  BY <1>1
<1>3. ops = [status |-> status, pre |-> pre, act |-> placed.act, acts |-> placed.acts,
             row_ready |-> refresh.at, refresh |-> refresh, slots |-> placed.slots]
  BY DEF MissOps
<1> HIDE DEF open, ops
<1>4. Past(open, placed.refresh.due)
  BY <1>1, <1>2, PastType
<1>5. /\ refresh \in RefreshProgress /\ Boundary(refresh.due)
      /\ refresh.at >= open /\ refresh.due > open /\ refresh.at < refresh.due
      /\ refresh.due >= placed.refresh.due
  BY <1>1, <1>2, ApplyRefreshMoves, RefreshAssumption
<1>6. Past(refresh.at, refresh.due)
  BY <1>1, <1>2, <1>4, PastFurther
<1>7. ASSUME NEW first \in Nat, NEW bound \in Nat, Advanced(r, first, bound),
             refresh.at <= bound
      PROVE  Advanced(refresh, first, bound)
  <2>1. placed.act <= bound /\ open <= bound
    <3> HIDE DEF refresh
    <3> QED
      BY <1>1, <1>2, <1>5, <1>7 DEF RefreshProgress
  <2>2. Advanced(placed.refresh, first, bound)
    BY <1>7, <2>1 DEF ActivateMoved
  <2> QED
    BY <1>2, <2>1, <2>2, AdvanceFurther
<1>8. SpacedActs(p, ops)
  BY <1>3 DEF SpacedActs, ActivateMoved
<1>9. refresh.at \in Nat /\ refresh.due \in Nat /\ placed.refresh.due \in Nat
  BY <1>1, <1>5 DEF RefreshProgress
<1>10. /\ ops.status = status /\ ops.pre = pre /\ ops.act = placed.act
       /\ ops.row_ready = refresh.at /\ ops.refresh = refresh
  BY <1>3
<1> HIDE DEF refresh
<1>11. refresh.due > placed.act /\ refresh.due >= r.due
  BY <1>1, <1>2, <1>5, <1>9
<1> QED
  BY <1>1, <1>5, <1>6, <1>7, <1>8, <1>9, <1>10, <1>11 DEF MissMoved, open, ops

LEMMA RowOpsMove ==
  ASSUME TypeOK, SlotsBounded, CursorsAtBoundaries, NEW p \in pending, NEW bank \in BankState,
         Past(bank.precharge_ready, Synced(p).due), Past(bank.act_ready, Synced(p).due)
  PROVE  RowOpsMoved(p, bank, RowOps(p, bank))
<1> DEFINE S      == Synced(p)
           open   == FromVisible(p, bank.precharge_ready)
           before == ApplyRefresh(S, open)
           pre    == ReserveSlot(cmd_bus_slots, before.at)
           again  == pre + Cyc("tRP")
           second == PlaceActivate(p, before, cmd_bus_slots \cup {pre}, again)
           ready  == FromVisible(p, bank.act_ready)
           only   == PlaceActivate(p, S, cmd_bus_slots, ready)
           ops    == RowOps(p, bank)
<1>1. cmd_bus_slots \in SUBSET Nat /\ Bounded(cmd_bus_slots)
  BY DEF TypeOK, SlotsBounded, Cycle
<1>2. /\ bank.precharge_ready \in Nat /\ bank.act_ready \in Nat
      /\ open \in Nat /\ ready \in Nat
      /\ open >= bank.precharge_ready /\ ready >= bank.act_ready
  BY DEF FromVisible, Later, BankState, TypeOK, PendingCmd, Cycle
<1>3. /\ S \in RefreshProgress /\ Boundary(S.due) /\ S.due \in Nat
      /\ \A bound \in Nat : ColumnFloor(p) <= bound => Advanced(S, Due(p.bank), bound)
  BY SyncedMoves DEF RefreshProgress
<1>4. ColumnFloor(p) \in Nat /\ p.bank \in Bank
  BY FloorsNat DEF TypeOK, PendingCmd
<1>5. Due(p.bank) \in Nat
  BY <1>4, DueType
<1>6. ops = IF bank.open_row = NoRow THEN MissOps("Empty", NoCycle, only)
            ELSE MissOps("Conflict", pre, second)
  BY DEF RowOps
<1> HIDE DEF S, open, ready
<1>7. Past(open, S.due) /\ Past(ready, S.due)
  BY <1>2, <1>3, PastType DEF S
<1>8. CASE bank.open_row = NoRow
  <2>1. ActivateMoved(p, S, cmd_bus_slots, ready, only)
    BY <1>1, <1>2, <1>3, ActivateMoves
  <2>2. only.act >= ready /\ only.act \in Nat
    BY <2>1 DEF ActivateMoved
  <2>3. ops = MissOps("Empty", NoCycle, only)
    BY <1>6, <1>8
  <2> HIDE DEF only, ops
  <2>4. /\ ops.status = "Empty" /\ ops.pre = NoCycle /\ ops.act = only.act
       /\ MissMoved(p, S, cmd_bus_slots, ops)
    BY <1>2, <1>3, <1>7, <2>1, <2>3, MissMoves
  <2>5. ops.act >= bank.act_ready
    BY <1>2, <2>2, <2>4
  <2>6. \A bound \in Nat : ops.row_ready <= bound /\ ColumnFloor(p) <= bound
                           => Advanced(ops.refresh, Due(p.bank), bound)
    BY <1>3, <1>5, <2>4 DEF MissMoved
  <2>7. RowOpsMoved(p, bank, ops)
    BY <1>8, <2>2, <2>4, <2>5, <2>6 DEF RowOpsMoved, MissMoved, S
  <2> QED
    BY <2>7 DEF ops
<1>9. CASE bank.open_row # NoRow
  <2>1. /\ before \in RefreshProgress /\ Boundary(before.due) /\ before.at >= open
        /\ before.due >= S.due /\ before.at < before.due
    BY <1>2, <1>3, ApplyRefreshMoves, RefreshAssumption
  <2>2. Past(before.at, before.due)
    BY <1>2, <1>3, <1>7, PastFurther
  <2>3. ASSUME NEW bound \in Nat, open <= bound, ColumnFloor(p) <= bound
        PROVE  Advanced(before, Due(p.bank), bound)
    BY <1>2, <1>3, <1>5, <2>3, AdvanceFurther
  <2> HIDE DEF before
  <2>4. before.at \in Nat /\ before.due \in Nat
    BY <2>1 DEF RefreshProgress
  <2>5. pre \in Nat /\ pre >= before.at
    BY <1>1, <2>4, ReserveSlotFree
  <2>6. FromClear(cmd_bus_slots, pre)
    <3>1. ~ InRefresh(before.at)
      BY <2>1, <2>2, <2>4, ClearOfRefresh
    <3> QED
      BY <2>4, <2>5, <3>1 DEF FromClear
  <2> HIDE DEF pre
  <2>7. again \in Nat /\ again >= pre
    BY <2>5, DurationsNat
  <2>8. cmd_bus_slots \cup {pre} \in SUBSET Nat /\ Bounded(cmd_bus_slots \cup {pre})
    BY <1>1, <2>5, BoundedAdd
  <2> HIDE DEF again
  <2>9. Past(again, before.due)
    <3>1. before.at <= again
      BY <2>4, <2>5, <2>7
    <3> QED
      BY <2>1, <2>2, <2>4, <2>7, <3>1, PastType
  <2>10. ActivateMoved(p, before, cmd_bus_slots \cup {pre}, again, second)
    BY <2>1, <2>7, <2>8, ActivateMoves
  <2>11. second.act >= again /\ second.act \in Nat
    BY <2>10 DEF ActivateMoved
  <2>12. ops = MissOps("Conflict", pre, second)
    BY <1>6, <1>9
  <2> HIDE DEF second, ops
  <2>13. /\ ops.status = "Conflict" /\ ops.pre = pre /\ ops.act = second.act
       /\ MissMoved(p, before, cmd_bus_slots \cup {pre}, ops)
    BY <2>4, <2>7, <2>9, <2>10, <2>12, MissMoves
  <2>14. /\ ops.pre >= bank.precharge_ready /\ ops.act >= ops.pre + Cyc("tRP")
    BY <1>2, <2>1, <2>4, <2>5, <2>11, <2>13 DEF again
  <2>15. ASSUME NEW bound \in Nat, ops.row_ready <= bound, ColumnFloor(p) <= bound
         PROVE  Advanced(ops.refresh, Due(p.bank), bound)
    <3>1. open <= bound
      BY <1>2, <2>1, <2>4, <2>5, <2>7, <2>11, <2>13, <2>15, DurationsNat DEF MissMoved, again
    <3>2. Advanced(before, Due(p.bank), bound)
      BY <2>3, <2>15, <3>1
    <3> QED
      BY <1>5, <2>13, <2>15, <3>2 DEF MissMoved
  <2>16. ops.refresh.due >= S.due
    BY <1>3, <2>1, <2>4, <2>13 DEF MissMoved, RefreshProgress
  <2>17. RowOpsMoved(p, bank, ops)
    BY <1>9, <2>5, <2>6, <2>11, <2>13, <2>14, <2>15, <2>16 DEF RowOpsMoved, MissMoved, S
  <2> QED
    BY <2>17 DEF ops
<1> QED
  BY <1>8, <1>9

LEMMA RefreshedShape ==
  ASSUME NEW bank \in BankState, NEW end \in Nat
  PROVE  LET seen == Refreshed(bank, end) IN
         /\ seen \in BankState /\ seen.row_opened_at = bank.row_opened_at
         /\ seen.last_col_start = bank.last_col_start
         /\ seen.precharge_ready >= bank.precharge_ready
         /\ seen.act_ready >= bank.act_ready
         /\ end = 0 => seen = bank
         /\ end # 0 => /\ seen.open_row = NoRow /\ seen.precharge_ready >= end
                       /\ seen.act_ready >= end
<1> DEFINE seen == Refreshed(bank, end)
<1>1. bank.precharge_ready \in Nat /\ bank.act_ready \in Nat
  BY DEF BankState, Cycle
<1>2. CASE end = 0
  <2>1. seen = bank
    BY <1>2 DEF Refreshed
  <2> HIDE DEF seen
  <2> QED
    BY <1>1, <1>2, <2>1 DEF seen
<1>3. CASE end # 0
  <2>1. seen = [bank EXCEPT !.open_row        = NoRow,
                            !.col_ready       = Later(@, end),
                            !.precharge_ready = Later(@, end),
                            !.act_ready       = Later(@, end)]
    BY <1>3 DEF Refreshed
  <2>2. /\ seen.open_row = NoRow /\ seen.row_opened_at = bank.row_opened_at
        /\ seen.last_col_start = bank.last_col_start
        /\ seen.precharge_ready = Later(bank.precharge_ready, end)
        /\ seen.act_ready = Later(bank.act_ready, end)
    BY <2>1 DEF BankState
  <2>3. seen \in BankState
    BY RefreshedType
  <2> HIDE DEF seen
  <2>4. seen.precharge_ready >= bank.precharge_ready /\ seen.act_ready >= bank.act_ready
        /\ seen.precharge_ready >= end /\ seen.act_ready >= end
    BY <1>1, <2>2 DEF Later
  <2> QED
    BY <1>3, <2>2, <2>3, <2>4 DEF seen
<1> QED
  BY <1>2, <1>3

(* The bank a command finds: as the last drain left it, unless a refresh or the
   idle timer has closed it since. *)
LEMMA FoundBankKeeps ==
  ASSUME TypeOK, CursorsAtBoundaries, NEW p \in pending
  PROVE  LET bank == FoundBank(p)
             left == banks[p.bank]
             S    == Synced(p)
         IN  /\ bank \in BankState /\ left \in BankState
             /\ bank.row_opened_at = left.row_opened_at
             /\ bank.precharge_ready >= left.precharge_ready
             /\ bank.act_ready >= left.act_ready
             /\ S.due # Due(p.bank) =>
                  /\ bank.open_row = NoRow /\ bank.precharge_ready >= RefreshEnd(S.due)
                  /\ bank.act_ready >= RefreshEnd(S.due)
             /\ bank.open_row # NoRow =>
                  /\ S.due = Due(p.bank) /\ bank.open_row = left.open_row
                  /\ Cfg.page_policy = "timer" => p.visible <= CloseAt(left)
             /\ bank.open_row = NoRow /\ left.open_row # NoRow /\ S.due = Due(p.bank) =>
                  bank.act_ready >= left.precharge_ready + Cyc("tRP")
<1> DEFINE bank == FoundBank(p)
           left == banks[p.bank]
           S    == Synced(p)
           seen == Refreshed(left, S.end)
<1>1. left \in BankState /\ p.visible \in Nat /\ p.bank \in Bank
  BY DEF TypeOK, PendingCmd, Cycle
<1>2. bank \in BankState
  BY FoundBankType
<1>3. ColumnFloor(p) \in Nat /\ Due(p.bank) \in Nat
  BY <1>1, FloorsNat, DueType
<1>4. Advanced(S, Due(p.bank), ColumnFloor(p))
  BY <1>3, SyncedMoves
<1>5. /\ S.end \in Nat /\ S.due \in Nat /\ Boundary(S.due)
      /\ S.due = Due(p.bank) => S.end = 0
      /\ S.due # Due(p.bank) => S.end = RefreshEnd(S.due) /\ S.due - Cyc("tREFI") >= Due(p.bank)
  BY <1>4 DEF Advanced, RefreshProgress
<1>6. S.due # Due(p.bank) => S.end # 0
  <2>1. Due(p.bank) >= Cyc("tREFI") /\ Cyc("tREFI") > 0 /\ Cyc("tREFI") \in Nat /\ Cyc("tRFC") \in Nat
    BY <1>1, DueType, BoundaryType, RefreshPeriod, RefreshAssumption
  <2> QED
    BY <1>3, <1>5, <2>1 DEF RefreshEnd
<1>7. bank = IF TimedOut(p, seen)
             THEN [seen EXCEPT !.open_row = NoRow,
                               !.act_ready = Later(@, TimerPrecharge(seen) + Cyc("tRP"))]
             ELSE seen
  BY DEF FoundBank
<1> HIDE DEF bank, left, S
<1>8. /\ seen \in BankState /\ seen.row_opened_at = left.row_opened_at
      /\ seen.last_col_start = left.last_col_start
      /\ seen.precharge_ready >= left.precharge_ready
      /\ seen.act_ready >= left.act_ready
      /\ S.end = 0 => seen = left
      /\ S.end # 0 => /\ seen.open_row = NoRow /\ seen.precharge_ready >= S.end
                      /\ seen.act_ready >= S.end
  BY <1>1, <1>5, RefreshedShape
<1> HIDE DEF seen
<1>9. /\ Cyc("tRP") \in Nat /\ Cyc("page_close_timer") \in Nat
  BY DurationsNat
<1>10. CASE ~ TimedOut(p, seen)
  <2>1. bank = seen
    BY <1>7, <1>10
  <2>2. bank.open_row # NoRow /\ Cfg.page_policy = "timer" => p.visible <= CloseAt(seen)
    BY <1>1, <1>8, <1>9, <1>10, <2>1 DEF TimedOut, CloseAt, BankState, Cycle
  <2>3. CloseAt(seen) = CloseAt(left)
    BY <1>8 DEF CloseAt
  <2> QED
    BY <1>1, <1>2, <1>5, <1>6, <1>8, <2>1, <2>2, <2>3 DEF bank, left, S
<1>11. CASE TimedOut(p, seen)
  <2>1. seen.open_row # NoRow
    BY <1>11 DEF TimedOut
  <2>2. S.due = Due(p.bank) /\ seen = left
    BY <1>5, <1>6, <1>8, <2>1
  <2>3. TimerPrecharge(left) \in Nat /\ TimerPrecharge(left) >= left.precharge_ready
    BY <1>1, <1>9 DEF TimerPrecharge, CloseAt, Later, BankState, Cycle
  <2>4. bank = [left EXCEPT !.open_row = NoRow,
                            !.act_ready = Later(@, TimerPrecharge(left) + Cyc("tRP"))]
    BY <1>7, <1>11, <2>2
  <2>5. /\ bank.open_row = NoRow /\ bank.row_opened_at = left.row_opened_at
        /\ bank.precharge_ready = left.precharge_ready
        /\ bank.act_ready = Later(left.act_ready, TimerPrecharge(left) + Cyc("tRP"))
    BY <1>1, <2>4 DEF BankState
  <2>6. left.act_ready \in Nat /\ left.precharge_ready \in Nat
    BY <1>1 DEF BankState, Cycle
  <2>7. bank.act_ready >= left.act_ready /\ bank.act_ready >= left.precharge_ready + Cyc("tRP")
    BY <1>9, <2>3, <2>5, <2>6 DEF Later
  <2> QED
    BY <1>1, <1>2, <2>2, <2>5, <2>6, <2>7 DEF bank, left, S
<1> QED
  BY <1>10, <1>11

(* A bank takes its PRE and its next ACT after the last refresh, and one that is
   open was last used after it. *)
BanksClear ==
  \A b \in Bank : /\ Past(banks[b].precharge_ready, Due(b))
                  /\ Past(banks[b].act_ready, Due(b))
                  /\ banks[b].last_col_start <= last_col_start_cycle
                  /\ banks[b].open_row # NoRow => Past(banks[b].last_col_start, Due(b))

(* Where a drain puts its commands, seen from the bank it finds. *)
DrainMoved(p, t) ==
  /\ t.bank = FoundBank(p)
  /\ Advanced(t.ops.refresh, Due(p.bank), t.col)
  /\ t.ops.refresh.due >= Synced(p).due
  /\ t.ops.status = "Hit" =>
       /\ t.bank.open_row = p.row /\ t.ops.pre = NoCycle /\ t.ops.act = NoCycle
       /\ t.ops.refresh = Synced(p) /\ t.ops.acts = ranks[RankOf(p.bank)].recent_activates
  /\ t.ops.status # "Hit" =>
       /\ t.bank.open_row # p.row /\ RowOpsMoved(p, t.bank, t.ops)
       /\ t.col >= t.ops.row_ready /\ FromClear(t.ops.slots, t.col)

LEMMA DrainMoves ==
  ASSUME TypeOK, SlotsBounded, CursorsAtBoundaries, BanksClear, NEW p \in pending
  PROVE  DrainMoved(p, Placement(p))
<1> DEFINE t    == Placement(p)
           bank == FoundBank(p)
           ops  == IF bank.open_row = p.row THEN HitOps(p, bank) ELSE RowOps(p, bank)
           S    == Synced(p)
           wanted == Later(S.at, ops.row_ready)
<1>1. /\ t.bank = bank /\ t.ops = ops /\ t.wanted = wanted
      /\ t.col = ReserveSlot(ops.slots, wanted)
  BY DEF Placement, PlacedWith
<1>2. /\ t \in Placed /\ t.col >= t.wanted /\ t.wanted >= S.at
      /\ ops.slots \in SUBSET Nat /\ Bounded(ops.slots)
  <2>1. bank \in BankState
    BY FoundBankType
  <2> HIDE DEF bank
  <2>2. ops \in Ops /\ Bounded(ops.slots)
    BY <2>1, HitOpsType, RowOpsType
  <2>3. ops.slots \in SUBSET Nat
    BY <2>2 DEF Ops
  <2> QED
    BY <2>2, <2>3, PlacementType
<1>3. /\ S \in RefreshProgress /\ Boundary(S.due) /\ S.due > S.at
      /\ S.at >= ColumnFloor(p) /\ ColumnFloor(p) \in Nat
      /\ S.at \in Nat /\ S.due \in Nat
      /\ \A bound \in Nat : ColumnFloor(p) <= bound => Advanced(S, Due(p.bank), bound)
  BY SyncedMoves, SyncedType, FloorsNat DEF RefreshProgress
<1>4. t.col \in Nat /\ t.wanted \in Nat
  BY <1>2 DEF Placed
<1>5. p.bank \in Bank
  BY DEF TypeOK, PendingCmd
<1> HIDE DEF t
<1>6. ColumnFloor(p) <= t.col
  BY <1>2, <1>3, <1>4
<1>7. CASE bank.open_row = p.row
  <2>1. ops = HitOps(p, bank)
    BY <1>7
  <2>2. /\ ops.status = "Hit" /\ ops.pre = NoCycle /\ ops.act = NoCycle
        /\ ops.refresh = S /\ ops.acts = ranks[RankOf(p.bank)].recent_activates
    BY <2>1 DEF HitOps
  <2>3. Advanced(S, Due(p.bank), t.col)
    BY <1>3, <1>4, <1>6
  <2> HIDE DEF ops, bank
  <2>4. DrainMoved(p, t)
    BY <1>1, <1>3, <1>7, <2>2, <2>3 DEF DrainMoved, S, bank
  <2> QED
    BY <2>4 DEF t
<1>8. CASE bank.open_row # p.row
  <2>1. ops = RowOps(p, bank)
    BY <1>8
  <2>2. /\ bank \in BankState /\ banks[p.bank] \in BankState
        /\ bank.precharge_ready >= banks[p.bank].precharge_ready
        /\ bank.act_ready >= banks[p.bank].act_ready
        /\ S.due # Due(p.bank) => /\ bank.precharge_ready >= RefreshEnd(S.due)
                                  /\ bank.act_ready >= RefreshEnd(S.due)
    BY FoundBankKeeps
  <2> HIDE DEF bank
  <2>3. Past(bank.precharge_ready, S.due) /\ Past(bank.act_ready, S.due)
    <3>1. CASE S.due # Due(p.bank)
      BY <2>2, <3>1 DEF Past
    <3>2. CASE S.due = Due(p.bank)
      <4>1. Past(banks[p.bank].precharge_ready, S.due) /\ Past(banks[p.bank].act_ready, S.due)
        BY <1>5, <3>2 DEF BanksClear
      <4>2. /\ banks[p.bank].precharge_ready \in Nat /\ banks[p.bank].act_ready \in Nat
            /\ bank.precharge_ready \in Nat /\ bank.act_ready \in Nat
        BY <2>2 DEF BankState, Cycle
      <4> QED
        BY <1>3, <2>2, <4>1, <4>2, PastType
    <3> QED
      BY <3>1, <3>2
  <2>4. RowOpsMoved(p, bank, ops)
    BY <2>1, <2>2, <2>3, RowOpsMove
  <2> HIDE DEF ops
  <2>5. /\ ops.row_ready \in Nat /\ ops.status # "Hit"
        /\ ops.refresh \in RefreshProgress /\ Boundary(ops.refresh.due)
        /\ ops.refresh.due > ops.row_ready /\ Past(ops.row_ready, ops.refresh.due)
        /\ ops.refresh.due >= S.due
    BY <2>4 DEF RowOpsMoved
  <2>6. wanted \in Nat /\ wanted >= ops.row_ready /\ wanted < ops.refresh.due
    BY <1>3, <2>5 DEF Later, RefreshProgress
  <2>7. ~ InRefresh(wanted)
    <3>1. Past(wanted, ops.refresh.due)
      BY <2>5, <2>6, PastType
    <3> QED
      BY <2>5, <2>6, <3>1, ClearOfRefresh
  <2>8. FromClear(ops.slots, t.col)
    BY <1>1, <1>2, <2>6, <2>7 DEF FromClear
  <2>9. t.col >= ops.row_ready
    BY <1>1, <1>2, <1>4, <2>5, <2>6
  <2>10. Advanced(ops.refresh, Due(p.bank), t.col)
    BY <1>4, <1>6, <2>4, <2>9 DEF RowOpsMoved
  <2>11. DrainMoved(p, t)
    BY <1>1, <1>8, <2>4, <2>5, <2>8, <2>9, <2>10 DEF DrainMoved, S, bank
  <2> QED
    BY <2>11 DEF t
<1> QED
  BY <1>7, <1>8

-----------------------------------------------------------------------------
(***************************************************************************)
(* What a drain leaves of banks and ranks.                                 *)
(***************************************************************************)
PlaceInv == KnownInv /\ CursorsAtBoundaries /\ BanksClear

(* The drain of p to t, as its banks see it. *)
Drained(p, t) ==
  /\ p = Pick /\ p \in pending /\ p.bank \in Bank /\ t = Placement(p)
  /\ t \in Placed /\ DrainMoved(p, t) /\ Drain(p, t) /\ Logs(p)
  /\ t.ops.status # "Hit" => t.ops.act \in Nat
  /\ last_col_start_cycle' = t.col /\ last_col_start_cycle <= t.col
  /\ t.ops.refresh.due > DecisionCycle /\ Synced(p).due > DecisionCycle
  /\ banks'[p.bank] = UsedBank(p, t)
  /\ \A b \in Bank :
       /\ RankOf(b) # RankOf(p.bank) => Due(b)' = Due(b) /\ banks'[b] = banks[b]
       /\ RankOf(b) = RankOf(p.bank) =>
            /\ Due(b)' = t.ops.refresh.due /\ Due(b) = Due(p.bank)
            /\ b # p.bank => banks'[b] = Refreshed(banks[b], t.ops.refresh.end)

LEMMA DrainDrains ==
  ASSUME PlaceInv, DrainOne
  PROVE  Drained(Pick, Placement(Pick))
<1> DEFINE p == Pick
           t == Placement(p)
<1>1. /\ IInv /\ TypeOK /\ SlotsBounded /\ CursorsCover /\ LogTyped
      /\ CursorsAtBoundaries /\ BanksClear
  BY DEF PlaceInv, KnownInv, IInv
<1>2. p \in pending /\ Logs(p) /\ Drain(p, t)
  BY <1>1, DrainLogs DEF Logs
<1>3. p.bank \in Bank /\ RankOf(p.bank) \in Ranks /\ p.ready \in Nat
  BY <1>1, <1>2 DEF TypeOK, PendingCmd, Bank, RankOf, Cycle
<1>4. t \in Placed /\ DrainMoved(p, t) /\ (t.ops.status # "Hit" => t.ops.act \in Nat)
  BY <1>1, <1>2, DrainMoves, PlacementType
<1>5. /\ last_col_start_cycle \in Nat /\ t.col \in Nat /\ t.col >= TccdFloor(p)
      /\ TccdFloor(p) \in Nat
      /\ ~ bus_used => last_col_start_cycle = 0
  BY <1>1, <1>2, <1>4, ColumnAfterFloors, FloorsNat DEF Placed, TypeOK, Cycle, CursorsCover
<1>12. last_col_start_cycle' = t.col
  BY <1>2 DEF Drain
<1> HIDE DEF p, t
<1>6. last_col_start_cycle <= t.col /\ last_col_start_cycle' = t.col
  <2>1. bus_used => TccdFloor(p) >= last_col_start_cycle
    BY <1>5, DurationsNat DEF TccdFloor
  <2> QED
    BY <1>5, <1>12, <2>1
<1>7. ColumnFloor(p) >= DecisionCycle /\ DecisionCycle \in Nat
  <2> DEFINE Readies == {q.ready : q \in pending}
             oldest == Min(Readies)
  <2>1. oldest \in Nat /\ oldest <= p.ready
    <3>1. Readies \in SUBSET Nat /\ p.ready \in Readies
      BY <1>1, <1>2 DEF TypeOK, PendingCmd, Cycle
    <3> HIDE DEF Readies
    <3> QED
      BY <3>1, NatMin
  <2>2. DecisionCycle
          = IF bus_used THEN Later(oldest, last_col_start_cycle + Cyc("tCCD_S")) ELSE oldest
    BY DEF DecisionCycle
  <2> HIDE DEF oldest
  <2>3. /\ TurnFloor(p) \in Nat /\ TwtrFloor(p) \in Nat /\ BusReady(p) \in Nat
        /\ BusFloor(p) \in Nat
    BY <1>1, <1>2, FloorsNat DEF BusFloor, Monus, TypeOK, Cycle
  <2>4. BusReady(p) >= p.ready /\ BusReady(p) >= TccdFloor(p)
    BY <1>3, <1>5, <2>3 DEF BusReady, Later
  <2>5. ColumnFloor(p) >= BusReady(p) /\ ColumnFloor(p) \in Nat
    BY <2>3 DEF ColumnFloor, Later
  <2>6. bus_used => TccdFloor(p) >= last_col_start_cycle + Cyc("tCCD_S")
    BY <1>5, LongerDurations, DurationsNat DEF TccdFloor
  <2> QED
    BY <1>3, <1>5, <2>1, <2>2, <2>3, <2>4, <2>5, <2>6, DurationsNat DEF Later
<1>8. t.ops.refresh.due > DecisionCycle /\ Synced(p).due > DecisionCycle
  <2>1. Synced(p).due > ColumnFloor(p) /\ Synced(p).due \in Nat /\ ColumnFloor(p) \in Nat
    BY <1>1, <1>2, SyncedMoves, FloorsNat DEF RefreshProgress
  <2>2. t.ops.refresh.due >= Synced(p).due /\ t.ops.refresh.due \in Nat
    BY <1>4 DEF DrainMoved, Advanced, RefreshProgress
  <2> QED
    BY <1>7, <2>1, <2>2
<1>9. banks' = BanksAfter(p, t) /\ ranks' = RanksAfter(p, t)
  BY <1>2 DEF Drain
<1>10. banks'[p.bank] = UsedBank(p, t)
  BY <1>3, <1>9 DEF BanksAfter
<1>11. ASSUME NEW b \in Bank
       PROVE  /\ RankOf(b) # RankOf(p.bank) => Due(b)' = Due(b) /\ banks'[b] = banks[b]
              /\ RankOf(b) = RankOf(p.bank) =>
                   /\ Due(b)' = t.ops.refresh.due /\ Due(b) = Due(p.bank)
                   /\ b # p.bank => banks'[b] = Refreshed(banks[b], t.ops.refresh.end)
  <2>1. ranks \in [Ranks -> RankState]
    BY <1>1 DEF TypeOK
  <2>2. \A r \in Ranks : ranks'[r].next_refresh_due_cycle
                           = IF r = RankOf(p.bank) THEN t.ops.refresh.due
                             ELSE ranks[r].next_refresh_due_cycle
    BY <1>3, <1>9, <2>1 DEF RanksAfter, RankState
  <2>3. RankOf(b) \in Ranks
    BY DEF Bank, RankOf
  <2>4. /\ RankOf(b) # RankOf(p.bank) => banks'[b] = banks[b]
        /\ RankOf(b) = RankOf(p.bank) /\ b # p.bank
             => banks'[b] = Refreshed(banks[b], t.ops.refresh.end)
    BY <1>9 DEF BanksAfter
  <2> QED
    BY <2>2, <2>3, <2>4 DEF Due
<1> QED
  BY <1>2, <1>3, <1>4, <1>6, <1>8, <1>10, <1>11 DEF Drained, p, t

LEMMA CursorsDrain ==
  ASSUME PlaceInv, DrainOne
  PROVE  CursorsAtBoundaries'
<1> DEFINE p == Pick
           t == Placement(p)
<1>1. Drained(p, t)
  BY DrainDrains
<1>2. /\ TypeOK /\ CursorsAtBoundaries
  BY DEF PlaceInv, KnownInv, IInv
<1> HIDE DEF p, t
<1>3. /\ Advanced(t.ops.refresh, Due(p.bank), t.col) /\ t.col \in Nat
      /\ last_col_start_cycle' = t.col /\ last_col_start_cycle <= t.col
      /\ last_col_start_cycle \in Nat /\ RankOf(p.bank) \in Ranks
      /\ ranks' = RanksAfter(p, t)
  BY <1>1, <1>2 DEF Drained, DrainMoved, Placed, TypeOK, Cycle, Drain, Bank, RankOf
<1>4. Cyc("tREFI") \in Nat
  BY RefreshPeriod, RefreshAssumption
<1>5. /\ Boundary(t.ops.refresh.due) /\ t.ops.refresh.due \in Nat
      /\ t.ops.refresh.due <= t.col + Cyc("tREFI")
  <2>1. Due(p.bank) <= last_col_start_cycle + Cyc("tREFI") /\ Due(p.bank) \in Nat
    BY <1>1, <1>2, DueType DEF Drained
  <2> QED
    BY <1>3, <1>4, <2>1 DEF Advanced, RefreshProgress
<1>6. ASSUME NEW r \in Ranks
      PROVE  /\ Boundary(ranks'[r].next_refresh_due_cycle)
             /\ ranks'[r].next_refresh_due_cycle <= t.col + Cyc("tREFI")
  <2>1. ranks \in [Ranks -> RankState]
    BY <1>2 DEF TypeOK
  <2>2. ranks'[r].next_refresh_due_cycle
          = IF r = RankOf(p.bank) THEN t.ops.refresh.due ELSE ranks[r].next_refresh_due_cycle
    BY <1>3, <2>1 DEF RanksAfter, RankState
  <2>3. ranks[r].next_refresh_due_cycle \in Nat
    BY <2>1 DEF RankState, Cycle
  <2> QED
    BY <1>2, <1>3, <1>4, <1>5, <2>2, <2>3 DEF CursorsAtBoundaries
<1> QED
  BY <1>3, <1>6 DEF CursorsAtBoundaries, Boundary, Cyc, ToCycles

(* What the bank p used looks like afterwards. *)
LEMMA UsedBankShape ==
  ASSUME TypeOK, NEW p \in pending, NEW t \in Placed, t.ops.status # "Hit" => t.ops.act \in Nat
  PROVE  LET used == UsedBank(p, t) IN
         /\ used \in BankState /\ used.row_opened_at = OpenedAt(t) /\ used.last_col_start = t.col
         /\ used.open_row = IF Cfg.page_policy = "closed" THEN NoRow ELSE p.row
         /\ p.row # NoRow
         /\ used.precharge_ready >= t.col /\ used.precharge_ready >= t.col + Recovery(p.type)
         /\ used.precharge_ready >= OpenedAt(t) + Cyc("tRAS")
         /\ used.act_ready >= t.bank.act_ready
         /\ t.ops.refresh.end # 0 => used.act_ready >= t.ops.refresh.end
         /\ Cfg.page_policy = "closed" =>
              used.act_ready >= used.precharge_ready + Cyc("tRP")
<1> DEFINE used == UsedBank(p, t)
           seen == Refreshed(t.bank, t.ops.refresh.end)
<1>1. used \in BankState
  BY UsedBankType
<1>2. /\ used.row_opened_at = OpenedAt(t) /\ used.last_col_start = t.col
      /\ used.open_row = (IF Cfg.page_policy = "closed" THEN NoRow ELSE p.row)
      /\ used.precharge_ready = PrechargeReady(p, t) /\ used.act_ready = ActReady(p, t)
  BY DEF UsedBank
<1>3. /\ OpenedAt(t) \in Nat /\ t.col \in Nat /\ Recovery(p.type) \in Nat
      /\ Cyc("tRAS") \in Nat /\ Cyc("tRP") \in Nat
  BY RecoveryNat, DurationsNat DEF OpenedAt, Placed, BankState, Cycle
<1>4. /\ seen.act_ready \in Nat /\ t.bank.act_ready \in Nat
      /\ seen.act_ready >= t.bank.act_ready
      /\ t.ops.refresh.end # 0 => seen.act_ready >= t.ops.refresh.end
      /\ t.ops.refresh.end \in Nat
  <2>1. t.bank \in BankState /\ t.ops.refresh.end \in Nat
    BY DEF Placed, Ops, RefreshProgress
  <2>2. seen \in BankState /\ seen.act_ready >= t.bank.act_ready
        /\ (t.ops.refresh.end # 0 => seen.act_ready >= t.ops.refresh.end)
    BY <2>1, RefreshedShape
  <2> QED
    BY <2>1, <2>2 DEF BankState, Cycle
<1>5. p.row \in Nat
  BY TopologyAssumption DEF TypeOK, PendingCmd
<1> HIDE DEF used
<1>6. /\ used.precharge_ready \in Nat /\ used.act_ready \in Nat
  BY <1>1 DEF BankState, Cycle
<1>7. /\ used.precharge_ready >= t.col /\ used.precharge_ready >= t.col + Recovery(p.type)
      /\ used.precharge_ready >= OpenedAt(t) + Cyc("tRAS")
  BY <1>2, <1>3 DEF PrechargeReady, Later
<1>8. used.act_ready = IF Cfg.page_policy = "closed"
                       THEN Later(seen.act_ready, used.precharge_ready + Cyc("tRP"))
                       ELSE seen.act_ready
  BY <1>2 DEF ActReady
<1> HIDE DEF seen
<1>9. /\ used.act_ready >= t.bank.act_ready
      /\ t.ops.refresh.end # 0 => used.act_ready >= t.ops.refresh.end
      /\ Cfg.page_policy = "closed" => used.act_ready >= used.precharge_ready + Cyc("tRP")
  BY <1>3, <1>4, <1>6, <1>8 DEF Later
<1> QED
  BY <1>1, <1>2, <1>5, <1>7, <1>9 DEF used, NoRow

LEMMA ClearDrain ==
  ASSUME PlaceInv, DrainOne
  PROVE  BanksClear'
<1> DEFINE p == Pick
           t == Placement(p)
           S == Synced(p)
           due == t.ops.refresh.due
           end == t.ops.refresh.end
<1>1. Drained(p, t)
  BY DrainDrains
<1>2. TypeOK /\ CursorsAtBoundaries /\ BanksClear
  BY DEF PlaceInv, KnownInv, IInv
<1> HIDE DEF p, t
<1>3. /\ p \in pending /\ p.bank \in Bank /\ t \in Placed /\ DrainMoved(p, t)
      /\ t.ops.status # "Hit" => t.ops.act \in Nat
  BY <1>1 DEF Drained
<1>4. /\ t.col \in Nat /\ last_col_start_cycle' = t.col /\ last_col_start_cycle <= t.col
      /\ last_col_start_cycle \in Nat
  BY <1>1, <1>2, <1>3 DEF Drained, Placed, TypeOK, Cycle
<1>5. /\ Boundary(due) /\ due \in Nat /\ end \in Nat
      /\ due # Due(p.bank) => end = RefreshEnd(due)
      /\ due = Due(p.bank) => end = 0
  BY <1>3 DEF DrainMoved, Advanced, RefreshProgress
<1>6. due # Due(p.bank) => end # 0
  <2>1. /\ Due(p.bank) >= Cyc("tREFI") /\ Cyc("tREFI") > 0
        /\ Cyc("tREFI") \in Nat /\ Cyc("tRFC") \in Nat /\ Due(p.bank) \in Nat
    BY <1>2, <1>3, DueType, BoundaryType, RefreshPeriod, RefreshAssumption
  <2>2. due # Due(p.bank) => due - Cyc("tREFI") >= Due(p.bank)
    BY <1>3 DEF DrainMoved, Advanced
  <2> QED
    BY <1>5, <2>1, <2>2 DEF RefreshEnd
<1>7. \A b \in Bank : banks[b] \in BankState
  BY <1>2 DEF TypeOK
<1>8. /\ t.bank \in BankState /\ banks[p.bank] \in BankState
      /\ t.bank.act_ready >= banks[p.bank].act_ready
      /\ t.bank.open_row # NoRow => /\ S.due = Due(p.bank)
                                    /\ t.bank.open_row = banks[p.bank].open_row
  BY <1>2, <1>3, FoundBankKeeps DEF DrainMoved
<1>9. ASSUME NEW bank \in BankState, NEW seen \in BankState, NEW c \in {"precharge_ready", "act_ready"},
             Past(bank[c], Due(p.bank)), seen[c] >= bank[c], end # 0 => seen[c] >= end
      PROVE  Past(seen[c], due)
  <2>1. bank[c] \in Nat /\ seen[c] \in Nat
    BY DEF BankState, Cycle
  <2>2. CASE due = Due(p.bank)
    BY <1>5, <1>9, <2>1, <2>2, PastType
  <2>3. CASE due # Due(p.bank)
    BY <1>5, <1>6, <1>9, <2>3 DEF Past
  <2> QED
    BY <2>2, <2>3
<1>10. Past(t.col, due)
  <2>1. CASE t.ops.status = "Hit"
    <3>1. t.bank.open_row = p.row /\ due = S.due
      BY <1>3, <2>1 DEF DrainMoved
    <3>2. p.row # NoRow
      BY <1>2, <1>3, TopologyAssumption DEF TypeOK, PendingCmd, NoRow
    <3>3. due = Due(p.bank) /\ banks[p.bank].open_row # NoRow
      BY <1>8, <3>1, <3>2
    <3>4. /\ Past(banks[p.bank].last_col_start, due)
          /\ banks[p.bank].last_col_start <= last_col_start_cycle
          /\ banks[p.bank].last_col_start \in Nat
      BY <1>2, <1>3, <1>8, <3>3 DEF BanksClear, BankState, Cycle
    <3>5. banks[p.bank].last_col_start <= t.col
      BY <1>4, <3>4
    <3> QED
      BY <1>4, <1>5, <3>4, <3>5, PastType
  <2>2. CASE t.ops.status # "Hit"
    <3>1. t.ops.row_ready \in Nat /\ Past(t.ops.row_ready, due) /\ t.ops.row_ready <= t.col
      BY <1>3, <1>4, <2>2 DEF DrainMoved, RowOpsMoved
    <3> QED
      BY <1>4, <1>5, <3>1, PastType
  <2> QED
    BY <2>1, <2>2
<1>11. ASSUME NEW b \in Bank
       PROVE  /\ Past(banks'[b].precharge_ready, Due(b)') /\ Past(banks'[b].act_ready, Due(b)')
              /\ banks'[b].last_col_start <= t.col
              /\ banks'[b].open_row # NoRow => Past(banks'[b].last_col_start, Due(b)')
  <2>1. /\ Past(banks[b].precharge_ready, Due(b)) /\ Past(banks[b].act_ready, Due(b))
        /\ banks[b].last_col_start <= last_col_start_cycle
        /\ banks[b].open_row # NoRow => Past(banks[b].last_col_start, Due(b))
        /\ banks[b].last_col_start \in Nat
    BY <1>2, <1>7 DEF BanksClear, BankState, Cycle
  <2>2. banks[b].last_col_start <= t.col
    BY <1>4, <2>1
  <2>3. CASE RankOf(b) # RankOf(p.bank)
    <3>1. Due(b)' = Due(b) /\ banks'[b] = banks[b]
      BY <1>1, <2>3 DEF Drained
    <3> QED
      BY <2>1, <2>2, <3>1
  <2>4. CASE RankOf(b) = RankOf(p.bank) /\ b # p.bank
    <3> DEFINE seen == Refreshed(banks[b], end)
    <3>1. Due(b)' = due /\ Due(b) = Due(p.bank) /\ banks'[b] = seen
      BY <1>1, <2>4 DEF Drained
    <3>2. /\ seen \in BankState /\ seen.last_col_start = banks[b].last_col_start
          /\ seen.precharge_ready >= banks[b].precharge_ready
          /\ seen.act_ready >= banks[b].act_ready
          /\ end = 0 => seen = banks[b]
          /\ end # 0 => /\ seen.open_row = NoRow /\ seen.precharge_ready >= end
                        /\ seen.act_ready >= end
      BY <1>5, <1>7, RefreshedShape
    <3> HIDE DEF seen
    <3>3. Past(seen.precharge_ready, due)
      BY <1>7, <1>9, <2>1, <3>1, <3>2
    <3>4. Past(seen.act_ready, due)
      BY <1>7, <1>9, <2>1, <3>1, <3>2
    <3>5. seen.open_row # NoRow => Past(seen.last_col_start, due)
      BY <1>5, <1>6, <2>1, <3>1, <3>2
    <3> QED
      BY <2>2, <3>1, <3>2, <3>3, <3>4, <3>5
  <2>5. CASE b = p.bank
    <3> DEFINE used == UsedBank(p, t)
    <3>1. Due(b)' = due /\ banks'[b] = used
      BY <1>1, <2>5 DEF Drained
    <3>2. /\ used \in BankState /\ used.last_col_start = t.col
          /\ used.precharge_ready >= t.col /\ used.act_ready >= t.bank.act_ready
          /\ end # 0 => used.act_ready >= end
      BY <1>2, <1>3, UsedBankShape
    <3> HIDE DEF used
    <3>3. Past(used.precharge_ready, due)
      <4>1. used.precharge_ready \in Nat
        BY <3>2 DEF BankState, Cycle
      <4> QED
        BY <1>4, <1>5, <1>10, <3>2, <4>1, PastType
    <3>4. used.act_ready >= banks[b].act_ready
      <4>1. used.act_ready \in Nat /\ t.bank.act_ready \in Nat /\ banks[b].act_ready \in Nat
        BY <1>7, <1>8, <3>2 DEF BankState, Cycle
      <4> QED
        BY <1>8, <2>5, <3>2, <4>1
    <3>5. Past(used.act_ready, due)
      BY <1>7, <1>9, <2>1, <2>5, <3>2, <3>4
    <3> QED
      BY <1>4, <1>10, <3>1, <3>2, <3>3, <3>5
  <2> QED
    BY <2>3, <2>4, <2>5
<1> QED
  BY <1>4, <1>11 DEF BanksClear, Past, RefreshEnd, Cyc, ToCycles

LEMMA PlaceStep == PlaceInv /\ [Next]_vars => PlaceInv'
<1> SUFFICES ASSUME PlaceInv, [Next]_vars PROVE PlaceInv'
  OBVIOUS
<1>1. KnownInv'
  BY KnownStep DEF PlaceInv
<1>2. CASE DrainOne
  BY <1>1, <1>2, CursorsDrain, ClearDrain DEF PlaceInv
<1>3. ASSUME UNCHANGED <<banks, ranks, last_col_start_cycle>> PROVE PlaceInv'
  <2>1. CursorsAtBoundaries' /\ \A b \in Bank : Due(b)' = Due(b)
    BY <1>3 DEF PlaceInv, CursorsAtBoundaries, Due
  <2>2. BanksClear'
    BY <1>3, <2>1 DEF PlaceInv, BanksClear
  <2> QED
    BY <1>1, <2>1, <2>2 DEF PlaceInv
<1>4. ASSUME NEW cmd \in Requests, NEW ready \in Arrivals, Submit(cmd, ready) PROVE PlaceInv'
  BY <1>3, <1>4 DEF Submit, TryAdmit, busVars
<1>5. CASE UNCHANGED vars
  BY <1>3, <1>5 DEF vars, busVars
<1> QED
  BY <1>2, <1>4, <1>5 DEF Next

-----------------------------------------------------------------------------
(***************************************************************************)
(* Banks: what the log says of a bank's last command and of the ACT that   *)
(* opened the row it used, against the cycles its next commands wait for.  *)
(***************************************************************************)
(* The drain that last used a bank, 0 if none did. *)
LastUse(b) ==
  LET uses == {i \in DOMAIN log : log[i].bank = b}
  IN  IF uses = {} THEN 0 ELSE Max(uses)

(* An ACT here waits until `ready`, or for a refresh due after `from`. *)
ReadyAfter(from, ready, act) == act >= ready \/ RefreshBetween(from, act)

(* A bank last used by e, in a row opened at `opened`, its rank's next refresh
   falling due at `due`. *)
KeptFor(bank, due, e, opened) ==
  /\ bank.row_opened_at = opened /\ opened < due /\ e.decided < due
  /\ bank.precharge_ready >= opened + Cyc("tRAS")
  /\ bank.precharge_ready >= e.col + Recovery(e.type)
  /\ bank.open_row # NoRow =>
       /\ bank.open_row = e.row /\ bank.last_col_start = e.col
       /\ Cfg.page_policy # "closed" /\ due <= e.col + Cyc("tREFI")
  /\ bank.open_row = NoRow =>
       /\ ReadyAfter(opened, opened + Cyc("tRAS") + Cyc("tRP"), bank.act_ready)
       /\ ReadyAfter(e.decided, e.col + Recovery(e.type) + Cyc("tRP"), bank.act_ready)

BanksKept ==
  \A b \in Bank :
    LET i == LastUse(b)
    IN  IF i = 0 THEN banks[b].open_row = NoRow
        ELSE /\ OpenedBy(i) \in 1 .. i /\ log[OpenedBy(i)].act # NoCycle
             /\ KeptFor(banks[b], Due(b), log[i], log[OpenedBy(i)].act)

LEMMA MaxIs ==
  ASSUME NEW low \in Int, NEW high \in Int, NEW S \in SUBSET (low .. high), NEW x \in S,
         \A y \in S : y <= x
  PROVE  Max(S) = x
<1>1. Max(S) \in S /\ x <= Max(S)
  BY IntMax
<1>2. Max(S) <= x
  BY <1>1
<1>3. \A y \in low .. high : y \in Int
  OBVIOUS
<1>4. Max(S) \in Int /\ x \in Int
  BY <1>1, <1>3
<1> QED
  BY <1>1, <1>2, <1>4

LEMMA LastUseType ==
  ASSUME LogTyped, NEW b
  PROVE  /\ LastUse(b) \in 0 .. Len(log) /\ Len(log) \in Nat
         /\ LastUse(b) # 0 => LastUse(b) \in DOMAIN log /\ log[LastUse(b)].bank = b
         /\ \A k \in DOMAIN log : log[k].bank = b => k <= LastUse(b) /\ LastUse(b) # 0
<1> DEFINE uses == {i \in DOMAIN log : log[i].bank = b}
<1>1. Len(log) \in Nat /\ DOMAIN log = 1 .. Len(log)
  BY LenProperties DEF LogTyped
<1>2. uses \in SUBSET (1 .. Len(log))
  BY <1>1
<1>3. uses # {} => Max(uses) \in uses /\ \A x \in uses : x <= Max(uses)
  <2>1. 1 \in Int /\ Len(log) \in Int
    BY <1>1
  <2> HIDE DEF uses
  <2> QED
    BY <1>2, <2>1, IntMax
<1>4. LastUse(b) = IF uses = {} THEN 0 ELSE Max(uses)
  BY DEF LastUse
<1>5. ASSUME NEW k \in DOMAIN log, log[k].bank = b PROVE k <= LastUse(b) /\ LastUse(b) # 0
  <2>1. k \in uses
    BY <1>5
  <2>2. k <= Max(uses) /\ Max(uses) \in uses
    BY <1>3, <2>1
  <2> HIDE DEF uses
  <2> QED
    BY <1>2, <1>4, <2>1, <2>2
<1>6. LastUse(b) # 0 => LastUse(b) \in uses
  BY <1>3, <1>4
<1>7. LastUse(b) \in 0 .. Len(log)
  <2>1. LastUse(b) # 0 => LastUse(b) \in 1 .. Len(log)
    BY <1>2, <1>6
  <2> HIDE DEF uses
  <2> QED
    BY <1>1, <2>1
<1> QED
  BY <1>1, <1>5, <1>6, <1>7

(* What the next drain, if it is of p, makes of all this. *)
HistoryKept(p) ==
  LET n == Len(log) IN
  /\ \A b : LastUse(b)' = IF b = p.bank THEN n + 1 ELSE LastUse(b)
  /\ \A j \in 1 .. n : Previous(j)' = Previous(j) /\ Previous(j) \in 0 .. j - 1
  /\ \A i \in 1 .. n : OpenedBy(i)' = OpenedBy(i)
  /\ \A new : new = n + 1 =>
       /\ Previous(new)' = LastUse(p.bank)
       /\ Placement(p).ops.act # NoCycle => OpenedBy(new)' = n + 1
       /\ /\ Placement(p).ops.act = NoCycle /\ LastUse(p.bank) # 0
          /\ OpenedBy(LastUse(p.bank)) \in 1 .. LastUse(p.bank)
          /\ log[OpenedBy(LastUse(p.bank))].act # NoCycle
          => OpenedBy(new)' = OpenedBy(LastUse(p.bank))

LEMMA HistoryStep ==
  ASSUME LogTyped, NEW p, Logs(p)
  PROVE  HistoryKept(p)
<1> DEFINE n == Len(log)
           t == Placement(p)
           last == LastUse(p.bank)
<1>1. /\ n \in Nat /\ DOMAIN log = 1 .. n /\ DOMAIN log' = 1 .. n + 1
      /\ \A i \in 1 .. n : log'[i] = log[i]
  BY DEF Logs
<1>2. log'[n + 1].bank = p.bank /\ log'[n + 1].act = t.ops.act
  BY DEF Logs, Entry
<1>3. ASSUME NEW b PROVE LastUse(b)' = IF b = p.bank THEN n + 1 ELSE LastUse(b)
  <2> DEFINE U == {i \in 1 .. n + 1 : log'[i].bank = b}
             V == {i \in 1 .. n : log[i].bank = b}
  <2>1. LastUse(b)' = (IF U = {} THEN 0 ELSE Max(U)) /\ LastUse(b) = IF V = {} THEN 0 ELSE Max(V)
    BY <1>1 DEF LastUse, Max
  <2>2. CASE b = p.bank
    <3>1. n + 1 \in U /\ U \in SUBSET (1 .. n + 1) /\ \A y \in U : y <= n + 1
      BY <1>1, <1>2, <2>2
    <3>2. Max(U) = n + 1
      <4> HIDE DEF U
      <4>1. 1 \in Int /\ n + 1 \in Int
        BY <1>1
      <4> QED
        BY <3>1, <4>1, MaxIs
    <3> QED
      BY <2>1, <2>2, <3>1, <3>2
  <2>3. CASE b # p.bank
    <3>1. U = V
      BY <1>1, <1>2, <2>3
    <3> QED
      BY <2>1, <2>3, <3>1
  <2> QED
    BY <2>2, <2>3
<1>4. ASSUME NEW new, new = n + 1 PROVE Previous(new)' = last
  <2> DEFINE U == {i \in 1 .. new - 1 : log'[i].bank = log'[new].bank}
             V == {i \in 1 .. n : log[i].bank = p.bank}
  <2>1. Previous(new)' = IF U = {} THEN 0 ELSE Max(U)
    BY DEF Previous, Max
  <2>2. last = IF V = {} THEN 0 ELSE Max(V)
    BY <1>1 DEF LastUse
  <2>3. new - 1 = n
    BY <1>1, <1>4
  <2>4. U = V
    BY <1>1, <1>2, <1>4, <2>3
  <2> QED
    BY <2>1, <2>2, <2>4
<1>5. ASSUME NEW j \in 1 .. n PROVE Previous(j)' = Previous(j) /\ Previous(j) \in 0 .. j - 1
  <2> DEFINE U == {i \in 1 .. j - 1 : log'[i].bank = log'[j].bank}
             V == {i \in 1 .. j - 1 : log[i].bank = log[j].bank}
  <2>1. Previous(j)' = (IF U = {} THEN 0 ELSE Max(U)) /\ Previous(j) = IF V = {} THEN 0 ELSE Max(V)
    BY DEF Previous, Max
  <2>2. U = V
    BY <1>1
  <2>3. V # {} => Max(V) \in V
    <3>1. V \in SUBSET (1 .. j - 1) /\ 1 \in Int /\ j - 1 \in Int
      BY <1>1
    <3> HIDE DEF V
    <3> QED
      BY <3>1, IntMax
  <2>4. V # {} => Max(V) \in 1 .. j - 1
    BY <2>3
  <2>5. 0 \in 0 .. j - 1
    BY <1>1
  <2> HIDE DEF U, V
  <2> QED
    BY <2>1, <2>2, <2>4, <2>5
<1>6. ASSUME NEW i \in 1 .. n PROVE OpenedBy(i)' = OpenedBy(i)
  <2>1. {k \in 1 .. i : log'[k].bank = log'[i].bank /\ log'[k].act # NoCycle}
          = {k \in 1 .. i : log[k].bank = log[i].bank /\ log[k].act # NoCycle}
    BY <1>1
  <2> QED
    BY <2>1 DEF OpenedBy, Max
<1> DEFINE O == {k \in 1 .. n + 1 : log'[k].bank = p.bank /\ log'[k].act # NoCycle}
<1>7. ASSUME NEW new, new = n + 1
      PROVE  OpenedBy(new)' = Max(O) /\ O \in SUBSET (1 .. n + 1) /\ 1 \in Int /\ n + 1 \in Int
  <2>1. OpenedBy(new)' = Max({k \in 1 .. new : log'[k].bank = log'[new].bank
                                                /\ log'[k].act # NoCycle})
    BY DEF OpenedBy, Max
  <2>2. {k \in 1 .. new : log'[k].bank = log'[new].bank /\ log'[k].act # NoCycle} = O
    BY <1>2, <1>7
  <2>3. 1 \in Int /\ n + 1 \in Int
    BY <1>1
  <2> QED
    BY <2>1, <2>2, <2>3
<1>8. ASSUME NEW new, new = n + 1, t.ops.act # NoCycle PROVE OpenedBy(new)' = n + 1
  <2>1. n + 1 \in O /\ \A y \in O : y <= n + 1
    BY <1>1, <1>2, <1>8
  <2> HIDE DEF O, n
  <2>2. Max(O) = n + 1
    BY <1>7, <1>8, <2>1, MaxIs
  <2> QED
    BY <1>7, <1>8, <2>2
<1>9. ASSUME NEW new, new = n + 1, t.ops.act = NoCycle, last # 0, OpenedBy(last) \in 1 .. last,
             log[OpenedBy(last)].act # NoCycle
      PROVE  OpenedBy(new)' = OpenedBy(last)
  <2> DEFINE V == {k \in 1 .. last : log[k].bank = log[last].bank /\ log[k].act # NoCycle}
             o == OpenedBy(last)
  <2>1. /\ last \in 1 .. n /\ log[last].bank = p.bank
        /\ \A k \in 1 .. n : log[k].bank = p.bank => k <= last
    BY <1>1, <1>9, LastUseType
  <2>2. o = Max(V)
    BY DEF OpenedBy
  <2> HIDE DEF o, last, n, t
  <2>3. O = V
    <3>1. \A k \in O : k \in V
      <4> TAKE k \in O
      <4>1. k # n + 1
        BY <1>2, <1>9
      <4>2. k \in 1 .. n
        BY <1>1, <4>1
      <4>3. log[k].bank = p.bank /\ log[k].act # NoCycle
        BY <1>1, <4>2
      <4> QED
        BY <1>1, <2>1, <4>2, <4>3
    <3>2. \A k \in V : k \in O
      BY <1>1, <2>1
    <3> QED
      BY <3>1, <3>2
  <2> QED
    BY <1>7, <1>9, <2>2, <2>3 DEF o
<1> QED
  BY <1>3, <1>4, <1>5, <1>6, <1>8, <1>9 DEF HistoryKept

LEMMA ReadyLater ==
  ASSUME NEW from \in Nat, NEW ready \in Nat, NEW a \in Nat, NEW b \in Nat,
         ReadyAfter(from, ready, a), a <= b
  PROVE  ReadyAfter(from, ready, b)
BY BetweenLater DEF ReadyAfter

(* The cycles of an entry, as numbers. *)
EntryCycles(e, opened) ==
  /\ opened \in Nat /\ e.decided \in Nat /\ e.col \in Nat /\ Recovery(e.type) \in Nat
  /\ Cyc("tRAS") \in Nat /\ Cyc("tRP") \in Nat /\ Cyc("tREFI") \in Nat

(* A refresh that falls due closes the bank, and its end bounds the next ACT. *)
LEMMA KeptRefreshed ==
  ASSUME NEW bank \in BankState, NEW due \in Nat, NEW e, NEW opened, EntryCycles(e, opened),
         KeptFor(bank, due, e, opened),
         NEW r \in RefreshProgress, NEW bound, Advanced(r, due, bound)
  PROVE  KeptFor(Refreshed(bank, r.end), r.due, e, opened)
<1> DEFINE seen == Refreshed(bank, r.end)
<1>1. r.end \in Nat /\ r.due \in Nat /\ Boundary(r.due) /\ r.due >= due
  BY DEF RefreshProgress, Advanced
<1>2. CASE r.due = due
  <2>1. r.end = 0
    BY <1>2 DEF Advanced
  <2>2. seen = bank
    BY <2>1 DEF Refreshed
  <2> QED
    BY <1>2, <2>2
<1>3. CASE r.due # due
  <2>1. r.end = RefreshEnd(r.due) /\ due <= r.due - Cyc("tREFI")
    BY <1>1, <1>3, RefreshPeriod, RefreshAssumption DEF Advanced
  <2>2. Cyc("tREFI") \in Nat /\ Cyc("tRFC") \in Nat /\ Cyc("tREFI") > 0
    BY RefreshPeriod, RefreshAssumption
  <2>3. PICK m \in Nat \ {0} : r.due = m * Cyc("tREFI")
    BY <1>1 DEF Boundary
  <2>4. /\ opened < due /\ e.decided < due /\ bank.row_opened_at = opened
        /\ bank.precharge_ready >= opened + Cyc("tRAS")
        /\ bank.precharge_ready >= e.col + Recovery(e.type)
        /\ opened \in Nat /\ e.decided \in Nat /\ e.col \in Nat /\ Recovery(e.type) \in Nat
        /\ Cyc("tRAS") \in Nat
    BY DEF KeptFor, EntryCycles
  <2>5. r.end > 0 /\ r.end >= due /\ r.end >= r.due - Cyc("tREFI")
    BY <1>1, <2>1, <2>2, <2>4 DEF RefreshEnd
  <2>6. /\ seen \in BankState /\ seen.row_opened_at = bank.row_opened_at
        /\ seen.precharge_ready >= bank.precharge_ready
        /\ seen.open_row = NoRow /\ seen.act_ready >= r.end
    BY <1>1, <2>5, RefreshedShape
  <2> HIDE DEF seen
  <2>7. /\ seen.act_ready \in Nat /\ seen.precharge_ready \in Nat /\ bank.precharge_ready \in Nat
    BY <2>6 DEF BankState, Cycle
  <2>8. seen.act_ready >= r.due - Cyc("tREFI") /\ r.due - Cyc("tREFI") \in Nat
    BY <1>1, <2>1, <2>2, <2>5, <2>6, <2>7
  <2>9. Boundary(r.due - Cyc("tREFI"))
    <3>1. r.due - Cyc("tREFI") = (m - 1) * Cyc("tREFI") /\ m - 1 \in Nat
      BY <2>2, <2>3
    <3>2. m - 1 # 0
      <4> SUFFICES ASSUME m - 1 = 0 PROVE FALSE
        OBVIOUS
      <4>1. r.due - Cyc("tREFI") = 0
        BY <2>2, <3>1
      <4> QED
        BY <2>1, <2>4, <4>1
    <3> QED
      BY <3>1, <3>2 DEF Boundary
  <2>10. opened < r.due - Cyc("tREFI") /\ e.decided < r.due - Cyc("tREFI")
    BY <2>1, <2>4, <2>8
  <2>11. /\ RefreshBetween(opened, seen.act_ready) /\ RefreshBetween(e.decided, seen.act_ready)
    BY <2>4, <2>7, <2>8, <2>9, <2>10, BoundaryBetween
  <2>12. opened < r.due /\ e.decided < r.due
    BY <1>1, <2>4
  <2>13. /\ seen.precharge_ready >= opened + Cyc("tRAS")
         /\ seen.precharge_ready >= e.col + Recovery(e.type)
    BY <2>4, <2>6, <2>7
  <2> QED
    BY <2>4, <2>6, <2>11, <2>12, <2>13 DEF KeptFor, ReadyAfter, seen
<1> QED
  BY <1>2, <1>3

(* The next commands of a bank e last used. *)
NextOnBank(p, t, e, opened) ==
  /\ t.ops.pre # NoCycle =>
       t.ops.pre >= opened + Cyc("tRAS") /\ t.ops.pre >= e.col + Recovery(e.type)
  /\ t.ops.act # NoCycle =>
       /\ ReadyAfter(opened, opened + Cyc("tRAS") + Cyc("tRP"), t.ops.act)
       /\ ReadyAfter(e.decided, e.col + Recovery(e.type) + Cyc("tRP"), t.ops.act)
  /\ t.ops.status = "Hit" =>
       /\ e.row = p.row /\ ~ RefreshBetween(e.col, DecisionCycle) /\ Cfg.page_policy # "closed"
       /\ Cfg.page_policy = "timer" => p.visible <= e.col + Cyc("page_close_timer")

LEMMA KeptNext ==
  ASSUME TypeOK, CursorsAtBoundaries, NEW p \in pending, NEW t \in Placed, DrainMoved(p, t),
         t.ops.status # "Hit" => t.ops.act \in Nat, Synced(p).due > DecisionCycle,
         NEW e, NEW opened, EntryCycles(e, opened),
         KeptFor(banks[p.bank], Due(p.bank), e, opened)
  PROVE  NextOnBank(p, t, e, opened) /\ t.bank.row_opened_at = opened
<1> DEFINE left == banks[p.bank]
           bank == t.bank
           S == Synced(p)
<1>1. p.bank \in Bank /\ p.visible \in Nat /\ p.row # NoRow
  BY TopologyAssumption DEF TypeOK, PendingCmd, Cycle, NoRow
<1>2. /\ bank \in BankState /\ left \in BankState
      /\ bank.row_opened_at = left.row_opened_at
      /\ bank.precharge_ready >= left.precharge_ready
      /\ bank.act_ready >= left.act_ready
      /\ S.due # Due(p.bank) =>
           /\ bank.open_row = NoRow /\ bank.precharge_ready >= RefreshEnd(S.due)
           /\ bank.act_ready >= RefreshEnd(S.due)
      /\ bank.open_row # NoRow =>
           /\ S.due = Due(p.bank) /\ bank.open_row = left.open_row
           /\ Cfg.page_policy = "timer" => p.visible <= CloseAt(left)
      /\ bank.open_row = NoRow /\ left.open_row # NoRow /\ S.due = Due(p.bank) =>
           bank.act_ready >= left.precharge_ready + Cyc("tRP")
  BY FoundBankKeeps DEF DrainMoved
<1>3. /\ bank.precharge_ready \in Nat /\ left.precharge_ready \in Nat
      /\ bank.act_ready \in Nat /\ left.act_ready \in Nat
  BY <1>2 DEF BankState, Cycle
<1>4. /\ opened \in Nat /\ e.decided \in Nat /\ e.col \in Nat /\ Recovery(e.type) \in Nat
      /\ Cyc("tRAS") \in Nat /\ Cyc("tRP") \in Nat /\ Cyc("tREFI") \in Nat
  BY DEF EntryCycles
<1>5. /\ left.row_opened_at = opened /\ opened < Due(p.bank) /\ e.decided < Due(p.bank)
      /\ left.precharge_ready >= opened + Cyc("tRAS")
      /\ left.precharge_ready >= e.col + Recovery(e.type)
      /\ left.open_row # NoRow =>
           /\ left.open_row = e.row /\ left.last_col_start = e.col
           /\ Cfg.page_policy # "closed" /\ Due(p.bank) <= e.col + Cyc("tREFI")
      /\ left.open_row = NoRow =>
           /\ ReadyAfter(opened, opened + Cyc("tRAS") + Cyc("tRP"), left.act_ready)
           /\ ReadyAfter(e.decided, e.col + Recovery(e.type) + Cyc("tRP"), left.act_ready)
  BY DEF KeptFor
<1>6. Due(p.bank) \in Nat /\ Boundary(Due(p.bank))
  BY <1>1, DueType
<1>7. DecisionCycle \in Nat
  BY SomeArrived
<1>8. CASE t.ops.status = "Hit"
  <2>1. /\ bank.open_row = p.row /\ t.ops.pre = NoCycle /\ t.ops.act = NoCycle
    BY <1>8 DEF DrainMoved
  <2>2. /\ S.due = Due(p.bank) /\ left.open_row = p.row
        /\ Cfg.page_policy = "timer" => p.visible <= CloseAt(left)
    BY <1>1, <1>2, <2>1
  <2>3. /\ e.row = p.row /\ left.last_col_start = e.col /\ Cfg.page_policy # "closed"
        /\ Due(p.bank) <= e.col + Cyc("tREFI")
    BY <1>1, <1>5, <2>2
  <2>4. ~ RefreshBetween(e.col, DecisionCycle)
    <3>1. e.col >= Due(p.bank) - Cyc("tREFI") /\ DecisionCycle < Due(p.bank)
      BY <1>4, <1>6, <1>7, <2>2, <2>3
    <3> QED
      BY <1>4, <1>6, <1>7, <3>1, BoundaryBetween
  <2> HIDE DEF left, bank
  <2> QED
    BY <1>2, <1>5, <2>1, <2>2, <2>3, <2>4 DEF NextOnBank, CloseAt, bank
<1>9. CASE t.ops.status # "Hit"
  <2>1. /\ t.ops.act \in Nat
        /\ bank.open_row = NoRow => t.ops.pre = NoCycle /\ t.ops.act >= bank.act_ready
        /\ bank.open_row # NoRow => /\ t.ops.pre \in Nat /\ t.ops.pre >= bank.precharge_ready
                                    /\ t.ops.act >= t.ops.pre + Cyc("tRP")
    BY <1>9 DEF DrainMoved, RowOpsMoved
  <2> DEFINE cycled == opened + Cyc("tRAS") + Cyc("tRP")
             recovered == e.col + Recovery(e.type) + Cyc("tRP")
  <2>2. cycled \in Nat /\ recovered \in Nat
    BY <1>4
  <2>3. CASE bank.open_row # NoRow
    <3>1. t.ops.pre >= opened + Cyc("tRAS") /\ t.ops.pre >= e.col + Recovery(e.type)
      BY <1>2, <1>3, <1>4, <1>5, <2>1, <2>3
    <3>2. t.ops.act >= cycled /\ t.ops.act >= recovered
      BY <1>4, <2>1, <2>3, <3>1
    <3> QED
      BY <1>2, <1>5, <1>9, <3>1, <3>2 DEF NextOnBank, ReadyAfter
  <2>4. CASE bank.open_row = NoRow
    <3>1. /\ ReadyAfter(opened, cycled, bank.act_ready)
          /\ ReadyAfter(e.decided, recovered, bank.act_ready)
      <4>1. CASE S.due # Due(p.bank)
        <5>1. Advanced(S, Due(p.bank), ColumnFloor(p))
          BY SyncedMoves, FloorsNat
        <5>2. S \in RefreshProgress /\ Boundary(S.due) /\ S.due - Cyc("tREFI") >= Due(p.bank)
          BY <4>1, <5>1 DEF Advanced
        <5>3. /\ Due(p.bank) <= RefreshEnd(S.due) /\ RefreshEnd(S.due) \in Nat
          BY <1>4, <1>6, <5>2, RefreshPeriod, RefreshAssumption DEF RefreshEnd, RefreshProgress
        <5>4. Due(p.bank) <= bank.act_ready
          BY <1>2, <1>3, <1>6, <4>1, <5>3
        <5> QED
          BY <1>3, <1>4, <1>5, <1>6, <5>4, BoundaryBetween DEF ReadyAfter
      <4>2. CASE S.due = Due(p.bank) /\ left.open_row # NoRow
        <5>1. bank.act_ready >= left.precharge_ready + Cyc("tRP")
          BY <1>2, <2>4, <4>2
        <5>2. bank.act_ready >= cycled /\ bank.act_ready >= recovered
          BY <1>3, <1>4, <1>5, <5>1
        <5> QED
          BY <5>2 DEF ReadyAfter
      <4>3. CASE left.open_row = NoRow
        <5> HIDE DEF left, bank, cycled, recovered
        <5>1. ReadyAfter(opened, cycled, left.act_ready)
              /\ ReadyAfter(e.decided, recovered, left.act_ready)
          BY <1>5, <4>3 DEF cycled, recovered
        <5> QED
          BY <1>2, <1>3, <1>4, <2>2, <5>1, ReadyLater
      <4> QED
        BY <4>1, <4>2, <4>3
    <3> HIDE DEF cycled, recovered
    <3>2. ReadyAfter(opened, cycled, t.ops.act) /\ ReadyAfter(e.decided, recovered, t.ops.act)
      BY <1>3, <1>4, <2>1, <2>2, <2>4, <3>1, ReadyLater
    <3> QED
      BY <1>2, <1>5, <1>9, <2>1, <2>4, <3>2 DEF NextOnBank, cycled, recovered
  <2> QED
    BY <2>3, <2>4
<1> QED
  BY <1>8, <1>9

BankInv == PlaceInv /\ BanksKept

(* The drain that last used a bank, and the ACT of the row it used. *)
LEMMA KeptType ==
  ASSUME BankInv, NEW b \in Bank, LastUse(b) # 0
  PROVE  LET i == LastUse(b)  o == OpenedBy(i) IN
         /\ i \in 1 .. Len(log) /\ o \in 1 .. i /\ o \in 1 .. Len(log)
         /\ log[i].bank = b /\ log[i] \in LogEntry /\ log[o].act # NoCycle
         /\ EntryCycles(log[i], log[o].act)
         /\ KeptFor(banks[b], Due(b), log[i], log[o].act)
<1> DEFINE i == LastUse(b)
           o == OpenedBy(i)
<1>1. LogTyped
  BY DEF BankInv, PlaceInv, KnownInv
<1>2. Len(log) \in Nat /\ DOMAIN log = 1 .. Len(log) /\ \A k \in 1 .. Len(log) : log[k] \in LogEntry
  BY <1>1, LenProperties DEF LogTyped
<1>3. i \in 1 .. Len(log) /\ log[i].bank = b
  BY <1>1, <1>2, LastUseType
<1>4. /\ o \in 1 .. i /\ log[o].act # NoCycle
      /\ KeptFor(banks[b], Due(b), log[i], log[o].act)
  BY DEF BankInv, BanksKept
<1> HIDE DEF i, o
<1>5. o \in 1 .. Len(log) /\ log[o] \in LogEntry /\ log[i] \in LogEntry
  BY <1>2, <1>3, <1>4
<1>6. EntryCycles(log[i], log[o].act)
  BY <1>4, <1>5, RecoveryNat, DurationsNat, RefreshPeriod, RefreshAssumption
  DEF EntryCycles, LogEntry
<1> QED
  BY <1>3, <1>4, <1>5, <1>6 DEF i, o

(* The commands of a drain against the last commands of its bank. *)
LEMMA DrainNext ==
  ASSUME BankInv, DrainOne
  PROVE  LET p == Pick
             t == Placement(p)
             i == LastUse(p.bank)
         IN  /\ i # 0 => /\ NextOnBank(p, t, log[i], log[OpenedBy(i)].act)
                         /\ t.bank.row_opened_at = log[OpenedBy(i)].act
             /\ i = 0 => t.ops.status # "Hit" /\ t.ops.pre = NoCycle
             /\ t.ops.act # NoCycle => t.col >= t.ops.act + Cyc("tRCD")
             /\ t.ops.pre # NoCycle => t.ops.act >= t.ops.pre + Cyc("tRP")
<1> DEFINE p == Pick
           t == Placement(p)
           i == LastUse(p.bank)
           opened == log[OpenedBy(i)].act
<1>1. PlaceInv /\ TypeOK /\ CursorsAtBoundaries
  BY DEF BankInv, PlaceInv, KnownInv, IInv
<1>2. Drained(p, t)
  BY <1>1, DrainDrains
<1> HIDE DEF p, t
<1>3. /\ p \in pending /\ p.bank \in Bank /\ t \in Placed /\ DrainMoved(p, t)
      /\ t.ops.status # "Hit" => t.ops.act \in Nat
      /\ Synced(p).due > DecisionCycle
  BY <1>2 DEF Drained
<1>4. ASSUME i # 0 PROVE NextOnBank(p, t, log[i], opened) /\ t.bank.row_opened_at = opened
  <2>1. EntryCycles(log[i], opened) /\ KeptFor(banks[p.bank], Due(p.bank), log[i], opened)
    BY <1>3, <1>4, KeptType
  <2> HIDE DEF i, opened
  <2> QED
    BY <1>1, <1>3, <2>1, KeptNext
<1>5. ASSUME i = 0 PROVE t.ops.status # "Hit" /\ t.ops.pre = NoCycle
  <2>1. banks[p.bank].open_row = NoRow
    BY <1>3, <1>5 DEF BankInv, BanksKept
  <2>2. t.bank.open_row = NoRow
    BY <1>1, <1>3, <2>1, FoundBankKeeps DEF DrainMoved
  <2>3. p.row # NoRow
    BY <1>1, <1>3, TopologyAssumption DEF TypeOK, PendingCmd, NoRow
  <2> QED
    BY <1>3, <2>2, <2>3 DEF DrainMoved, RowOpsMoved
<1>6. CASE t.ops.status = "Hit"
  BY <1>3, <1>4, <1>5, <1>6 DEF DrainMoved, p, t
<1>7. CASE t.ops.status # "Hit"
  <2>1. /\ t.ops.act \in Nat /\ t.ops.row_ready \in Nat
        /\ t.ops.row_ready >= t.ops.act + Cyc("tRCD") /\ t.col >= t.ops.row_ready
        /\ t.bank.open_row = NoRow => t.ops.pre = NoCycle
        /\ t.bank.open_row # NoRow => t.ops.act >= t.ops.pre + Cyc("tRP")
    BY <1>3, <1>7 DEF DrainMoved, RowOpsMoved
  <2>2. t.col \in Nat /\ Cyc("tRCD") \in Nat
    BY <1>3, DurationsNat DEF Placed
  <2>3. t.col >= t.ops.act + Cyc("tRCD")
    BY <2>1, <2>2
  <2> QED
    BY <1>4, <1>5, <2>1, <2>3 DEF p, t
<1> QED
  BY <1>6, <1>7

LEMMA BankDrain ==
  ASSUME BankInv, DrainOne
  PROVE  BanksKept'
<1> DEFINE p == Pick
           t == Placement(p)
           n == Len(log)
           r == t.ops.refresh
<1>1. PlaceInv /\ TypeOK /\ LogTyped /\ CursorsAtBoundaries /\ BanksKept
  BY DEF BankInv, PlaceInv, KnownInv, IInv
<1>2. Drained(p, t)
  BY <1>1, DrainDrains
<1>3. CursorsAtBoundaries'
  BY <1>1, CursorsDrain
<1>4. /\ LastUse(p.bank) # 0 =>
           t.bank.row_opened_at = log[OpenedBy(LastUse(p.bank))].act
      /\ LastUse(p.bank) = 0 => t.ops.status # "Hit"
  BY DrainNext
<1>5. HistoryKept(p)
  BY <1>1, <1>2, HistoryStep DEF Drained
<1>6. /\ n \in Nat /\ DOMAIN log = 1 .. n /\ DOMAIN log' = 1 .. n + 1
      /\ \A i \in 1 .. n : log'[i] = log[i]
      /\ log'[n + 1] = Entry(p, t)
  BY <1>2 DEF Drained, Logs
<1> HIDE DEF p, t
<1>7. /\ p \in pending /\ p.bank \in Bank /\ t \in Placed /\ DrainMoved(p, t) /\ t = Placement(p)
      /\ t.ops.status # "Hit" => t.ops.act \in Nat
      /\ r.due > DecisionCycle /\ last_col_start_cycle' = t.col
      /\ Advanced(r, Due(p.bank), t.col) /\ t.col \in Nat
  BY <1>2 DEF Drained, DrainMoved, Placed
<1>8. /\ r \in RefreshProgress /\ r.due \in Nat /\ r.due >= Due(p.bank)
      /\ Due(p.bank) \in Nat /\ Cyc("tREFI") \in Nat
  BY <1>1, <1>7, DueType, RefreshPeriod, RefreshAssumption DEF Advanced, RefreshProgress
<1>9. ASSUME NEW b \in Bank, b # p.bank
      PROVE  LET i == LastUse(b)'
             IN  IF i = 0 THEN banks'[b].open_row = NoRow
                 ELSE /\ \A new : new = i => OpenedBy(new)' = OpenedBy(i) /\ OpenedBy(i) \in 1 .. i
                      /\ i \in 1 .. n /\ log'[i] = log[i] /\ log'[OpenedBy(i)] = log[OpenedBy(i)]
                      /\ log[OpenedBy(i)].act # NoCycle
                      /\ KeptFor(banks'[b], Due(b)', log[i], log[OpenedBy(i)].act)
  <2> DEFINE i == LastUse(b)
             opened == log[OpenedBy(i)].act
  <2>1. LastUse(b)' = i
    BY <1>5, <1>9 DEF HistoryKept
  <2>2. banks[b] \in BankState /\ Due(b) \in Nat /\ r.end \in Nat
    BY <1>1, <1>8, DueType DEF TypeOK, RefreshProgress
  <2>3. \/ Due(b)' = Due(b) /\ banks'[b] = banks[b]
        \/ Due(b)' = r.due /\ banks'[b] = Refreshed(banks[b], r.end) /\ Due(b) = Due(p.bank)
    BY <1>2, <1>9 DEF Drained
  <2>4. CASE i = 0
    <3>1. banks[b].open_row = NoRow
      BY <1>1, <2>4 DEF BanksKept
    <3>2. Refreshed(banks[b], r.end).open_row = NoRow
      BY <2>2, <3>1, RefreshedShape
    <3> HIDE DEF i
    <3> QED
      BY <2>1, <2>3, <2>4, <3>1, <3>2
  <2>5. CASE i # 0
    <3>1. /\ i \in 1 .. n /\ OpenedBy(i) \in 1 .. i /\ OpenedBy(i) \in 1 .. n
          /\ opened # NoCycle /\ EntryCycles(log[i], opened)
          /\ KeptFor(banks[b], Due(b), log[i], opened)
      BY <2>5, KeptType
    <3> HIDE DEF i
    <3>2. KeptFor(Refreshed(banks[b], r.end), r.due, log[i], opened) \/ Due(b) # Due(p.bank)
      <4> HIDE DEF opened
      <4> SUFFICES ASSUME Due(b) = Due(p.bank)
                   PROVE  KeptFor(Refreshed(banks[b], r.end), r.due, log[i], opened)
        OBVIOUS
      <4>1. Advanced(r, Due(b), t.col)
        BY <1>7
      <4> HIDE DEF r
      <4> QED
        BY <1>8, <2>2, <3>1, <4>1, KeptRefreshed
    <3>3. KeptFor(banks'[b], Due(b)', log[i], opened)
      <4> HIDE DEF opened, r
      <4> QED
        BY <2>3, <3>1, <3>2
    <3>4. \A new : new = i => OpenedBy(new)' = OpenedBy(i)
      BY <1>5, <3>1 DEF HistoryKept
    <3> QED
      BY <1>6, <2>1, <2>5, <3>1, <3>3, <3>4
  <2> QED
    BY <2>4, <2>5
<1> DEFINE f == Entry(p, t)
           used == UsedBank(p, t)
<1>10. /\ used.row_opened_at = OpenedAt(t) /\ used.last_col_start = t.col
       /\ used.open_row = IF Cfg.page_policy = "closed" THEN NoRow ELSE p.row
       /\ p.row # NoRow /\ used \in BankState
       /\ used.precharge_ready >= t.col + Recovery(p.type)
       /\ used.precharge_ready >= OpenedAt(t) + Cyc("tRAS")
       /\ Cfg.page_policy = "closed" => used.act_ready >= used.precharge_ready + Cyc("tRP")
  BY <1>1, <1>7, UsedBankShape
<1>11. f.row = p.row /\ f.col = t.col /\ f.decided = DecisionCycle /\ f.type = p.type
       /\ f.act = t.ops.act /\ f.bank = p.bank
  BY DEF Entry
<1>12. r.due <= t.col + Cyc("tREFI")
  <2>1. RankOf(p.bank) \in Ranks
    BY <1>7 DEF Bank, RankOf
  <2>2. \A x \in Ranks : ranks'[x].next_refresh_due_cycle <= last_col_start_cycle' + Cyc("tREFI")
    BY <1>3 DEF CursorsAtBoundaries, Cyc, ToCycles
  <2>3. ranks'[RankOf(p.bank)].next_refresh_due_cycle = r.due
    <3>1. ranks' = RanksAfter(p, t) /\ ranks \in [Ranks -> RankState]
      BY <1>1, <1>2 DEF Drained, Drain, TypeOK
    <3> QED
      BY <2>1, <3>1 DEF RanksAfter
  <2> QED
    BY <1>7, <2>1, <2>2, <2>3
<1>13. OpenedAt(t) < r.due /\ OpenedAt(t) \in Nat
  <2>1. CASE t.ops.status # "Hit"
    BY <1>7, <2>1 DEF OpenedAt, DrainMoved, RowOpsMoved
  <2>2. CASE t.ops.status = "Hit"
    <3> DEFINE opened == log[OpenedBy(LastUse(p.bank))].act
    <3>1. LastUse(p.bank) # 0 /\ t.bank.row_opened_at = opened
      BY <1>4, <2>2
    <3>2. opened < Due(p.bank) /\ opened \in Nat
      BY <1>7, <3>1, KeptType DEF KeptFor, EntryCycles
    <3> HIDE DEF opened
    <3> QED
      BY <1>8, <2>2, <3>1, <3>2 DEF OpenedAt
  <2> QED
    BY <2>1, <2>2
<1>14. KeptFor(used, r.due, f, OpenedAt(t))
  <2>1. used.precharge_ready \in Nat /\ used.act_ready \in Nat
    BY <1>10 DEF BankState, Cycle
  <2>2. Recovery(p.type) \in Nat /\ Cyc("tRAS") \in Nat /\ Cyc("tRP") \in Nat
    BY RecoveryNat, DurationsNat
  <2> HIDE DEF used, f, r
  <2>3. Cfg.page_policy = "closed" =>
          /\ used.act_ready >= OpenedAt(t) + Cyc("tRAS") + Cyc("tRP")
          /\ used.act_ready >= t.col + Recovery(p.type) + Cyc("tRP")
    BY <1>7, <1>10, <1>13, <2>1, <2>2
  <2>4. DecisionCycle < r.due
    BY <1>7, <1>8, SomeArrived, <1>1
  <2> QED
    BY <1>10, <1>11, <1>12, <1>13, <2>3, <2>4 DEF KeptFor, ReadyAfter
<1> HIDE DEF used, f
<1>15. ASSUME NEW new, new = n + 1
       PROVE  /\ OpenedBy(new)' \in 1 .. new /\ log'[OpenedBy(new)'].act # NoCycle
              /\ log'[OpenedBy(new)'].act = OpenedAt(t)
  <2>1. CASE t.ops.status # "Hit"
    <3>1. t.ops.act \in Nat /\ t.ops.act # NoCycle
      BY <1>7, <2>1 DEF NoCycle
    <3>2. OpenedBy(new)' = n + 1
      BY <1>5, <1>7, <1>15, <3>1 DEF HistoryKept
    <3>3. log'[n + 1].act = OpenedAt(t) /\ OpenedAt(t) # NoCycle
      BY <1>6, <1>11, <2>1, <3>1 DEF OpenedAt, f
    <3> QED
      BY <1>6, <1>15, <3>2, <3>3
  <2>2. CASE t.ops.status = "Hit"
    <3> DEFINE i == LastUse(p.bank)
    <3>1. i # 0 /\ t.bank.row_opened_at = log[OpenedBy(i)].act /\ t.ops.act = NoCycle
      BY <1>4, <1>7, <2>2 DEF DrainMoved
    <3>2. i \in 1 .. n /\ OpenedBy(i) \in 1 .. i /\ OpenedBy(i) \in 1 .. n
          /\ log[OpenedBy(i)].act # NoCycle
      BY <1>7, <3>1, KeptType
    <3>3. OpenedBy(new)' = OpenedBy(i)
      BY <1>5, <1>7, <1>15, <3>1, <3>2 DEF HistoryKept
    <3> HIDE DEF i
    <3> QED
      BY <1>6, <1>15, <2>2, <3>1, <3>2, <3>3 DEF OpenedAt
  <2> QED
    BY <2>1, <2>2
<1>16. ASSUME NEW b \in Bank
       PROVE  LET i == LastUse(b)'
              IN  IF i = 0 THEN banks'[b].open_row = NoRow
                  ELSE \A new : new = i =>
                         /\ OpenedBy(new)' \in 1 .. i /\ log'[OpenedBy(new)'].act # NoCycle
                         /\ KeptFor(banks'[b], Due(b)', log'[i], log'[OpenedBy(new)'].act)
  <2>1. CASE b # p.bank
    BY <1>9, <2>1
  <2>2. CASE b = p.bank
    <3>1. LastUse(b)' = n + 1
      BY <1>5, <2>2 DEF HistoryKept
    <3>2. banks'[b] = used /\ Due(b)' = r.due
      BY <1>2, <2>2 DEF Drained, used
    <3>3. log'[n + 1] = f /\ n + 1 # 0
      BY <1>6 DEF f
    <3> QED
      BY <1>14, <1>15, <3>1, <3>2, <3>3
  <2> QED
    BY <2>1, <2>2
<1> QED
  BY <1>16 DEF BanksKept

-----------------------------------------------------------------------------
(***************************************************************************)
(* Spacing on one bank.                                                    *)
(***************************************************************************)
(* tRTP and tWR are whole nanoseconds, as Recovery takes them to be. *)
WholeRecovery == Cfg.tRTP % Cfg.ns = 0 /\ Cfg.tWR % Cfg.ns = 0

LEMMA WholeRecoveryTime ==
  ASSUME WholeRecovery, NEW type
  PROVE  Recovery(type) = RecoveryTime(type)
<1>1. ASSUME NEW d \in Nat, d % Cfg.ns = 0 PROVE (d \div Cfg.ns) * Cfg.ns = d
  <2>1. Cfg.ns \in Nat \ {0}
    BY DurationsAssumption
  <2>2. ASSUME NEW m \in Nat \ {0}, d % m = 0 PROVE (d \div m) * m = d
    <3>1. d % m = d - m * (d \div m)
      BY Z3
    <3>2. d \div m \in Nat
      OBVIOUS
    <3>3. m * (d \div m) = (d \div m) * m /\ m * (d \div m) \in Nat
      BY <3>2
    <3> QED
      BY <2>2, <3>1, <3>3
  <2> QED
    BY <1>1, <2>1, <2>2
<1>2. Cfg["tRTP"] \in Nat /\ Cfg["tWR"] \in Nat
  BY DurationsAssumption DEF Durations
<1>3. (Cfg["tRTP"] \div Cfg.ns) * Cfg.ns = Cfg["tRTP"] /\ (Cfg["tWR"] \div Cfg.ns) * Cfg.ns = Cfg["tWR"]
  BY <1>1, <1>2 DEF WholeRecovery
<1> QED
  BY <1>3 DEF Recovery, RecoveryTime, Cyc

LEMMA BankStep == BankInv /\ [Next]_vars => BankInv'
<1> SUFFICES ASSUME BankInv, [Next]_vars PROVE BankInv'
  OBVIOUS
<1>1. PlaceInv'
  BY PlaceStep DEF BankInv
<1>2. CASE DrainOne
  BY <1>1, <1>2, BankDrain DEF BankInv
<1>3. ASSUME UNCHANGED <<banks, ranks, log>> PROVE BankInv'
  <2>1. /\ \A b : LastUse(b)' = LastUse(b) /\ Due(b)' = Due(b)
        /\ \A i : OpenedBy(i)' = OpenedBy(i)
    BY <1>3 DEF LastUse, Due, OpenedBy
  <2>2. BanksKept'
    BY <1>3, <2>1 DEF BankInv, BanksKept
  <2> QED
    BY <1>1, <2>2 DEF BankInv
<1>4. ASSUME NEW cmd \in Requests, NEW ready \in Arrivals, Submit(cmd, ready) PROVE BankInv'
  BY <1>3, <1>4 DEF Submit, TryAdmit, busVars
<1>5. CASE UNCHANGED vars
  BY <1>3, <1>5 DEF vars, busVars
<1> QED
  BY <1>2, <1>4, <1>5 DEF Next

LEMMA BankInit == Init => BankInv
<1> SUFFICES ASSUME Init PROVE BankInv
  OBVIOUS
<1>1. /\ log = <<>> /\ last_col_start_cycle = 0 /\ banks = [b \in Bank |-> ClosedBank]
      /\ \A r \in Ranks : ranks[r].next_refresh_due_cycle = Cyc("tREFI")
  BY DEF Init
<1>2. Cyc("tREFI") \in Nat /\ Boundary(Cyc("tREFI"))
  <2>1. Cyc("tREFI") \in Nat
    BY RefreshPeriod, RefreshAssumption
  <2>2. 1 \in Nat \ {0} /\ Cyc("tREFI") = 1 * Cyc("tREFI")
    BY <2>1
  <2> QED
    BY <2>1, <2>2 DEF Boundary
<1>3. CursorsAtBoundaries
  BY <1>1, <1>2 DEF CursorsAtBoundaries
<1>4. BanksClear
  BY <1>1 DEF BanksClear, Past, Due, ClosedBank, RankOf, Bank
<1>5. BanksKept
  <2>1. \A b \in Bank : LastUse(b) = 0
    BY <1>1 DEF LastUse
  <2> QED
    BY <1>1, <2>1 DEF BanksKept, ClosedBank
<1> QED
  BY <1>3, <1>4, <1>5, KnownInit DEF BankInv, PlaceInv

(* The next drain f of a bank after e, in a row opened at `opened`. *)
NextApart(f, e, opened) ==
  /\ f.pre # NoCycle => f.pre >= opened + Cyc("tRAS") /\ f.pre >= e.col + Recovery(e.type)
  /\ f.act # NoCycle =>
       /\ ReadyAfter(opened, opened + Cyc("tRAS") + Cyc("tRP"), f.act)
       /\ ReadyAfter(e.decided, e.col + Recovery(e.type) + Cyc("tRP"), f.act)
  /\ f.status = "Hit" =>
       /\ e.row = f.row /\ ~ RefreshBetween(e.col, f.decided) /\ Cfg.page_policy # "closed"
       /\ Cfg.page_policy = "timer" => f.visible <= e.col + Cyc("page_close_timer")

(* The commands of one drain. *)
SelfApart(f) ==
  /\ f.act # NoCycle => f.col >= f.act + Cyc("tRCD")
  /\ f.pre # NoCycle => f.act >= f.pre + Cyc("tRP")

Linked(j, i) ==
  IF i = 0 THEN log[j].status # "Hit" /\ log[j].pre = NoCycle
  ELSE NextApart(log[j], log[i], log[OpenedBy(i)].act)

BankHistory ==
  \A j \in DOMAIN log : /\ OpenedBy(j) \in 1 .. j /\ log[OpenedBy(j)].act # NoCycle
                        /\ SelfApart(log[j])
                        /\ \A i : i = Previous(j) => Linked(j, i)

HistoryInv == BankInv /\ BankHistory

LEMMA BankHistoryDrain ==
  ASSUME HistoryInv, DrainOne
  PROVE  BankHistory'
<1> DEFINE p == Pick
           t == Placement(p)
           n == Len(log)
           last == LastUse(p.bank)
<1>1. BankInv /\ PlaceInv /\ LogTyped /\ BankHistory
  BY DEF HistoryInv, BankInv, PlaceInv, KnownInv
<1>2. Drained(p, t)
  BY <1>1, DrainDrains
<1>3. HistoryKept(p)
  BY <1>1, <1>2, HistoryStep DEF Drained
<1>4. /\ n \in Nat /\ DOMAIN log = 1 .. n /\ DOMAIN log' = 1 .. n + 1
      /\ \A i \in 1 .. n : log'[i] = log[i]
      /\ log'[n + 1] = Entry(p, t)
  BY <1>2 DEF Drained, Logs
<1>5. /\ last # 0 => NextOnBank(p, t, log[last], log[OpenedBy(last)].act)
      /\ last = 0 => t.ops.status # "Hit" /\ t.ops.pre = NoCycle
      /\ t.ops.act # NoCycle => t.col >= t.ops.act + Cyc("tRCD")
      /\ t.ops.pre # NoCycle => t.ops.act >= t.ops.pre + Cyc("tRP")
  BY <1>1, DrainNext
<1>6. last # 0 => /\ last \in 1 .. n /\ OpenedBy(last) \in 1 .. last
                  /\ log[OpenedBy(last)].act # NoCycle
  BY <1>1, <1>2, KeptType DEF Drained
<1>7. t.ops.status # "Hit" => t.ops.act \in Nat
  BY <1>2 DEF Drained
<1>8. /\ \A j \in 1 .. n : Previous(j)' = Previous(j) /\ Previous(j) \in 0 .. j - 1
      /\ \A i \in 1 .. n : OpenedBy(i)' = OpenedBy(i)
  BY <1>3 DEF HistoryKept
<1>9. \A new : new = n + 1 =>
        /\ Previous(new)' = last
        /\ t.ops.act # NoCycle => OpenedBy(new)' = n + 1
        /\ t.ops.act = NoCycle => OpenedBy(new)' = OpenedBy(last) /\ last # 0
  <2>1. t.ops.act = NoCycle => last # 0
    BY <1>5, <1>7 DEF NoCycle
  <2> QED
    BY <1>3, <1>6, <2>1 DEF HistoryKept
<1> HIDE DEF p, t, n, last
<1>10. ASSUME NEW j \in 1 .. n
       PROVE  /\ OpenedBy(j)' \in 1 .. j /\ log'[OpenedBy(j)'].act # NoCycle
              /\ SelfApart(log'[j])
              /\ \A i : i = Previous(j)' => Linked(j, i)'
  <2>1. /\ OpenedBy(j) \in 1 .. j /\ log[OpenedBy(j)].act # NoCycle /\ SelfApart(log[j])
        /\ \A i : i = Previous(j) => Linked(j, i)
    BY <1>1, <1>4 DEF BankHistory
  <2>2. OpenedBy(j) \in 1 .. n
    BY <1>4, <2>1
  <2>3. ASSUME NEW i, i = Previous(j)' PROVE Linked(j, i)'
    <3>1. i \in 0 .. j - 1 /\ Linked(j, i)
      BY <1>8, <2>1, <2>3
    <3>2. CASE i = 0
      BY <1>4, <3>1, <3>2 DEF Linked
    <3>3. CASE i # 0
      <4>1. i \in 1 .. n
        BY <1>4, <3>1, <3>3
      <4>2. OpenedBy(i) \in 1 .. n
        BY <1>1, <1>4, <4>1 DEF BankHistory
      <4>3. log'[j] = log[j] /\ log'[i] = log[i] /\ log'[OpenedBy(i)'] = log[OpenedBy(i)]
        BY <1>4, <1>8, <4>1, <4>2
      <4> QED
        BY <3>1, <3>3, <4>3 DEF Linked
    <3> QED
      BY <3>2, <3>3
  <2> QED
    BY <1>4, <1>8, <2>1, <2>2, <2>3
<1>11. ASSUME NEW j, j = n + 1
       PROVE  /\ OpenedBy(j)' \in 1 .. j /\ log'[OpenedBy(j)'].act # NoCycle
              /\ SelfApart(log'[j])
              /\ \A i : i = Previous(j)' => Linked(j, i)'
  <2>1. SelfApart(log'[j])
    BY <1>4, <1>5, <1>11 DEF SelfApart, Entry
  <2>2. OpenedBy(j)' \in 1 .. j /\ log'[OpenedBy(j)'].act # NoCycle
    <3>1. CASE t.ops.act # NoCycle
      <4>1. OpenedBy(j)' = j /\ j \in 1 .. j /\ log'[j].act = t.ops.act
        BY <1>4, <1>9, <1>11, <3>1 DEF Entry
      <4> QED
        BY <3>1, <4>1
    <3>2. CASE t.ops.act = NoCycle
      <4>1. OpenedBy(j)' = OpenedBy(last) /\ last # 0
        BY <1>9, <1>11, <3>2
      <4>2. OpenedBy(last) \in 1 .. n /\ OpenedBy(last) \in 1 .. j
        BY <1>4, <1>6, <1>11, <4>1
      <4> QED
        BY <1>4, <1>6, <4>1, <4>2
    <3> QED
      BY <3>1, <3>2
  <2>3. ASSUME NEW i, i = last PROVE Linked(j, i)'
    <3>1. CASE i = 0
      BY <1>4, <1>5, <1>11, <2>3, <3>1 DEF Linked, Entry
    <3>2. CASE i # 0
      <4>1. i \in 1 .. n /\ OpenedBy(i) \in 1 .. n
        BY <1>4, <1>6, <2>3, <3>2
      <4>2. OpenedBy(i)' = OpenedBy(i)
        BY <1>8, <4>1
      <4>3. log'[i] = log[i] /\ log'[OpenedBy(i)'] = log[OpenedBy(i)]
        BY <1>4, <4>1, <4>2
      <4>4. NextApart(Entry(p, t), log[i], log[OpenedBy(i)].act)
        BY <1>5, <2>3, <3>2 DEF NextApart, NextOnBank, Entry
      <4> QED
        BY <1>4, <1>11, <3>2, <4>3, <4>4 DEF Linked
    <3> QED
      BY <3>1, <3>2
  <2> QED
    BY <1>9, <1>11, <2>1, <2>2, <2>3
<1> QED
  BY <1>4, <1>10, <1>11 DEF BankHistory

LEMMA BankHistoryStep == HistoryInv /\ [Next]_vars => HistoryInv'
<1> SUFFICES ASSUME HistoryInv, [Next]_vars PROVE HistoryInv'
  OBVIOUS
<1>1. BankInv'
  BY BankStep DEF HistoryInv
<1>2. CASE DrainOne
  BY <1>1, <1>2, BankHistoryDrain DEF HistoryInv
<1>3. CASE log' = log
  <2>1. /\ \A j : Previous(j)' = Previous(j) /\ OpenedBy(j)' = OpenedBy(j)
        /\ \A i, j : Linked(j, i)' = Linked(j, i)
    BY <1>3 DEF Previous, OpenedBy, Linked
  <2> QED
    BY <1>1, <1>3, <2>1 DEF HistoryInv, BankHistory
<1>4. ASSUME NEW cmd \in Requests, NEW ready \in Arrivals, Submit(cmd, ready) PROVE log' = log
  BY <1>4 DEF Submit, TryAdmit
<1>5. CASE UNCHANGED vars
  BY <1>3, <1>5 DEF vars
<1> QED
  BY <1>2, <1>3, <1>4, <1>5 DEF Next

LEMMA BankHistoryInit == Init => HistoryInv
<1> SUFFICES ASSUME Init PROVE HistoryInv
  OBVIOUS
<1>1. DOMAIN log = {}
  BY DEF Init
<1> QED
  BY <1>1, BankInit DEF HistoryInv, BankHistory

(* The drain before j on its bank, with the cycles the two are measured by. *)
LEMMA PairTyped ==
  ASSUME HistoryInv, NEW j \in DOMAIN log
  PROVE  LET i == Previous(j) IN
         /\ log[j] \in LogEntry /\ SelfApart(log[j]) /\ Linked(j, i)
         /\ i # 0 => /\ log[i] \in LogEntry /\ log[OpenedBy(i)].act \in Nat
                     /\ NextApart(log[j], log[i], log[OpenedBy(i)].act)
<1>1. LogTyped /\ BankHistory
  BY DEF HistoryInv, BankInv, PlaceInv, KnownInv
<1>2. \A k \in DOMAIN log : log[k] \in LogEntry
  BY <1>1, LenProperties DEF LogTyped
<1>3. DOMAIN log = 1 .. Len(log) /\ Len(log) \in Nat
  BY <1>1, LenProperties DEF LogTyped
<1>4. Linked(j, Previous(j)) /\ SelfApart(log[j])
  BY <1>1 DEF BankHistory
<1>5. ASSUME Previous(j) # 0 PROVE Previous(j) \in DOMAIN log
  <2> DEFINE earlier == {i \in 1 .. j - 1 : log[i].bank = log[j].bank}
  <2>1. earlier # {} /\ Previous(j) = Max(earlier)
    BY <1>5 DEF Previous
  <2>2. earlier \in SUBSET (1 .. j - 1) /\ 1 \in Int /\ j - 1 \in Int
    BY <1>3
  <2> HIDE DEF earlier
  <2>3. Previous(j) \in 1 .. j - 1
    BY <2>1, <2>2, IntMax
  <2> QED
    BY <1>3, <2>3
<1>6. ASSUME Previous(j) # 0
      PROVE  log[OpenedBy(Previous(j))].act \in Nat
  <2>1. OpenedBy(Previous(j)) \in 1 .. Previous(j) /\ log[OpenedBy(Previous(j))].act # NoCycle
    BY <1>1, <1>5, <1>6 DEF BankHistory
  <2>2. OpenedBy(Previous(j)) \in DOMAIN log
    BY <1>3, <1>5, <1>6, <2>1
  <2> QED
    BY <1>2, <2>1, <2>2 DEF LogEntry
<1> QED
  BY <1>2, <1>4, <1>5, <1>6 DEF Linked

(* PRE, ACT and column command of a bank, and two ACTs of it with no refresh
   between them, keep tRCD, tRP, tRAS and tRAS + tRP apart in every history,
   although the scheduler carries only three cursors a bank and never reads tRC. *)
THEOREM RowsKeepTheirCycle == Spec => []RowCycle
<1>1. ASSUME HistoryInv PROVE RowCycle
  <2> SUFFICES ASSUME NEW j \in DOMAIN log
               PROVE  LET f == log[j] IN
                      /\ SelfApart(f)
                      /\ Previous(j) # 0 =>
                           LET opened == log[OpenedBy(Previous(j))].act IN
                           /\ f.pre # NoCycle => f.pre >= opened + Cyc("tRAS")
                           /\ f.act # NoCycle /\ ~ RefreshBetween(opened, f.act)
                              => f.act >= opened + Cyc("tRAS") + Cyc("tRP")
    BY DEF RowCycle, SelfApart
  <2> QED
    BY <1>1, PairTyped DEF NextApart, ReadyAfter
<1> QED
  BY <1>1, BankHistoryInit, BankHistoryStep, PTL DEF Spec

(* tRTP and tWR are kept to a bank's PRE, and with tRP to its next ACT, whichever
   of precharge, automatic precharge and idle timer closed the row; for tRTP and
   tWR in whole nanoseconds, which is all Bank keeps of them. *)
THEOREM RecoveriesAreRespected == ASSUME WholeRecovery PROVE Spec => []RecoveryRespected
<1>1. ASSUME HistoryInv PROVE RecoveryRespected
  <2> SUFFICES ASSUME NEW j \in DOMAIN log, Previous(j) # 0
               PROVE  LET e         == log[Previous(j)]
                          recovered == e.col + RecoveryTime(e.type)
                          act       == log[j].act
                      IN  /\ log[j].pre # NoCycle => log[j].pre >= recovered
                          /\ act # NoCycle /\ ~ RefreshBetween(e.decided, act)
                             => act >= recovered + Cyc("tRP")
    BY DEF RecoveryRespected
  <2>1. NextApart(log[j], log[Previous(j)], log[OpenedBy(Previous(j))].act)
    BY <1>1, PairTyped
  <2> QED
    BY <2>1, WholeRecoveryTime DEF NextApart, ReadyAfter
<1> QED
  BY <1>1, BankHistoryInit, BankHistoryStep, PTL DEF Spec

(* A page hit is real: the row it needs is the one the bank's last command used,
   and nothing, refresh, page policy or idle timer, has closed it since. *)
THEOREM HitsFindTheirRow == Spec => []HitsAreReal
<1>1. ASSUME HistoryInv PROVE HitsAreReal
  <2> SUFFICES ASSUME NEW j \in DOMAIN log, log[j].status = "Hit"
               PROVE  /\ Previous(j) # 0
                      /\ LET e == log[Previous(j)] IN
                         /\ e.row = log[j].row
                         /\ ~ RefreshBetween(e.col, log[j].decided)
                         /\ Cfg.page_policy # "closed"
                         /\ Cfg.page_policy = "timer"
                            => log[j].visible <= e.col + Cyc("page_close_timer")
    BY DEF HitsAreReal
  <2> QED
    BY <1>1, PairTyped DEF NextApart, Linked
<1> QED
  BY <1>1, BankHistoryInit, BankHistoryStep, PTL DEF Spec

-----------------------------------------------------------------------------
(***************************************************************************)
(* The activate window.                                                    *)
(***************************************************************************)
(* The window after one more ACT: shifted by one, and poorer only by ACTs that
   are tFAW past. *)
Shifted(acts, next, act) ==
  LET m == Len(acts)
      k == Len(next)
  IN  /\ next \in Seq(Nat) /\ k \in 1 .. 4 /\ next[k] = act
      /\ \A c \in 0 .. m - 1 : \/ c + 1 < k /\ next[k - (c + 1)] = acts[m - c]
                               \/ acts[m - c] + Cyc("tFAW") <= act

LEMMA WindowNext ==
  ASSUME NEW acts \in Seq(Nat), NEW gated \in Nat, NEW act \in Nat, gated <= act,
         Len(acts) <= 4, Len(acts) >= 4 => gated >= acts[1] + Cyc("tFAW")
  PROVE  Shifted(acts, Append(StillInWindow(acts, gated), act), act)
<1> DEFINE m == Len(acts)
           still == StillInWindow(acts, gated)
           next == Append(still, act)
<1>1. m \in Nat /\ m <= 4 /\ \A i \in 1 .. m : acts[i] \in Nat
  BY LenProperties
<1>2. Cyc("tFAW") \in Nat
  BY CycNat DEF Durations
<1>3. PICK first \in 1 .. m + 1 :
        /\ still = SubSeq(acts, first, m)
        /\ \A i \in 1 .. first - 1 : acts[i] + Cyc("tFAW") <= gated
        /\ acts # <<>> /\ acts[1] + Cyc("tFAW") <= gated => first # 1
  BY StillInWindowShape
<1>4. /\ still \in Seq(Nat) /\ Len(still) = m - first + 1
      /\ \A i \in 1 .. m - first + 1 : still[i] = acts[first + i - 1]
  <2>1. \A i \in first .. m : acts[i] \in Nat
    BY <1>1
  <2>2. CASE first = m + 1
    <3>1. still = <<>>
      BY <1>1, <1>3, <2>2, SubSeqProperties, EmptySeq
    <3> QED
      BY <1>1, <2>2, <3>1, EmptySeq
  <2>3. CASE first # m + 1
    BY <1>1, <1>3, <2>1, <2>3, SubSeqProperties
  <2> QED
    BY <2>2, <2>3
<1>5. m = 4 => first # 1
  BY <1>1, <1>2, <1>3, EmptySeq
<1> HIDE DEF still
<1>6. /\ next \in Seq(Nat) /\ Len(next) = m - first + 2 /\ next[m - first + 2] = act
      /\ \A i \in 1 .. m - first + 1 : next[i] = still[i]
  BY <1>1, <1>4, AppendProperties
<1> HIDE DEF next, m
<1>7. Len(next) \in 1 .. 4
  BY <1>1, <1>3, <1>5, <1>6
<1>8. ASSUME NEW c \in 0 .. m - 1
      PROVE  \/ c + 1 < Len(next) /\ next[Len(next) - (c + 1)] = acts[m - c]
             \/ acts[m - c] + Cyc("tFAW") <= act
  <2>1. m - c \in 1 .. m
    BY <1>1
  <2>2. CASE m - c < first
    BY <1>1, <1>2, <1>3, <2>1, <2>2
  <2>3. CASE m - c >= first
    <3>1. /\ Len(next) - (c + 1) = m - first + 1 - c /\ m - first + 1 - c \in 1 .. m - first + 1
          /\ c + 1 < Len(next)
      BY <1>1, <1>3, <1>6, <2>1, <2>3
    <3>2. first + (m - first + 1 - c) - 1 = m - c
      BY <1>1, <1>3
    <3> QED
      BY <1>4, <1>6, <3>1, <3>2
  <2> QED
    BY <1>1, <1>3, <2>1, <2>2, <2>3
<1> QED
  BY <1>6, <1>7, <1>8 DEF next, m, still, Shifted

(* The drains that placed an ACT on rank r, and how many did after drain k. *)
Acts(r) == {k \in DOMAIN log : RankOf(log[k].bank) = r /\ log[k].act # NoCycle}

Between(r, i, j) == {k \in Acts(r) : i < k /\ k < j}

Since(r, k) == Cardinality({x \in Acts(r) : k < x})

(* What a rank that recalls the ACTs `acts` knows of e, placed `later` ACTs ago. *)
Recalled(e, acts, later, group) ==
  LET m == Len(acts) IN
  /\ m # 0 /\ e.act <= acts[m]
  /\ later = 0 => group = GroupOf(e.bank)
  /\ \/ later < m /\ acts[m - later] = e.act
     \/ e.act + Cyc("tFAW") <= acts[m]

RankRecalls(r) ==
  LET acts  == ranks[r].recent_activates
      group == ranks[r].last_activate_bankgroup
  IN  /\ Len(acts) <= 4
      /\ \A k \in Acts(r) : Recalled(log[k], acts, Since(r, k), group)

(* Two ACTs of a rank with the ACTs `between` them. *)
Apart(e, f, between) ==
  /\ f.act >= e.act + Cyc("tRRD_S")
  /\ between = {} /\ GroupOf(e.bank) = GroupOf(f.bank) => f.act >= e.act + Cyc("tRRD_L")
  /\ Cardinality(between) >= 3 => f.act >= e.act + Cyc("tFAW")

RankSpaced(r) == \A i, j \in Acts(r) : i < j => Apart(log[i], log[j], Between(r, i, j))

WindowInv == PlaceInv /\ \A r \in Ranks : RankRecalls(r) /\ RankSpaced(r)

LEMMA LongerActivates ==
  /\ Cyc("tRRD_L") \in Nat /\ Cyc("tRRD_S") \in Nat /\ Cyc("tFAW") \in Nat
  /\ Cyc("tRRD_L") >= Cyc("tRRD_S")
<1>1. /\ Cfg.clock \in Nat \ {0} /\ Cfg["tRRD_L"] \in Nat /\ Cfg["tRRD_S"] \in Nat
      /\ Cfg["tRRD_L"] >= Cfg["tRRD_S"]
  BY DurationsAssumption DEF Durations
<1>2. ASSUME NEW a \in Nat, NEW b \in Nat, NEW c \in Nat \ {0}, a >= b
      PROVE  a \div c >= b \div c
  BY <1>2, Z3
<1>3. Cyc("tRRD_L") >= Cyc("tRRD_S")
  <2> DEFINE long  == Cfg["tRRD_L"] + Cfg.clock - 1
             short == Cfg["tRRD_S"] + Cfg.clock - 1
  <2>1. long \in Nat /\ short \in Nat /\ long >= short
    BY <1>1
  <2> HIDE DEF long, short
  <2>2. long \div Cfg.clock >= short \div Cfg.clock
    BY <1>1, <1>2, <2>1
  <2> QED
    BY <2>2 DEF Cyc, ToCycles, long, short
<1> QED
  BY <1>3, CycNat DEF Durations

(* The next ACT of a rank, against one it recalls. *)
LEMMA RecalledNext ==
  ASSUME NEW p, NEW ops, SpacedActs(p, ops), ops.act \in Nat,
         ranks[RankOf(p.bank)].recent_activates \in Seq(Nat),
         Len(ranks[RankOf(p.bank)].recent_activates) <= 4
  PROVE  LET rank == ranks[RankOf(p.bank)]
             acts == rank.recent_activates
             next == ops.acts
         IN  /\ next \in Seq(Nat) /\ Len(next) \in 1 .. 4 /\ next[Len(next)] = ops.act
             /\ \A e, later : /\ e.act \in Nat /\ later \in Nat
                              /\ Recalled(e, acts, later, rank.last_activate_bankgroup)
                  => /\ \A group : Recalled(e, next, later + 1, group)
                     /\ ops.act >= e.act + Cyc("tRRD_S")
                     /\ later = 0 /\ GroupOf(e.bank) = GroupOf(p.bank)
                          => ops.act >= e.act + Cyc("tRRD_L")
                     /\ later >= 3 => ops.act >= e.act + Cyc("tFAW")
<1> DEFINE rank  == ranks[RankOf(p.bank)]
           acts  == rank.recent_activates
           last  == rank.last_activate_bankgroup
           m     == Len(acts)
           next  == ops.acts
           gap   == Cyc(IF last = GroupOf(p.bank) THEN "tRRD_L" ELSE "tRRD_S")
           short == Cyc("tRRD_S")
           long  == Cyc("tRRD_L")
           faw   == Cyc("tFAW")
<1>1. /\ short \in Nat /\ long \in Nat /\ faw \in Nat /\ short <= long
      /\ gap = IF last = GroupOf(p.bank) THEN long ELSE short
  BY LongerActivates
<1>2. PICK gated \in Nat : /\ gated <= ops.act
                           /\ acts # <<>> => gated >= acts[m] + gap
                           /\ m >= 4 => gated >= acts[1] + faw
                           /\ next = Append(StillInWindow(acts, gated), ops.act)
  BY DEF SpacedActs
<1>a. acts \in Seq(Nat) /\ m = Len(acts)
  OBVIOUS
<1>b. m <= 4
  OBVIOUS
<1> HIDE DEF acts, m
<1>3. m \in 0 .. 4 /\ (m # 0 => acts # <<>>) /\ \A i \in 1 .. m : acts[i] \in Nat
  <2>1. m \in Nat /\ \A i \in 1 .. m : acts[i] \in Nat
    BY <1>a, LenProperties
  <2>2. acts = <<>> => m = 0
    BY <1>a, EmptySeq
  <2>3. m \in 0 .. 4
    BY <1>b, <2>1
  <2> QED
    BY <2>1, <2>2, <2>3, Zenon
<1>4. /\ next \in Seq(Nat) /\ Len(next) \in 1 .. 4 /\ next[Len(next)] = ops.act
      /\ \A c \in 0 .. m - 1 : \/ c + 1 < Len(next) /\ next[Len(next) - (c + 1)] = acts[m - c]
                               \/ acts[m - c] + faw <= ops.act
  <2>1. Shifted(acts, next, ops.act)
    BY <1>2, <1>a, <1>b, WindowNext
  <2> QED
    BY <2>1 DEF Shifted, m
<1> HIDE DEF next, gap, short, long, faw, last
<1>5. ASSUME NEW e, NEW later, e.act \in Nat, later \in Nat, Recalled(e, acts, later, last)
      PROVE  /\ \A group : Recalled(e, next, later + 1, group)
             /\ ops.act >= e.act + short
             /\ later = 0 /\ GroupOf(e.bank) = GroupOf(p.bank) => ops.act >= e.act + long
             /\ later >= 3 => ops.act >= e.act + faw
  <2>1. /\ m # 0 /\ e.act <= acts[m]
        /\ later = 0 => last = GroupOf(e.bank)
        /\ (later < m /\ acts[m - later] = e.act) \/ e.act + faw <= acts[m]
    BY <1>5 DEF Recalled, m, faw
  <2>2. acts[m] \in Nat /\ acts[1] \in Nat /\ gated >= acts[m] + gap
    BY <1>2, <1>3, <2>1
  <2>3. gap \in Nat /\ gap >= short
    BY <1>1
  <2>4. ops.act >= e.act + gap /\ ops.act >= e.act + short /\ ops.act >= acts[m]
    <3>1. ops.act \in Nat /\ ops.act >= gated /\ e.act \in Nat /\ short \in Nat
      BY <1>1, <1>2, <1>5
    <3> QED
      BY <2>1, <2>2, <2>3, <3>1
  <2>5. ASSUME later = 0, GroupOf(e.bank) = GroupOf(p.bank) PROVE ops.act >= e.act + long
    BY <1>1, <2>1, <2>4, <2>5
  <2>6. ASSUME NEW group PROVE Recalled(e, next, later + 1, group)
    <3>1. Len(next) # 0 /\ e.act <= next[Len(next)] /\ later + 1 # 0
      <4>1. Len(next) # 0 /\ next[Len(next)] = ops.act /\ ops.act >= e.act + short
        <5>1. Len(next) # 0
          <6> DEFINE k == Len(next)
          <6>1. k \in 1 .. 4
            BY <1>4
          <6> HIDE DEF k
          <6>2. k # 0
            BY <6>1
          <6> QED
            BY <6>2 DEF k
        <5> QED
          BY <1>4, <2>4, <5>1
      <4> QED
        BY <1>1, <1>5, <4>1
    <3>2. \/ later + 1 < Len(next) /\ next[Len(next) - (later + 1)] = e.act
          \/ e.act + faw <= next[Len(next)]
      <4>1. CASE later < m /\ acts[m - later] = e.act
        <5>1. later \in 0 .. m - 1
          BY <1>3, <1>5, <4>1
        <5> QED
          BY <1>4, <4>1, <5>1
      <4>2. CASE e.act + faw <= acts[m]
        BY <1>1, <1>4, <1>5, <2>2, <2>4, <4>2
      <4> QED
        BY <2>1, <4>1, <4>2
    <3> QED
      BY <3>1, <3>2 DEF Recalled, faw
  <2>7. ASSUME later >= 3 PROVE ops.act >= e.act + faw
    <3>1. CASE later < m /\ acts[m - later] = e.act
      <4>1. later = 3 /\ m = 4
        BY <1>3, <1>5, <2>7, <3>1
      <4>2. acts[1] = e.act
        BY <3>1, <4>1
      <4> QED
        BY <1>1, <1>2, <1>5, <4>1, <4>2
    <3>2. CASE e.act + faw <= acts[m]
      BY <1>1, <1>5, <2>2, <2>4, <3>2
    <3> QED
      BY <2>1, <3>1, <3>2
  <2> QED
    BY <2>4, <2>5, <2>6, <2>7
<1> QED
  BY <1>4, <1>5 DEF next, m, short, long, faw, last, acts

(* What a drain of p, the log's entry `new`, adds to the ACTs of a rank. *)
Another(p, r) == RankOf(p.bank) = r /\ Placement(p).ops.act # NoCycle

ActsKept(p, r, new) ==
  /\ Acts(r)' = Acts(r) \cup (IF Another(p, r) THEN {new} ELSE {})
  /\ \A k \in Acts(r) :
       /\ k \in 1 .. new - 1 /\ Since(r, k) \in Nat
       /\ Since(r, k)' = Since(r, k) + (IF Another(p, r) THEN 1 ELSE 0)
       /\ Between(r, k, new)' = {x \in Acts(r) : k < x}
       /\ \A j \in Acts(r) : Between(r, k, j)' = Between(r, k, j)
  /\ Since(r, new)' = 0

LEMMA ActsStep ==
  ASSUME LogTyped, NEW p, Logs(p), NEW r, NEW new, new = Len(log) + 1
  PROVE  ActsKept(p, r, new)
<1> DEFINE A == Acts(r)
           B == Acts(r)'
<1>1. /\ Len(log) \in Nat /\ new \in Nat /\ new - 1 = Len(log)
      /\ DOMAIN log = 1 .. new - 1 /\ DOMAIN log' = 1 .. new
      /\ \A i \in 1 .. new - 1 : log'[i] = log[i]
      /\ log'[new].bank = p.bank /\ log'[new].act = Placement(p).ops.act
  BY DEF Logs, Entry
<1>2. A \in SUBSET (1 .. new - 1)
  BY <1>1 DEF Acts
<1>3. IsFiniteSet(A)
  <2>1. 1 \in Int /\ new - 1 \in Int
    BY <1>1
  <2> QED
    BY <1>2, <2>1, FS_Interval, FS_Subset
<1>4. /\ \A k \in A : k \in B
      /\ Another(p, r) => new \in B
      /\ \A k \in B : k # new => k \in A
      /\ new \in B => Another(p, r)
  BY <1>1 DEF Acts, Another
<1> HIDE DEF A, B
<1>5. \A k \in A : k \in 1 .. new - 1 /\ k < new /\ k # new
  BY <1>1, <1>2
<1>6. B = A \cup (IF Another(p, r) THEN {new} ELSE {})
  BY <1>4
<1>7. \A k \in B : k <= new /\ k \in Nat
  BY <1>1, <1>4, <1>5
<1>8. ASSUME NEW k \in A
      PROVE  /\ Since(r, k) \in Nat
             /\ Since(r, k)' = Since(r, k) + (IF Another(p, r) THEN 1 ELSE 0)
             /\ Between(r, k, new)' = {x \in A : k < x}
             /\ \A j \in A : Between(r, k, j)' = Between(r, k, j)
  <2> DEFINE S == {x \in A : k < x}
             T == {x \in B : k < x}
  <2>1. Since(r, k) = Cardinality(S) /\ Since(r, k)' = Cardinality(T)
    BY DEF Since, A, B
  <2>2. k < new /\ \A x \in A : x # new /\ x < new
    BY <1>5
  <2>3. IsFiniteSet(S) /\ Cardinality(S) \in Nat /\ new \notin S
    BY <1>3, <2>2, FS_Subset, FS_CardinalityType
  <2>4. \A x : x \in T <=> x \in S \/ (Another(p, r) /\ x = new)
    BY <1>6, <2>2
  <2>5. Between(r, k, new)' = S
    <3>1. Between(r, k, new)' = {x \in B : k < x /\ x < new}
      BY DEF Between, B
    <3>2. ~ new < new
      BY <1>1
    <3>3. \A x : x \in {y \in B : k < y /\ y < new} <=> x \in S
      BY <1>4, <2>2, <3>2
    <3> QED
      BY <3>1, <3>3
  <2>6. ASSUME NEW j \in A PROVE Between(r, k, j)' = Between(r, k, j)
    <3>1. ~ new < j
      BY <1>1, <1>5
    <3>2. \A x : (x \in B /\ k < x /\ x < j) <=> (x \in A /\ k < x /\ x < j)
      BY <1>4, <3>1
    <3> QED
      BY <3>2 DEF Between, A, B
  <2> HIDE DEF S, T
  <2>7. Cardinality(T) = Cardinality(S) + (IF Another(p, r) THEN 1 ELSE 0)
    <3>1. CASE Another(p, r)
      <4>1. T = S \cup {new}
        BY <2>4, <3>1
      <4> QED
        BY <2>3, <3>1, <4>1, FS_AddElement
    <3>2. CASE ~ Another(p, r)
      <4>1. T = S
        BY <2>4, <3>2
      <4> QED
        BY <2>3, <3>2, <4>1
    <3> QED
      BY <3>1, <3>2
  <2> QED
    BY <2>1, <2>3, <2>5, <2>6, <2>7 DEF S
<1>9. Since(r, new)' = 0
  <2>1. {x \in B : new < x} = {}
    BY <1>1, <1>7
  <2> QED
    BY <2>1, FS_EmptySet DEF Since, B
<1> QED
  BY <1>5, <1>6, <1>8, <1>9 DEF ActsKept, A, B

LEMMA WindowDrain ==
  ASSUME WindowInv, DrainOne, NEW r \in Ranks
  PROVE  RankRecalls(r)' /\ RankSpaced(r)'
<1> DEFINE p == Pick
           t == Placement(p)
           acts == ranks[r].recent_activates
           group == ranks[r].last_activate_bankgroup
<1>1. PlaceInv /\ TypeOK /\ LogTyped /\ RankRecalls(r) /\ RankSpaced(r)
  BY DEF WindowInv, PlaceInv, KnownInv, IInv
<1>2. Drained(p, t)
  BY <1>1, DrainDrains
<1>3. PICK new : new = Len(log) + 1
  OBVIOUS
<1>4. ActsKept(p, r, new)
  BY <1>1, <1>2, <1>3, ActsStep DEF Drained
<1>5. /\ new \in Nat /\ new - 1 = Len(log) /\ DOMAIN log = 1 .. new - 1
      /\ \A i \in 1 .. new - 1 : log'[i] = log[i] /\ log[i] \in LogEntry
      /\ log'[new] = Entry(p, t)
  BY <1>2, <1>3 DEF Drained, Logs
<1>6. /\ p \in pending /\ p.bank \in Bank /\ t = Placement(p) /\ DrainMoved(p, t)
      /\ t.ops.status # "Hit" => t.ops.act \in Nat
      /\ ranks' = RanksAfter(p, t) /\ ranks \in [Ranks -> RankState]
  BY <1>1, <1>2 DEF Drained, Drain, TypeOK
<1>7. acts \in Seq(Nat) /\ Len(acts) <= 4
  BY <1>1, <1>6 DEF RankState, Cycle, RankRecalls
<1>8. \A k \in Acts(r) : /\ log[k].act \in Nat /\ Since(r, k) \in Nat /\ k \in 1 .. new - 1
                         /\ log'[k] = log[k]
                         /\ Recalled(log[k], acts, Since(r, k), group)
  <2> TAKE k \in Acts(r)
  <2>1. k \in 1 .. new - 1 /\ Since(r, k) \in Nat
    BY <1>4 DEF ActsKept
  <2>2. log[k].act \in Nat
    BY <1>5, <2>1 DEF Acts, LogEntry
  <2> QED
    BY <1>1, <1>5, <2>1, <2>2 DEF RankRecalls
<1> HIDE DEF p, t
<1>9. CASE Another(p, r)
  <2>1. /\ r = RankOf(p.bank) /\ t.ops.status # "Hit" /\ t.ops.act \in Nat
        /\ SpacedActs(p, t.ops)
    BY <1>6, <1>9 DEF Another, DrainMoved, RowOpsMoved
  <2>2. /\ ranks'[r].recent_activates = t.ops.acts
        /\ ranks'[r].last_activate_bankgroup = GroupOf(p.bank)
    BY <1>6, <2>1 DEF RanksAfter
  <2>3. /\ Acts(r)' = Acts(r) \cup {new} /\ Since(r, new)' = 0
        /\ \A k \in Acts(r) : /\ Since(r, k)' = Since(r, k) + 1
                              /\ Between(r, k, new)' = {x \in Acts(r) : k < x}
                              /\ \A j \in Acts(r) : Between(r, k, j)' = Between(r, k, j)
    BY <1>4, <1>9 DEF ActsKept
  <2>4. log'[new].act = t.ops.act /\ log'[new].bank = p.bank
    BY <1>5 DEF Entry
  <2>5. /\ t.ops.acts \in Seq(Nat) /\ Len(t.ops.acts) \in 1 .. 4
        /\ t.ops.acts[Len(t.ops.acts)] = t.ops.act
    BY <1>7, <2>1, RecalledNext
  <2>6. ASSUME NEW k \in Acts(r)
        PROVE  /\ Recalled(log[k], t.ops.acts, Since(r, k) + 1, GroupOf(p.bank))
               /\ t.ops.act >= log[k].act + Cyc("tRRD_S")
               /\ Since(r, k) = 0 /\ GroupOf(log[k].bank) = GroupOf(p.bank)
                    => t.ops.act >= log[k].act + Cyc("tRRD_L")
               /\ Since(r, k) >= 3 => t.ops.act >= log[k].act + Cyc("tFAW")
    BY <1>7, <1>8, <2>1, RecalledNext
  <2>7. Recalled(log'[new], t.ops.acts, 0, GroupOf(p.bank))
    <3> DEFINE m == Len(t.ops.acts)
    <3>1. m \in 1 .. 4 /\ t.ops.acts[m] = log'[new].act /\ GroupOf(log'[new].bank) = GroupOf(p.bank)
      BY <2>4, <2>5
    <3>2. m # 0 /\ 0 < m /\ m - 0 = m
      <4> HIDE DEF m
      <4> QED
        BY <3>1
    <3>3. log'[new].act <= t.ops.acts[m]
      BY <2>1, <2>4, <3>1
    <3> QED
      BY <3>1, <3>2, <3>3 DEF Recalled
  <2>8. RankRecalls(r)'
    <3>1. ASSUME NEW k \in Acts(r)'
          PROVE  Recalled(log'[k], ranks'[r].recent_activates, Since(r, k)',
                          ranks'[r].last_activate_bankgroup)
      <4>1. CASE k = new
        BY <2>2, <2>3, <2>7, <4>1
      <4>2. CASE k # new
        BY <1>8, <2>2, <2>3, <2>6, <4>2
      <4> QED
        BY <4>1, <4>2
    <3>2. Len(ranks'[r].recent_activates) <= 4
      BY <2>2, <2>5
    <3> QED
      BY <3>1, <3>2 DEF RankRecalls
  <2>9. RankSpaced(r)'
    <3> SUFFICES ASSUME NEW i \in Acts(r)', NEW j \in Acts(r)', i < j
                 PROVE  Apart(log'[i], log'[j], Between(r, i, j)')
      BY DEF RankSpaced
    <3>1. i \in Acts(r)
      BY <1>5, <1>8, <2>3
    <3>2. CASE j = new
      <4>1. Between(r, i, j)' = {x \in Acts(r) : i < x} /\ log'[i] = log[i]
        BY <1>8, <2>3, <3>1, <3>2
      <4>2. Since(r, i) = Cardinality({x \in Acts(r) : i < x})
        BY DEF Since
      <4>3. {x \in Acts(r) : i < x} = {} => Since(r, i) = 0
        BY <4>2, FS_EmptySet
      <4> QED
        BY <2>4, <2>6, <3>1, <3>2, <4>1, <4>2, <4>3 DEF Apart
    <3>3. CASE j # new
      <4>1. j \in Acts(r)
        BY <2>3, <3>3
      <4>2. Between(r, i, j)' = Between(r, i, j) /\ log'[i] = log[i] /\ log'[j] = log[j]
        BY <1>8, <2>3, <3>1, <4>1
      <4> QED
        BY <1>1, <3>1, <4>1, <4>2 DEF RankSpaced
    <3> QED
      BY <3>2, <3>3
  <2> QED
    BY <2>8, <2>9
<1>10. CASE ~ Another(p, r)
  <2>1. /\ ranks'[r].recent_activates = acts
        /\ ranks'[r].last_activate_bankgroup = group
    <3>1. CASE r = RankOf(p.bank)
      <4>1. t.ops.status = "Hit"
        BY <1>6, <1>10, <3>1 DEF Another, NoCycle
      <4> QED
        BY <1>6, <3>1, <4>1 DEF RanksAfter, DrainMoved
    <3>2. CASE r # RankOf(p.bank)
      BY <1>6, <3>2 DEF RanksAfter
    <3> QED
      BY <3>1, <3>2
  <2>2. /\ Acts(r)' = Acts(r)
        /\ \A k \in Acts(r) : /\ Since(r, k)' = Since(r, k)
                              /\ \A j \in Acts(r) : Between(r, k, j)' = Between(r, k, j)
    BY <1>4, <1>10 DEF ActsKept
  <2>3. RankRecalls(r)'
    <3>1. \A k \in Acts(r)' : Recalled(log'[k], ranks'[r].recent_activates, Since(r, k)',
                                       ranks'[r].last_activate_bankgroup)
      BY <1>8, <2>1, <2>2
    <3> QED
      BY <1>7, <2>1, <3>1 DEF RankRecalls
  <2>4. RankSpaced(r)'
    BY <1>1, <1>8, <2>2 DEF RankSpaced
  <2> QED
    BY <2>3, <2>4
<1> QED
  BY <1>9, <1>10

LEMMA WindowStep == WindowInv /\ [Next]_vars => WindowInv'
<1> SUFFICES ASSUME WindowInv, [Next]_vars PROVE WindowInv'
  OBVIOUS
<1>1. PlaceInv'
  BY PlaceStep DEF WindowInv
<1>2. CASE DrainOne
  BY <1>1, <1>2, WindowDrain DEF WindowInv
<1>3. ASSUME UNCHANGED <<ranks, log>> PROVE WindowInv'
  <2>1. \A r \in Ranks : /\ Acts(r)' = Acts(r)
                         /\ \A k : Since(r, k)' = Since(r, k)
                         /\ \A i, j : Between(r, i, j)' = Between(r, i, j)
    BY <1>3 DEF Acts, Since, Between
  <2>2. \A r \in Ranks : RankRecalls(r)' /\ RankSpaced(r)'
    BY <1>3, <2>1 DEF WindowInv, RankRecalls, RankSpaced
  <2> QED
    BY <1>1, <2>2 DEF WindowInv
<1>4. ASSUME NEW cmd \in Requests, NEW ready \in Arrivals, Submit(cmd, ready) PROVE WindowInv'
  BY <1>3, <1>4 DEF Submit, TryAdmit, busVars
<1>5. CASE UNCHANGED vars
  BY <1>3, <1>5 DEF vars, busVars
<1> QED
  BY <1>2, <1>4, <1>5 DEF Next

LEMMA WindowInit == Init => WindowInv
<1> SUFFICES ASSUME Init PROVE WindowInv
  OBVIOUS
<1>1. \A r \in Ranks : Acts(r) = {} /\ ranks[r].recent_activates = <<>>
  BY DEF Init, Acts
<1>2. Len(<<>>) <= 4
  OBVIOUS
<1>3. \A r \in Ranks : RankRecalls(r) /\ RankSpaced(r)
  BY <1>1, <1>2 DEF RankRecalls, RankSpaced
<1> QED
  BY <1>3, BankInit DEF WindowInv, BankInv

(* ACTs of one rank keep their order, tRRD between neighbours and tFAW across any
   five of a whole history, although the rank remembers at most four and trims
   them at cycles the command bus then pushes further. *)
THEOREM ActivatesAreSpaced == Spec => []ActivateSpacing
<1>1. ASSUME WindowInv PROVE ActivateSpacing
  <2>1. LogTyped
    BY <1>1 DEF WindowInv, PlaceInv, KnownInv
  <2>2. \A i \in DOMAIN log : RankOf(log[i].bank) \in Ranks
    <3>1. \A i \in DOMAIN log : log[i] \in LogEntry
      BY <2>1, LenProperties DEF LogTyped
    <3> QED
      BY <3>1 DEF LogEntry, Bank, RankOf
  <2>3. ASSUME NEW i \in DOMAIN log, NEW j \in DOMAIN log, i < j,
               {i, j} \subseteq Acts(RankOf(log[i].bank))
        PROVE  Apart(log[i], log[j], Between(RankOf(log[i].bank), i, j))
    BY <1>1, <2>2, <2>3 DEF WindowInv, RankSpaced
  <2> QED
    BY <2>3 DEF ActivateSpacing, Acts, Between, Apart
<1> QED
  BY <1>1, WindowInit, WindowStep, PTL DEF Spec

-----------------------------------------------------------------------------
(***************************************************************************)
(* Refresh and the command bus.                                            *)
(***************************************************************************)
(* A command pushed into a refresh window from outside it found every slot from
   before the window taken. *)
LEMMA PushedFromBefore ==
  ASSUME NEW slots \in SUBSET Nat, Bounded(slots), NEW c, FromClear(slots, c), InRefresh(c),
         NEW t \in c - (c % Cyc("tREFI")) - 1 .. c - 1
  PROVE  c \in Nat /\ t \in Nat /\ ~ Free(slots, t)
<1> DEFINE T     == Cyc("tREFI")
           into  == c % T
           start == c - into
<1>1. PICK at \in Nat : ~ InRefresh(at) /\ at <= c /\ c = ReserveSlot(slots, at)
  BY DEF FromClear
<1>2. T \in Nat \ {0} /\ Cyc("tRFC") \in Nat
  BY RefreshPeriod, RefreshAssumption, CycNat DEF Durations
<1>3. c \in Nat
  BY <1>1, ReserveSlotFree
<1>4. c >= T /\ into < Cyc("tRFC")
  BY DEF InRefresh
<1> DEFINE n == c \div T
<1>5. n \in Nat /\ into = c - T * n /\ into \in 0 .. T - 1
  <2>1. into = c - T * n
    BY <1>2, <1>3, Z3
  <2> QED
    BY <1>2, <1>3, <2>1
<1>6. start = n * T /\ start \in Nat /\ T * n = n * T
  <2>1. T * n = n * T /\ n * T \in Nat
    BY <1>2, <1>5
  <2> HIDE DEF n, into
  <2> QED
    BY <1>3, <1>5, <2>1
<1>7. start >= T
  <2>1. n # 0
    <3> SUFFICES ASSUME n = 0 PROVE FALSE
      OBVIOUS
    <3>1. n * T = 0
      BY <1>2
    <3> HIDE DEF n, into
    <3> QED
      BY <1>2, <1>3, <1>4, <1>5, <1>6, <3>1
  <2>2. n - 1 \in Nat /\ n * T = (n - 1) * T + T /\ (n - 1) * T \in Nat
    <3> HIDE DEF n
    <3> QED
      BY <1>2, <1>5, <2>1
  <2> HIDE DEF n, into
  <2> QED
    BY <1>2, <1>6, <2>2
<1> HIDE DEF into, n, T
<1>8. at < start
  <2> SUFFICES ASSUME at >= start PROVE FALSE
    BY <1>6
  <2>1. at < start + T /\ at - start < Cyc("tRFC") /\ at >= T
    BY <1>1, <1>2, <1>3, <1>4, <1>5, <1>6, <1>7
  <2>2. n * T <= at /\ at < n * T + T
    BY <1>6, <2>1
  <2>3. at % T = at - n * T
    BY <1>2, <1>5, <2>2, WholePeriods
  <2> QED
    BY <1>1, <1>6, <2>1, <2>3 DEF InRefresh, T
<1>9. t \in Nat /\ at <= t /\ t < c
  <2>1. t \in start - 1 .. c - 1
    BY DEF into, T
  <2> QED
    BY <1>1, <1>3, <1>6, <1>8, <2>1
<1> QED
  BY <1>1, <1>3, <1>9, ReserveSlotFirst

(* Every reserved slot is a command of some drain. *)
SlotsLogged == \A s \in cmd_bus_slots : \E k \in DOMAIN log : \E b \in Issued(log[k]) : b[2] = s

YieldInv == PlaceInv /\ SlotsLogged /\ RefreshYieldsOnlyToContention

(* Command a of drain e got the first slot free of these from a cycle clear of
   refresh, and every one of them is a command's. *)
PlacedIn(slots, a, e) ==
  /\ Bounded(slots) /\ FromClear(slots, a[2]) /\ Free(slots, a[2])
  /\ \A s \in slots : s \in cmd_bus_slots \/ \E b \in Issued(e) : b[2] = s

LEMMA PlacedAmong ==
  ASSUME PlaceInv, NEW p \in pending, NEW t, t = Placement(p), t.ops.status # "Hit",
         NEW a \in Issued(Entry(p, t))
  PROVE  \E slots \in SUBSET Nat : PlacedIn(slots, a, Entry(p, t))
<1> DEFINE first  == With(cmd_bus_slots, t.ops.pre)
           second == t.ops.slots
<1>1. TypeOK /\ SlotsBounded /\ CursorsAtBoundaries /\ BanksClear /\ KnownInv
  BY DEF PlaceInv, KnownInv, IInv
<1>2. DrainMoved(p, t)
  BY <1>1, DrainMoves
<1>3. /\ RowOpsMoved(p, t.bank, t.ops) /\ FromClear(second, t.col)
  BY <1>2 DEF DrainMoved
<1>4. RowOpsReserved(p, t.ops) /\ Free(second, t.col)
  BY <1>1, DrainReserves
<1>5. t.ops.act \in Nat /\ t.ops.pre \in Nat \cup {NoCycle} /\ t.ops.act # NoCycle
  BY <1>3 DEF RowOpsMoved, NoCycle
<1>6. cmd_bus_slots \in SUBSET Nat /\ Bounded(cmd_bus_slots)
  BY <1>1 DEF TypeOK, Cycle, SlotsBounded
<1>7. first \in SUBSET Nat /\ Bounded(first)
  BY <1>5, <1>6, BoundedAdd DEF With
<1>8. second \in SUBSET Nat /\ Bounded(second) /\ second = first \cup {t.ops.act}
  <2>1. second = first \cup {t.ops.act}
    BY <1>4, <1>5 DEF RowOpsReserved, With
  <2> QED
    BY <1>5, <1>7, <2>1, BoundedAdd
<1>9. /\ t.ops.pre # NoCycle => <<"PRE", t.ops.pre>> \in Issued(Entry(p, t))
      /\ <<"ACT", t.ops.act>> \in Issued(Entry(p, t))
  BY <1>5 DEF Issued, Entry
<1>10. \A s \in first : s \in cmd_bus_slots \/ \E b \in Issued(Entry(p, t)) : b[2] = s
  BY <1>9 DEF With
<1>11. \A s \in second : s \in cmd_bus_slots \/ \E b \in Issued(Entry(p, t)) : b[2] = s
  BY <1>8, <1>9, <1>10
<1>12. a[2] # NoCycle /\ a[2] \in {t.ops.pre, t.ops.act, t.col}
  BY IssuedByDrain
<1>13. CASE a[2] = t.col
  BY <1>3, <1>4, <1>8, <1>11, <1>13 DEF PlacedIn
<1>14. CASE a[2] = t.ops.act
  <2>1. FromClear(first, t.ops.act)
    <3>1. CASE t.bank.open_row = NoRow
      <4>1. first = cmd_bus_slots
        BY <1>3, <3>1 DEF RowOpsMoved, With
      <4> QED
        BY <1>3, <3>1, <4>1 DEF RowOpsMoved
    <3>2. CASE t.bank.open_row # NoRow
      <4>1. t.ops.pre # NoCycle
        BY <1>3, <3>2 DEF RowOpsMoved, NoCycle
      <4>2. first = cmd_bus_slots \cup {t.ops.pre}
        BY <4>1 DEF With
      <4> QED
        BY <1>3, <3>2, <4>2 DEF RowOpsMoved
    <3> QED
      BY <3>1, <3>2
  <2>2. Free(first, t.ops.act)
    BY <1>4, <1>5 DEF RowOpsReserved, SlotFor
  <2> QED
    BY <1>7, <1>10, <1>14, <2>1, <2>2 DEF PlacedIn
<1>15. CASE a[2] = t.ops.pre
  <2>1. FromClear(cmd_bus_slots, t.ops.pre)
    BY <1>3, <1>12, <1>15 DEF RowOpsMoved
  <2>2. Free(cmd_bus_slots, t.ops.pre)
    BY <1>4, <1>12, <1>15 DEF RowOpsReserved, SlotFor
  <2> QED
    BY <1>6, <1>15, <2>1, <2>2 DEF PlacedIn
<1> QED
  BY <1>12, <1>13, <1>14, <1>15

LEMMA YieldDrain ==
  ASSUME YieldInv, DrainOne
  PROVE  SlotsLogged' /\ RefreshYieldsOnlyToContention'
<1> DEFINE p == Pick
           t == Placement(p)
           e == Entry(p, t)
<1>1. PlaceInv /\ KnownInv /\ TypeOK /\ SlotsBounded /\ SlotsLogged /\ RefreshYieldsOnlyToContention
  BY DEF YieldInv, PlaceInv, KnownInv, IInv
<1>2. Drained(p, t)
  BY <1>1, DrainDrains
<1> HIDE DEF p, t
<1>3. PICK new : new = Len(log) + 1
  OBVIOUS
<1>4. /\ new \in Nat /\ new - 1 = Len(log) /\ DOMAIN log = 1 .. new - 1 /\ DOMAIN log' = 1 .. new
      /\ \A i \in 1 .. new - 1 : log'[i] = log[i]
      /\ log'[new] = e
  BY <1>2, <1>3 DEF Drained, Logs, p, t
<1>5. p \in pending /\ t = Placement(p)
  BY <1>2 DEF Drained
<1>6. \A k \in DOMAIN log : k \in DOMAIN log' /\ log'[k] = log[k] /\ new \in DOMAIN log'
  BY <1>4
<1>7. \A s \in cmd_bus_slots : \E k \in 1 .. new - 1 : \E b \in Issued(log'[k]) : b[2] = s
  BY <1>1, <1>4, <1>6 DEF SlotsLogged
<1>8. SlotsLogged'
  <2>1. cmd_bus_slots' \subseteq t.ops.slots \cup {t.col}
    BY <1>2 DEF Drained, Drain, Prune
  <2>2. RowOpsReserved(p, t.ops) /\ t.col \in Nat
    BY <1>1, <1>2, <1>5, DrainReserves DEF Drained, Placed
  <2>3. \A s \in cmd_bus_slots' : s \in cmd_bus_slots \/ \E b \in Issued(e) : b[2] = s
    <3>1. t.ops.pre # NoCycle => <<"PRE", t.ops.pre>> \in Issued(e)
      BY DEF Issued, Entry
    <3>2. t.ops.act # NoCycle => <<"ACT", t.ops.act>> \in Issued(e)
      BY DEF Issued, Entry
    <3>3. <<"COL", t.col>> \in Issued(e)
      BY <2>2 DEF Issued, Entry, NoCycle
    <3> QED
      BY <2>1, <2>2, <3>1, <3>2, <3>3 DEF RowOpsReserved, With
  <2> HIDE DEF e
  <2>4. ASSUME NEW s \in cmd_bus_slots' PROVE \E k \in DOMAIN log' : \E b \in Issued(log'[k]) : b[2] = s
    <3>1. CASE s \in cmd_bus_slots
      BY <1>1, <1>6, <3>1 DEF SlotsLogged
    <3>2. CASE \E b \in Issued(e) : b[2] = s
      <4>1. new \in DOMAIN log'
        BY <1>4
      <4> QED
        BY <1>4, <3>2, <4>1
    <3> QED
      BY <2>3, <3>1, <3>2
  <2> QED
    BY <2>4 DEF SlotsLogged, Issued
<1>9. ASSUME NEW i \in 1 .. new, NEW a \in Issued(log'[i]), InRefresh(a[2]), log'[i].status # "Hit",
             NEW u \in a[2] - (a[2] % Cyc("tREFI")) - 1 .. a[2] - 1
      PROVE  ~ Free({b[2] : b \in (UNION {Issued(log'[k]) : k \in 1 .. i}) \ {a}}, u)
  <2> DEFINE others == {b[2] : b \in (UNION {Issued(log'[k]) : k \in 1 .. i}) \ {a}}
  <2>1. CASE i \in 1 .. new - 1
    <3>1. log'[i] = log[i] /\ \A k \in 1 .. i : log'[k] = log[k]
      BY <1>4, <2>1
    <3>2. others = {b[2] : b \in (UNION {Issued(log[k]) : k \in 1 .. i}) \ {a}}
      BY <3>1
    <3> HIDE DEF others
    <3>3. i \in DOMAIN log /\ a \in Issued(log[i]) /\ log[i].status # "Hit"
      BY <1>4, <1>9, <2>1, <3>1
    <3> QED
      BY <1>1, <1>9, <3>2, <3>3 DEF RefreshYieldsOnlyToContention, others
  <2>2. CASE i = new
    <3>1. a \in Issued(e) /\ t.ops.status # "Hit"
      BY <1>4, <1>9, <2>2 DEF Entry
    <3>a. PICK slots \in SUBSET Nat : PlacedIn(slots, a, e)
      BY <1>1, <1>5, <3>1, PlacedAmong
    <3>2. /\ Bounded(slots) /\ FromClear(slots, a[2]) /\ Free(slots, a[2])
          /\ \A s \in slots : s \in cmd_bus_slots \/ \E b \in Issued(e) : b[2] = s
      BY <3>a DEF PlacedIn
    <3>3. a[2] \in Nat /\ u \in Nat /\ ~ Free(slots, u)
      BY <1>9, <3>2, PushedFromBefore
    <3>4. PICK s \in slots : Overlap(s, u)
      BY <3>3 DEF Free
    <3>5. s # a[2]
      <4>1. Overlap(a[2], a[2])
        BY <3>3, SlotAssumption DEF Overlap
      <4> QED
        BY <3>2, <4>1 DEF Free
    <3> HIDE DEF e
    <3>6. \E k \in 1 .. new : \E b \in Issued(log'[k]) : b[2] = s
      <4>1. new \in 1 .. new /\ \A k \in 1 .. new - 1 : k \in 1 .. new
        BY <1>4
      <4> QED
        BY <1>4, <1>7, <3>2, <3>4, <4>1
    <3>7. s \in others
      BY <2>2, <3>5, <3>6
    <3> HIDE DEF others
    <3> QED
      BY <3>4, <3>7 DEF Free, others
  <2> QED
    BY <1>4, <2>1, <2>2
<1>10. RefreshYieldsOnlyToContention'
  BY <1>4, <1>9 DEF RefreshYieldsOnlyToContention
<1> QED
  BY <1>8, <1>10

LEMMA YieldStep == YieldInv /\ [Next]_vars => YieldInv'
<1> SUFFICES ASSUME YieldInv, [Next]_vars PROVE YieldInv'
  OBVIOUS
<1>1. PlaceInv'
  BY PlaceStep DEF YieldInv
<1>2. CASE DrainOne
  BY <1>1, <1>2, YieldDrain DEF YieldInv
<1>3. ASSUME UNCHANGED <<log, cmd_bus_slots>> PROVE YieldInv'
  <2>1. SlotsLogged'
    BY <1>3 DEF YieldInv, SlotsLogged
  <2>2. RefreshYieldsOnlyToContention'
    BY <1>3 DEF YieldInv, RefreshYieldsOnlyToContention
  <2> QED
    BY <1>1, <2>1, <2>2 DEF YieldInv
<1>4. ASSUME NEW cmd \in Requests, NEW ready \in Arrivals, Submit(cmd, ready) PROVE YieldInv'
  BY <1>3, <1>4 DEF Submit, TryAdmit, busVars
<1>5. CASE UNCHANGED vars
  BY <1>3, <1>5 DEF vars, busVars
<1> QED
  BY <1>2, <1>4, <1>5 DEF Next

LEMMA YieldInit == Init => YieldInv
<1> SUFFICES ASSUME Init PROVE YieldInv
  OBVIOUS
<1>1. DOMAIN log = {} /\ cmd_bus_slots = {}
  BY DEF Init
<1>2. SlotsLogged /\ RefreshYieldsOnlyToContention
  BY <1>1 DEF SlotsLogged, RefreshYieldsOnlyToContention
<1> QED
  BY <1>2, BankInit DEF YieldInv, BankInv

(* A PRE, an ACT or a miss's column command inside a refresh window was pushed
   there by the command bus, busy from before the window on: each place in the
   code that moves a command past a refresh is enough for the next. *)
THEOREM RefreshYieldsToTheBus == Spec => []RefreshYieldsOnlyToContention
<1>1. YieldInv => RefreshYieldsOnlyToContention
  BY DEF YieldInv
<1> QED
  BY <1>1, YieldInit, YieldStep, PTL DEF Spec

-----------------------------------------------------------------------------
(***************************************************************************)
(* What the caller sees of the scheduler.                                  *)
(***************************************************************************)
(* What tells a waiting command from the others, and what it waits for. *)
Waits(q) == [seq |-> q.seq, ready |-> q.ready, bytes |-> q.bytes, visible |-> q.visible]

(* The command given back, p, is complete after every burst before it and after
   it was ready; the others wait as they did. *)
GivesBack(p, complete, e) ==
  /\ p \in pending /\ p = Pick
  /\ complete = Placement(p).complete
  /\ complete \in Nat /\ complete > bus_free_cycle /\ complete > p.ready
  /\ {Waits(q) : q \in pending'} = {Waits(o) : o \in pending \ {p}}
  /\ bus_free_cycle' = complete
  /\ log' = Append(log, e) /\ e \in LogEntry
  /\ <<e.seq, e.complete, e.ready, e.visible>> = <<p.seq, complete, p.ready, p.visible>>
  /\ next_seq' = next_seq /\ last_admitted_ready_cycle' = last_admitted_ready_cycle
  /\ stats'.busy_cycles = stats.busy_cycles + TransferCycles(p)

LEMMA DrainGivesBack ==
  ASSUME OrderInv, DrainOne
  PROVE  \E p, complete, e : GivesBack(p, complete, e)
<1>1. PICK p : p = Pick
  OBVIOUS
<1>2. PICK t : t = Placement(p)
  OBVIOUS
<1>3. PICK e : e = Entry(p, t)
  OBVIOUS
<1>4. /\ TypeOK /\ SlotsBounded /\ BusStartsAtZero /\ LogTyped /\ IInv
      /\ p \in pending /\ Drain(p, t)
  BY <1>1, <1>2, PickPending DEF OrderInv, IInv, DrainOne
<1>5. /\ t \in Placed /\ t.col >= t.wanted /\ t.wanted >= Synced(p).at
      /\ t.complete = t.col + CasCycles(p.type) + TransferCycles(p)
  BY <1>2, <1>4, PlacementType
<1>6. /\ t.col \in Nat /\ t.wanted \in Nat /\ t.complete \in Nat
      /\ p.ready \in Nat /\ bus_free_cycle \in Nat
  BY <1>4, <1>5 DEF Placed, TypeOK, PendingCmd, Cycle
<1>7. /\ Synced(p).at \in Nat /\ Synced(p).at >= ColumnFloor(p) /\ ColumnFloor(p) \in Nat
      /\ CasCycles(p.type) \in Nat /\ TransferCycles(p) \in Nat \ {0}
      /\ bus_used => ColumnFloor(p) + CasCycles(p.type) >= bus_free_cycle
  BY <1>4, SyncedType, FloorsNat, TransferPositive DEF RefreshProgress
<1>8. t.col >= p.ready
  <2>1. Placement(p).col >= p.ready
    BY <1>4, ColumnAfterFloors
  <2> QED
    BY <1>2, <2>1
<1>9. t.complete > bus_free_cycle /\ t.complete > p.ready
  BY <1>4, <1>5, <1>6, <1>7, <1>8 DEF BusStartsAtZero
<1>10. pending' = {[o EXCEPT !.skip_count = o.skip_count + 1] : o \in pending \ {p}}
  BY <1>4 DEF Drain, Aged
<1>11. ASSUME NEW o \in pending \ {p}
       PROVE  Waits([o EXCEPT !.skip_count = o.skip_count + 1]) = Waits(o)
  <2>1. o \in PendingCmd
    BY <1>4 DEF TypeOK
  <2> QED
    BY <2>1 DEF PendingCmd, Waits
<1>12. {Waits(q) : q \in pending'} = {Waits(o) : o \in pending \ {p}}
  <2>1. ASSUME NEW q \in pending'
        PROVE  \E o \in pending \ {p} : q = [o EXCEPT !.skip_count = o.skip_count + 1]
    BY <1>10
  <2>2. ASSUME NEW o \in pending \ {p}
        PROVE  [o EXCEPT !.skip_count = o.skip_count + 1] \in pending'
    BY <1>10
  <2>3. ASSUME NEW w \in {Waits(q) : q \in pending'} PROVE w \in {Waits(o) : o \in pending \ {p}}
    <3>1. PICK q \in pending' : w = Waits(q)
      OBVIOUS
    <3>2. PICK o \in pending \ {p} : q = [o EXCEPT !.skip_count = o.skip_count + 1]
      BY <2>1
    <3>3. w = Waits(o)
      BY <1>11, <3>1, <3>2, Zenon
    <3> QED
      BY <3>3
  <2>4. ASSUME NEW w \in {Waits(o) : o \in pending \ {p}} PROVE w \in {Waits(q) : q \in pending'}
    <3>1. PICK o \in pending \ {p} : w = Waits(o)
      OBVIOUS
    <3>2. w = Waits([o EXCEPT !.skip_count = o.skip_count + 1])
      BY <1>11, <3>1, Zenon
    <3> QED
      BY <2>2, <3>2, Zenon
  <2> QED
    BY <2>3, <2>4
<1>13. e \in LogEntry
  BY <1>2, <1>3, <1>4, EntryTyped
<1>14. <<e.seq, e.complete, e.ready, e.visible>> = <<p.seq, t.complete, p.ready, p.visible>>
  BY <1>3 DEF Entry
<1>15. stats'.busy_cycles = stats.busy_cycles + TransferCycles(p)
  BY <1>4 DEF Drain, Counted
<1>16. /\ bus_free_cycle' = t.complete /\ log' = Append(log, e)
       /\ next_seq' = next_seq /\ last_admitted_ready_cycle' = last_admitted_ready_cycle
  BY <1>3, <1>4 DEF Drain
<1>17. GivesBack(p, t.complete, e)
  BY <1>1, <1>2, <1>4, <1>6, <1>9, <1>12, <1>13, <1>14, <1>15, <1>16 DEF GivesBack
<1> QED
  BY <1>17
=============================================================================
