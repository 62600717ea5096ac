---------------------------- MODULE SystemProofs ----------------------------
(***************************************************************************)
(* The engine over the real scheduler implements Engine, and keeps the     *)
(* barriers at the DRAM.  Front is Engine with what was proved of it, its  *)
(* channels read off the scheduler; Sched is the scheduler with what was   *)
(* proved of it, its caller the engine.  Each invariant holds by itself;   *)
(* what is new here is that a step of the composition is a step of both.   *)
(***************************************************************************)
EXTENDS SystemProperties, FiniteSetTheorems, SequenceTheorems, TLAPS

Front ==
  INSTANCE LoopProofs
    WITH channels   <- [ch \in Channels |-> AbstractChannel],
         QueueDepth <- Cfg.command_queue_depth,
         Delays     <- LAMBDA ch : Nat \ {0},
         ChannelOf  <- LAMBDA window : 0

Sched ==
  INSTANCE ChannelProofs
    WITH Requests <- Channel!Command, Arrivals <- Nat, InOrderArrivals <- FALSE, Admissions <- Nat

-----------------------------------------------------------------------------
(***************************************************************************)
(* The operators of the front end that System takes as they are, and those *)
(* of Front, are the same: neither depends on what Front's channels are.   *)
(***************************************************************************)
LEMMA SameRoute ==
  ASSUME NEW chunk, NEW complete
  PROVE  Front!Route(chunk, complete) = Route(chunk, complete)
BY Zenon DEF
  Front!AxiOf, Front!BurstBytes, Front!Cardinality, Front!Completion, Front!CoreOf, Front!Event,
  Front!ExistsBijection, Front!Finalize, Front!GateAfter, Front!GateOf, Front!IdGate,
  Front!InSegment, Front!IssueCycle, Front!Later, Front!Min, Front!More, Front!NeedsEvent,
  Front!Opens, Front!Progressed, Front!ResultOf, Front!Route, Front!SegmentOf, Front!TotalBytes,
  AxiOf, BurstBytes, Cardinality, Completion, CoreOf, Event, ExistsBijection, Finalize,
  GateAfter, GateOf, IdGate, InSegment, IssueCycle, Later, Min, More, NeedsEvent, Opens,
  Progressed, ResultOf, Route, SegmentOf, TotalBytes

LEMMA SameStatistic ==
  ASSUME NEW channel
  PROVE  Front!Statistic(channel) = Statistic(channel)
BY Zenon DEF
  Front!AllLatencies, Front!Cardinality, Front!Delivered, Front!ExistsBijection,
  Front!FoldFunction, Front!FoldFunctionOnSet, Front!Imbalance, Front!KeyAtRank, Front!Latency,
  Front!LatencyBucket, Front!LatencyPercentile2, Front!Later, Front!Lesser,
  Front!MapThenFoldSet, Front!Max, Front!Min, Front!NoWindow, Front!Offered, Front!Percentiles,
  Front!RanLonger, Front!Rank, Front!Recorded, Front!Statistic, Front!SumOf, Front!Summary,
  Front!Totalled, Front!Trailing, Front!UpperEdge2, AllLatencies, Cardinality, Delivered,
  ExistsBijection, FoldFunction, FoldFunctionOnSet, Imbalance, KeyAtRank, Latency,
  LatencyBucket, LatencyPercentile2, Later, Lesser, MapThenFoldSet, Max, Min, NoWindow, Offered,
  Percentiles, RanLonger, Rank, Recorded, Statistic, SumOf, Summary, Totalled, Trailing,
  UpperEdge2

LEMMA SameCall ==
  Front!Call = Call
BY Zenon DEF
  Front!BeginRun, Front!Bijection, Front!BurstBytes, Front!Call, Front!Cardinality,
  Front!CoreOf, Front!Counted, Front!Event, Front!ExistsBijection, Front!IdGate,
  Front!InSegment, Front!Injection, Front!IsInjective, Front!IssueCycle, Front!Kept,
  Front!Later, Front!Min, Front!NeedsEvent, Front!NewCursor, Front!NewSegment, Front!NoProgress,
  Front!PruneResultsBefore, Front!PushBarrier, Front!PushTxn, Front!SegmentAfter,
  Front!SegmentOf, Front!Surjection, BeginRun, Bijection, BurstBytes, Call, Cardinality, CoreOf,
  Counted, Event, ExistsBijection, IdGate, InSegment, Injection, IsInjective, IssueCycle, Kept,
  Later, Min, NeedsEvent, NewCursor, NewSegment, NoProgress, PruneResultsBefore, PushBarrier,
  PushTxn, SegmentAfter, SegmentOf, Surjection

LEMMA SameReschedule ==
  Front!Reschedule = Reschedule
BY Zenon DEF
  Front!AtTop, Front!Cardinality, Front!CoreOf, Front!ExistsBijection, Front!GateOf,
  Front!IdGate, Front!IssueCycle, Front!Later, Front!Min, Front!NoTurn, Front!Precedes,
  Front!RefreshedEvent, Front!Reschedule, Front!SegmentOf, Front!StreamPrecedes, Front!Top,
  AtTop, Cardinality, CoreOf, ExistsBijection, GateOf, IdGate, IssueCycle, Later, Min, NoTurn,
  Precedes, RefreshedEvent, Reschedule, SegmentOf, StreamPrecedes, Top

LEMMA SameIssue ==
  Front!Issue = Issue
BY Zenon DEF
  Front!AtTop, Front!BurstBytes, Front!Cardinality, Front!CoreOf, Front!ExistsBijection,
  Front!FirstWindow, Front!GateOf, Front!IdGate, Front!Issue, Front!IssueCycle, Front!Later,
  Front!Min, Front!NoTurn, Front!NumChunks, Front!OutstandingWait, Front!PortFreeAfter,
  Front!Precedes, Front!SegmentOf, Front!Started, Front!StillOutstanding, Front!StreamPrecedes,
  Front!Top, Front!TotalBytes, AtTop, BurstBytes, Cardinality, CoreOf, ExistsBijection,
  FirstWindow, GateOf, IdGate, Issue, IssueCycle, Later, Min, NoTurn, NumChunks,
  OutstandingWait, PortFreeAfter, Precedes, SegmentOf, Started, StillOutstanding,
  StreamPrecedes, Top, TotalBytes

LEMMA SameResume ==
  Front!Resume = Resume
BY Zenon DEF
  Front!AtTop, Front!NoTurn, Front!Precedes, Front!Resume, Front!StreamPrecedes, Front!Top,
  AtTop, NoTurn, Precedes, Resume, StreamPrecedes, Top

LEMMA SameAdmitTurn ==
  Front!AdmitTurn = AdmitTurn
BY Zenon DEF
  Front!AdmitTurn, Front!Event, Front!NoTurn, AdmitTurn, Event, NoTurn

LEMMA SameReturnFromRun ==
  Front!ReturnFromRun = ReturnFromRun
BY Zenon DEF
  Front!NoTurn, Front!ReturnFromRun, NoTurn, ReturnFromRun

LEMMA SameFrontInit ==
  Front!FrontInit = FrontInit
BY Zenon DEF
  Front!FrontInit, Front!NewCursor, Front!NoLatencies, Front!NoProgress, Front!NoRuntime,
  Front!NoSummary, Front!NoTurn, Front!Percentiles, FrontInit, NewCursor, NoLatencies,
  NoProgress, NoRuntime, NoSummary, NoTurn, Percentiles

LEMMA SameChunkOf ==
  ASSUME NEW ev
  PROVE  Front!ChunkOf(ev) = ChunkOf(ev)
BY Zenon DEF
  Front!ChunkOf, ChunkOf

-----------------------------------------------------------------------------
(***************************************************************************)
(* The scheduler's operators are the same in Sched and in System's own     *)
(* instance Channel: neither depends on what its caller may submit.        *)
(***************************************************************************)
LEMMA SameChannelLater ==
  ASSUME NEW a, NEW b
  PROVE  Sched!Later(a, b) = Channel!Later(a, b)
BY Zenon
DEF Sched!Later, Channel!Later

LEMMA SameChannelMonus ==
  ASSUME NEW a, NEW b
  PROVE  Sched!Monus(a, b) = Channel!Monus(a, b)
BY Zenon
DEF Sched!Monus, Channel!Monus

LEMMA SameChannelToCycles ==
  ASSUME NEW d
  PROVE  Sched!ToCycles(d) = Channel!ToCycles(d)
BY Zenon
DEF Sched!ToCycles, Channel!ToCycles

LEMMA SameChannelCyc ==
  ASSUME NEW f
  PROVE  Sched!Cyc(f) = Channel!Cyc(f)
BY SameChannelToCycles, Zenon
DEF Sched!Cyc, Channel!Cyc

LEMMA SameChannelRankOf ==
  ASSUME NEW b
  PROVE  Sched!RankOf(b) = Channel!RankOf(b)
BY Zenon
DEF Sched!RankOf, Channel!RankOf

LEMMA SameChannelGroupOf ==
  ASSUME NEW b
  PROVE  Sched!GroupOf(b) = Channel!GroupOf(b)
BY Zenon
DEF Sched!GroupOf, Channel!GroupOf

LEMMA SameChannelSameGroup ==
  ASSUME NEW p, NEW g
  PROVE  Sched!SameGroup(p, g) = Channel!SameGroup(p, g)
BY SameChannelGroupOf, Zenon
DEF Sched!SameGroup, Channel!SameGroup

LEMMA SameChannelCasCycles ==
  ASSUME NEW type
  PROVE  Sched!CasCycles(type) = Channel!CasCycles(type)
BY SameChannelCyc, Zenon
DEF Sched!CasCycles, Channel!CasCycles

LEMMA SameChannelTransferCycles ==
  ASSUME NEW p
  PROVE  Sched!TransferCycles(p) = Channel!TransferCycles(p)
BY SameChannelLater, Zenon
DEF Sched!TransferCycles, Channel!TransferCycles

LEMMA SameChannelArrived ==
  Sched!Arrived = Channel!Arrived
BY Zenon
DEF Sched!Arrived, Sched!Cyc, Sched!DecisionCycle, Sched!Later, Sched!Min, Sched!ToCycles,
    Channel!Arrived, Channel!Cyc, Channel!DecisionCycle, Channel!Later, Channel!Min,
    Channel!ToCycles

LEMMA SameChannelDrainsWrites ==
  Sched!DrainsWrites = Channel!DrainsWrites
BY SameChannelArrived, Zenon
DEF Sched!Cardinality, Sched!DrainHigh, Sched!DrainsWrites, Sched!ExistsBijection, Sched!Later,
    Channel!Cardinality, Channel!DrainHigh, Channel!DrainsWrites, Channel!ExistsBijection,
    Channel!Later

LEMMA SameChannelEligible ==
  Sched!Eligible = Channel!Eligible
BY SameChannelDrainsWrites, SameChannelArrived, Zenon
DEF Sched!Eligible, Channel!Eligible

LEMMA SameChannelStarved ==
  Sched!Starved = Channel!Starved
BY SameChannelArrived, ZenonT(60)
DEF Sched!Starved, Channel!Starved

LEMMA SameChannelPick ==
  Sched!Pick = Channel!Pick
BY ZenonT(60)
DEF Sched!Arrived, Sched!Cardinality, Sched!Contenders, Sched!Cyc, Sched!DecisionCycle,
    Sched!DrainHigh, Sched!DrainsWrites, Sched!Eligible, Sched!ExistsBijection, Sched!Later,
    Sched!Min, Sched!MustYield, Sched!NoRow, Sched!Pick, Sched!Priority, Sched!Starved,
    Sched!StreakAtLimit, Sched!ToCycles, Channel!Arrived, Channel!Cardinality,
    Channel!Contenders, Channel!Cyc, Channel!DecisionCycle, Channel!DrainHigh,
    Channel!DrainsWrites, Channel!Eligible, Channel!ExistsBijection, Channel!Later, Channel!Min,
    Channel!MustYield, Channel!NoRow, Channel!Pick, Channel!Priority, Channel!Starved,
    Channel!StreakAtLimit, Channel!ToCycles

LEMMA SameChannelTryAdmit ==
  ASSUME NEW cmd, NEW ready
  PROVE  Sched!TryAdmit(cmd, ready) = Channel!TryAdmit(cmd, ready)
BY Zenon
DEF Sched!Cardinality, Sched!ExistsBijection, Sched!Later, Sched!TryAdmit, Sched!busVars,
    Sched!policyVars, Channel!Cardinality, Channel!ExistsBijection, Channel!Later,
    Channel!TryAdmit, Channel!busVars, Channel!policyVars

LEMMA SameChannelInit ==
  Sched!Init = Channel!Init
BY Zenon
DEF Sched!Bank, Sched!Causes, Sched!ClosedBank, Sched!Cyc, Sched!Init, Sched!NoBank,
    Sched!NoRow, Sched!ToCycles, Channel!Bank, Channel!Causes, Channel!ClosedBank, Channel!Cyc,
    Channel!Init, Channel!NoBank, Channel!NoRow, Channel!ToCycles

LEMMA SameChannelPriority ==
  ASSUME NEW p
  PROVE  Sched!Priority(p) = Channel!Priority(p)
BY Zenon
DEF Sched!NoRow, Sched!Priority, Channel!NoRow, Channel!Priority

LEMMA SameChannelTurnFloor ==
  ASSUME NEW p
  PROVE  Sched!TurnFloor(p) = Channel!TurnFloor(p)
BY SameChannelCyc, SameChannelMonus, SameChannelCasCycles, Zenon
DEF Sched!TurnFloor, Channel!TurnFloor

LEMMA SameChannelTwtrFloor ==
  ASSUME NEW p
  PROVE  Sched!TwtrFloor(p) = Channel!TwtrFloor(p)
BY SameChannelCyc, SameChannelSameGroup, Zenon
DEF Sched!TwtrFloor, Channel!TwtrFloor

LEMMA SameChannelTccdFloor ==
  ASSUME NEW p
  PROVE  Sched!TccdFloor(p) = Channel!TccdFloor(p)
BY SameChannelCyc, SameChannelSameGroup, Zenon
DEF Sched!TccdFloor, Channel!TccdFloor

LEMMA SameChannelBusFloor ==
  ASSUME NEW p
  PROVE  Sched!BusFloor(p) = Channel!BusFloor(p)
BY SameChannelMonus, SameChannelCasCycles, Zenon
DEF Sched!BusFloor, Channel!BusFloor

LEMMA SameChannelBusReady ==
  ASSUME NEW p
  PROVE  Sched!BusReady(p) = Channel!BusReady(p)
BY SameChannelBusFloor, SameChannelTccdFloor, SameChannelLater, Zenon
DEF Sched!BusReady, Channel!BusReady

LEMMA SameChannelLastBoundary ==
  ASSUME NEW due, NEW cycle
  PROVE  Sched!LastBoundary(due, cycle) = Channel!LastBoundary(due, cycle)
BY SameChannelCyc, Zenon
DEF Sched!LastBoundary, Channel!LastBoundary

LEMMA SameChannelApplyRefresh ==
  ASSUME NEW r, NEW cycle
  PROVE  Sched!ApplyRefresh(r, cycle) = Channel!ApplyRefresh(r, cycle)
BY SameChannelLastBoundary, SameChannelCyc, SameChannelLater, SameChannelMonus, Zenon
DEF Sched!ApplyRefresh, Channel!ApplyRefresh

LEMMA SameChannelColumnFloor ==
  ASSUME NEW p
  PROVE  Sched!ColumnFloor(p) = Channel!ColumnFloor(p)
BY SameChannelBusReady, SameChannelTurnFloor, SameChannelTwtrFloor, SameChannelLater, Zenon
DEF Sched!ColumnFloor, Channel!ColumnFloor

LEMMA SameChannelSynced ==
  ASSUME NEW p
  PROVE  Sched!Synced(p) = Channel!Synced(p)
BY SameChannelApplyRefresh, SameChannelColumnFloor, SameChannelRankOf, Zenon
DEF Sched!Synced, Channel!Synced

LEMMA SameChannelCloseAt ==
  ASSUME NEW bank
  PROVE  Sched!CloseAt(bank) = Channel!CloseAt(bank)
BY SameChannelCyc, Zenon
DEF Sched!CloseAt, Channel!CloseAt

LEMMA SameChannelTimedOut ==
  ASSUME NEW p, NEW bank
  PROVE  Sched!TimedOut(p, bank) = Channel!TimedOut(p, bank)
BY SameChannelCloseAt, Zenon
DEF Sched!NoRow, Sched!TimedOut, Channel!NoRow, Channel!TimedOut

LEMMA SameChannelTimerPrecharge ==
  ASSUME NEW bank
  PROVE  Sched!TimerPrecharge(bank) = Channel!TimerPrecharge(bank)
BY SameChannelCloseAt, SameChannelLater, Zenon
DEF Sched!TimerPrecharge, Channel!TimerPrecharge

LEMMA SameChannelRefreshed ==
  ASSUME NEW bank, NEW end
  PROVE  Sched!Refreshed(bank, end) = Channel!Refreshed(bank, end)
BY SameChannelLater, Zenon
DEF Sched!NoRow, Sched!Refreshed, Channel!NoRow, Channel!Refreshed

LEMMA SameChannelFoundBank ==
  ASSUME NEW p
  PROVE  Sched!FoundBank(p) = Channel!FoundBank(p)
BY SameChannelSynced, SameChannelTimedOut, SameChannelTimerPrecharge, SameChannelRefreshed,
   SameChannelLater, SameChannelCyc, ZenonT(60)
DEF Sched!FoundBank, Sched!NoRow, Channel!FoundBank, Channel!NoRow

LEMMA SameChannelGated ==
  ASSUME NEW acts, NEW last, NEW group, NEW cycle
  PROVE  Sched!Gated(acts, last, group, cycle) = Channel!Gated(acts, last, group, cycle)
BY SameChannelCyc, SameChannelLater, Zenon
DEF Sched!Gated, Channel!Gated

LEMMA SameChannelStillInWindow ==
  ASSUME NEW acts, NEW cycle
  PROVE  Sched!StillInWindow(acts, cycle) = Channel!StillInWindow(acts, cycle)
BY Zenon
DEF Sched!Cyc, Sched!Min, Sched!StillInWindow, Sched!ToCycles, Channel!Cyc, Channel!Min,
    Channel!StillInWindow, Channel!ToCycles

LEMMA SameChannelReserveSlot ==
  ASSUME NEW slots, NEW desired
  PROVE  Sched!ReserveSlot(slots, desired) = Channel!ReserveSlot(slots, desired)
BY Zenon
DEF Sched!Free, Sched!Min, Sched!Overlap, Sched!ReserveSlot, Channel!Free, Channel!Min,
    Channel!Overlap, Channel!ReserveSlot

LEMMA SameChannelActivateFrom ==
  ASSUME NEW p, NEW r, NEW gated, NEW slots
  PROVE  Sched!ActivateFrom(p, r, gated, slots) = Channel!ActivateFrom(p, r, gated, slots)
BY SameChannelReserveSlot, SameChannelStillInWindow, SameChannelRankOf, Zenon
DEF Sched!ActivateFrom, Channel!ActivateFrom

LEMMA SameChannelPlaceActivate ==
  ASSUME NEW p, NEW r, NEW slots, NEW floor
  PROVE  Sched!PlaceActivate(p, r, slots, floor) = Channel!PlaceActivate(p, r, slots, floor)
BY SameChannelApplyRefresh, SameChannelGated, SameChannelGroupOf, SameChannelRankOf,
   SameChannelActivateFrom, Zenon
DEF Sched!PlaceActivate, Channel!PlaceActivate

LEMMA SameChannelMissOps ==
  ASSUME NEW status, NEW pre, NEW placed
  PROVE  Sched!MissOps(status, pre, placed) = Channel!MissOps(status, pre, placed)
BY SameChannelApplyRefresh, SameChannelCyc, Zenon
DEF Sched!MissOps, Channel!MissOps

LEMMA SameChannelFromVisible ==
  ASSUME NEW p, NEW cycle
  PROVE  Sched!FromVisible(p, cycle) = Channel!FromVisible(p, cycle)
BY SameChannelLater, Zenon
DEF Sched!FromVisible, Channel!FromVisible

LEMMA SameChannelRowOps ==
  ASSUME NEW p, NEW bank
  PROVE  Sched!RowOps(p, bank) = Channel!RowOps(p, bank)
BY SameChannelSynced, SameChannelApplyRefresh, SameChannelPlaceActivate, SameChannelMissOps,
   SameChannelFromVisible, SameChannelReserveSlot, SameChannelCyc, Zenon
DEF Sched!NoCycle, Sched!NoRow, Sched!RowOps, Channel!NoCycle, Channel!NoRow, Channel!RowOps

LEMMA SameChannelHitOps ==
  ASSUME NEW p, NEW bank
  PROVE  Sched!HitOps(p, bank) = Channel!HitOps(p, bank)
BY SameChannelSynced, SameChannelRankOf, Zenon
DEF Sched!HitOps, Sched!NoCycle, Channel!HitOps, Channel!NoCycle

LEMMA SameChannelPlacedWith ==
  ASSUME NEW p, NEW bank, NEW ops
  PROVE  Sched!PlacedWith(p, bank, ops) = Channel!PlacedWith(p, bank, ops)
BY SameChannelSynced, SameChannelLater, SameChannelReserveSlot, SameChannelCasCycles,
   SameChannelTransferCycles, Zenon
DEF Sched!PlacedWith, Channel!PlacedWith

LEMMA SameChannelPlacement ==
  ASSUME NEW p
  PROVE  Sched!Placement(p) = Channel!Placement(p)
BY SameChannelFoundBank, SameChannelHitOps, SameChannelRowOps, SameChannelPlacedWith, ZenonT(60)
DEF Sched!Placement, Channel!Placement

LEMMA SameChannelBindingCause ==
  ASSUME NEW p, NEW t
  PROVE  Sched!BindingCause(p, t) = Channel!BindingCause(p, t)
BY SameChannelSynced, SameChannelColumnFloor, SameChannelTwtrFloor, SameChannelTurnFloor,
   SameChannelTccdFloor, Zenon
DEF Sched!BindingCause, Channel!BindingCause

LEMMA SameChannelBubble ==
  ASSUME NEW p, NEW t
  PROVE  Sched!Bubble(p, t) = Channel!Bubble(p, t)
BY SameChannelMonus, SameChannelCasCycles, Zenon
DEF Sched!Bubble, Sched!PrevEnd, Channel!Bubble, Channel!PrevEnd

LEMMA SameChannelCharge ==
  ASSUME NEW p, NEW t
  PROVE  Sched!Charge(p, t) = Channel!Charge(p, t)
BY SameChannelBindingCause, SameChannelBubble, SameChannelSameGroup, SameChannelMonus,
   SameChannelCyc, ZenonT(60)
DEF Sched!Causes, Sched!Charge, Sched!Pushed, Channel!Causes, Channel!Charge, Channel!Pushed

LEMMA SameChannelCounted ==
  ASSUME NEW p, NEW t
  PROVE  Sched!Counted(p, t) = Channel!Counted(p, t)
BY SameChannelCharge, SameChannelSynced, SameChannelTurnFloor, SameChannelBusReady,
   SameChannelMonus, SameChannelTransferCycles, SameChannelSameGroup, SameChannelLater,
   ZenonT(60)
DEF Sched!Causes, Sched!Counted, Channel!Causes, Channel!Counted

LEMMA SameChannelRecovery ==
  ASSUME NEW type
  PROVE  Sched!Recovery(type) = Channel!Recovery(type)
BY SameChannelToCycles, Zenon
DEF Sched!Recovery, Channel!Recovery

LEMMA SameChannelPrechargeReady ==
  ASSUME NEW p, NEW t
  PROVE  Sched!PrechargeReady(p, t) = Channel!PrechargeReady(p, t)
BY SameChannelLater, SameChannelRecovery, SameChannelCyc, Zenon
DEF Sched!OpenedAt, Sched!PrechargeReady, Channel!OpenedAt, Channel!PrechargeReady

LEMMA SameChannelActReady ==
  ASSUME NEW p, NEW t
  PROVE  Sched!ActReady(p, t) = Channel!ActReady(p, t)
BY SameChannelRefreshed, SameChannelLater, SameChannelPrechargeReady, SameChannelCyc, Zenon
DEF Sched!ActReady, Channel!ActReady

LEMMA SameChannelUsedBank ==
  ASSUME NEW p, NEW t
  PROVE  Sched!UsedBank(p, t) = Channel!UsedBank(p, t)
BY SameChannelActReady, SameChannelPrechargeReady, SameChannelRefreshed, SameChannelLater,
   SameChannelTransferCycles, SameChannelRecovery, SameChannelCyc, Zenon
DEF Sched!NoRow, Sched!OpenedAt, Sched!UsedBank, Channel!NoRow, Channel!OpenedAt,
    Channel!UsedBank

LEMMA SameChannelBanksAfter ==
  ASSUME NEW p, NEW t
  PROVE  Sched!BanksAfter(p, t) = Channel!BanksAfter(p, t)
BY SameChannelUsedBank, ZenonT(60)
DEF Sched!Bank, Sched!BanksAfter, Sched!Later, Sched!NoRow, Sched!RankOf, Sched!Refreshed,
    Channel!Bank, Channel!BanksAfter, Channel!Later, Channel!NoRow, Channel!RankOf,
    Channel!Refreshed

LEMMA SameChannelRanksAfter ==
  ASSUME NEW p, NEW t
  PROVE  Sched!RanksAfter(p, t) = Channel!RanksAfter(p, t)
BY SameChannelRankOf, SameChannelGroupOf, Zenon
DEF Sched!RanksAfter, Channel!RanksAfter

LEMMA SameChannelBatchCount ==
  Sched!BatchCount = Channel!BatchCount
BY SameChannelDrainsWrites, Zenon
DEF Sched!BatchCount, Channel!BatchCount

LEMMA SameChannelEntry ==
  ASSUME NEW p, NEW t
  PROVE  Sched!Entry(p, t) = Channel!Entry(p, t)
BY SameChannelStarved, SameChannelEligible, SameChannelPriority, Zenon
DEF Sched!Arrived, Sched!Cardinality, Sched!Cyc, Sched!DecisionCycle, Sched!Entry,
    Sched!ExistsBijection, Sched!Later, Sched!Min, Sched!ToCycles, Channel!Arrived,
    Channel!Cardinality, Channel!Cyc, Channel!DecisionCycle, Channel!Entry,
    Channel!ExistsBijection, Channel!Later, Channel!Min, Channel!ToCycles

LEMMA SameChannelDrain ==
  ASSUME NEW p, NEW t
  PROVE  Sched!Drain(p, t) = Channel!Drain(p, t)
BY SameChannelDrainsWrites, SameChannelBatchCount, SameChannelPriority, SameChannelBanksAfter,
   SameChannelRanksAfter, SameChannelCounted, SameChannelEntry, SameChannelGroupOf, ZenonT(60)
DEF Sched!Aged, Sched!Drain, Sched!Horizon, Sched!Min, Sched!NoBank, Sched!Prune, Channel!Aged,
    Channel!Drain, Channel!Horizon, Channel!Min, Channel!NoBank, Channel!Prune

LEMMA SameChannelDrainOne ==
  Sched!DrainOne = Channel!DrainOne
BY SameChannelPick, SameChannelPlacement, SameChannelDrain, Zenon
DEF Sched!DrainOne, Channel!DrainOne

-----------------------------------------------------------------------------
(***************************************************************************)
(* What the two modules assume, and what was proved of each by itself.     *)
(***************************************************************************)
FrontAssumed == Front!ChannelAssumption /\ Front!FrontEndAssumption /\ Front!BucketsAssumption

SchedAssumed ==
  /\ Sched!DurationsAssumption /\ Sched!SlotAssumption /\ Sched!RefreshAssumption
  /\ Sched!TopologyAssumption /\ Sched!PolicyAssumption /\ Sched!CallerAssumption

LEMMA SchedHolds == SchedAssumed
BY SchedulerAssumption
DEF SchedAssumed, Channel!DurationsAssumption, Channel!SlotAssumption, Channel!RefreshAssumption,
    Channel!TopologyAssumption, Channel!PolicyAssumption, Sched!DurationsAssumption,
    Sched!SlotAssumption, Sched!RefreshAssumption, Sched!TopologyAssumption,
    Sched!PolicyAssumption, Sched!CallerAssumption, Sched!Durations, Channel!Durations,
    Sched!RefreshesEnd, Channel!RefreshesEnd, Sched!Cyc, Channel!Cyc, Sched!ToCycles,
    Channel!ToCycles, Sched!Command, Channel!Command, Sched!Bank, Channel!Bank, Sched!Types,
    Channel!Types

LEMMA FrontHolds == FrontAssumed
<1>1. Front!FrontEndAssumption
  BY FrontEndAssumption, Zenon
  DEF FrontEndAssumption, Front!FrontEndAssumption, IsFiniteSet, Front!IsFiniteSet
<1>2. Front!BucketsAssumption
  BY BucketsAssumption DEF BucketsAssumption, Front!BucketsAssumption
<1>3. Front!IsFiniteSet(Channels)
  <2>1. IsFiniteSet(Channels)
    BY OneChannelAssumption, FS_Singleton
  <2> QED
    BY <2>1, Zenon DEF IsFiniteSet, Front!IsFiniteSet
<1>4. Cfg.command_queue_depth \in Nat \ {0}
  BY SchedulerAssumption DEF Channel!PolicyAssumption
<1>5. Front!ChannelAssumption
  BY <1>3, <1>4, OneChannelAssumption DEF Front!ChannelAssumption
<1> QED
  BY <1>1, <1>2, <1>5 DEF FrontAssumed

LEMMA OrderKeeps ==
  ASSUME Sched!OrderInv, [Sched!Next]_(Sched!vars)
  PROVE  Sched!OrderInv'
BY SchedHolds, Sched!OrderKept DEF SchedAssumed, Sched!OrderKept

LEMMA OrderStarts ==
  ASSUME Sched!Init
  PROVE  Sched!OrderInv
BY SchedHolds, Sched!OrderInitially DEF SchedAssumed, Sched!OrderInitially

LEMMA LoopStarts ==
  ASSUME Front!Init
  PROVE  Front!LoopInv
BY FrontHolds, Front!InitLoop DEF FrontAssumed, Front!InitLoop

LEMMA LoopKeeps ==
  ASSUME Front!LoopInv, [Front!Next]_(Front!vars)
  PROVE  Front!LoopInv'
BY FrontHolds, Front!LoopStep DEF FrontAssumed, Front!LoopStep

-----------------------------------------------------------------------------
(***************************************************************************)
(* What ties the two together.                                             *)
(***************************************************************************)
(* A scheduler's command, waiting or drained, waits for what its chunk does. *)
Carries(e) == e.ready = ChunkOfEntry(e).ready /\ e.ready <= e.visible

Tied ==
  /\ admitted \in Seq(Front!Chunk) /\ Len(admitted) = next_seq
  /\ \A p \in pending : Carries(p) /\ p.bytes = ChunkBytes
  /\ \A p, q \in pending : ChunkOfEntry(p) = ChunkOfEntry(q) => p.seq = q.seq
  /\ \A i \in DOMAIN log : Carries(log[i])
  /\ stats.busy_cycles * Cfg.data_bus_bytes = ChunkBytes * Len(log)

SystemInv == Front!LoopInv /\ Sched!OrderInv /\ Tied

(* The chunks of some of the commands waiting. *)
ChunksOf(P) == {ChunkOfEntry(p) : p \in P}

LEMMA SameNumChunks ==
  ASSUME NEW txn
  PROVE  /\ Front!NumChunks(txn) = NumChunks(txn) /\ Front!FirstWindow(txn) = FirstWindow(txn)
BY Zenon
DEF Front!NumChunks, Front!FirstWindow, Front!TotalBytes, Front!BurstBytes, Front!Later,
    NumChunks, FirstWindow, TotalBytes, BurstBytes, Later

LEMMA SameNoTurn == Front!NoTurn = NoTurn
BY DEF Front!NoTurn, NoTurn

LEMMA ChannelZero == 0 \in Channels /\ [ch \in Channels |-> AbstractChannel][0] = AbstractChannel
BY OneChannelAssumption

LEMMA Queue == AbstractChannel.queue = ChunksOf(pending)
BY DEF AbstractChannel, ChunksOf, ChunkOfEntry

(* The chunk of the turn is one of its transaction's, and waits nowhere yet. *)
LEMMA TurnsChunk ==
  ASSUME Front!LoopInv, turn # NoTurn
  PROVE  \E txn \in Txns : \E i \in 0 .. NumChunks(txn) - 1 :
           /\ ChunkOf(turn) \in Front!Chunk
           /\ ChunkOf(turn).window = FirstWindow(txn) + i
           /\ txn = Head(cursors[ChunkOf(turn).stream].pending).txn
           /\ ChunkOf(turn) \notin ChunksOf(pending)
<1>1. PICK chunk \in Front!Chunk, txn \in Txns : \E i \in 0 .. Front!NumChunks(txn) - 1 :
           /\ chunk = Front!ChunkOf(turn) /\ chunk.window = Front!FirstWindow(txn) + i
           /\ txn = Head(cursors[chunk.stream].pending).txn
           /\ \A ch \in Channels : chunk \notin [c \in Channels |-> AbstractChannel][ch].queue
  BY FrontHolds, SameNoTurn, Front!TurnChunk DEF FrontAssumed, Front!TurnChunk
<1>2. chunk = ChunkOf(turn)
  BY <1>1, SameChunkOf
<1>3. \E i \in 0 .. NumChunks(txn) - 1 : chunk.window = FirstWindow(txn) + i
  BY <1>1, SameNumChunks
<1>4. chunk \notin ChunksOf(pending)
  BY <1>1, ChannelZero, Queue
<1> QED
  BY <1>1, <1>2, <1>3, <1>4, ZenonT(40)

LEMMA TurnsCommand ==
  ASSUME Front!LoopInv, turn # NoTurn
  PROVE  /\ CommandOf(ChunkOf(turn)) \in Channel!Command
         /\ CommandOf(ChunkOf(turn)).bytes = ChunkBytes
         /\ ChunkOf(turn) \in Front!Chunk /\ ChunkOf(turn).ready \in Nat
<1>1. PICK txn \in Txns : \E i \in 0 .. NumChunks(txn) - 1 :
           /\ ChunkOf(turn) \in Front!Chunk
           /\ ChunkOf(turn).window = FirstWindow(txn) + i
           /\ txn = Head(cursors[ChunkOf(turn).stream].pending).txn
  BY TurnsChunk
<1>2. PICK chunk : chunk = ChunkOf(turn)
  OBVIOUS
<1>3. Decode(chunk.window).bank \in Channel!Bank /\ Decode(chunk.window).row \in Rows
  BY <1>1, <1>2, DecoderAssumption
<1>4. txn.type \in Channel!Types /\ ChunkBytes \in Nat
  BY FrontEndAssumption DEF Channel!Types
<1>5. Head(cursors[chunk.stream].pending).txn.type \in Channel!Types
  BY <1>1, <1>2, <1>4
<1>6. CommandOf(chunk) \in Channel!Command /\ CommandOf(chunk).bytes = ChunkBytes
  BY <1>3, <1>4, <1>5 DEF CommandOf, Channel!Command
<1>7. chunk.ready \in Nat
  BY <1>1, <1>2 DEF Front!Chunk
<1> QED
  BY <1>1, <1>2, <1>6, <1>7

-----------------------------------------------------------------------------
(***************************************************************************)
(* The engine's steps are steps of the scheduler, or leave it alone.       *)
(***************************************************************************)
LEMMA StepKinds ==
  ASSUME [Next]_vars
  PROVE  UNCHANGED <<channelVars, admitted>> \/ Admit \/ DrainOne
BY Zenon DEF Next, Loop, MakeRoom, DrainIdle, Return, vars

LEMMA SchedIdle ==
  ASSUME UNCHANGED channelVars
  PROVE  UNCHANGED Sched!vars
BY Zenon DEF channelVars, Sched!vars, Sched!queueVars, Sched!busVars, Sched!policyVars

LEMMA SchedAdmits ==
  ASSUME SystemInv, Admit
  PROVE  Sched!Next
<1>1. PICK cmd, ready : cmd = CommandOf(ChunkOf(turn)) /\ ready = ChunkOf(turn).ready
  OBVIOUS
<1>2. cmd \in Channel!Command /\ ready \in Nat
  BY <1>1, TurnsCommand DEF SystemInv, Admit
<1>3. Sched!TryAdmit(cmd, ready)
  BY <1>1, SameChannelTryAdmit DEF Admit
<1>4. next_seq \in Nat
  BY DEF SystemInv, Sched!OrderInv, Sched!IInv, Sched!TypeOK
<1>5. Sched!Submit(cmd, ready)
  BY <1>3, <1>4 DEF Sched!Submit
<1> QED
  BY <1>2, <1>5 DEF Sched!Next

LEMMA SchedDrains ==
  ASSUME DrainOne
  PROVE  Sched!DrainOne /\ Sched!Next
BY SameChannelDrainOne DEF DrainOne, Sched!Next

LEMMA SchedSteps ==
  ASSUME SystemInv, [Next]_vars
  PROVE  [Sched!Next]_(Sched!vars)
BY StepKinds, SchedIdle, SchedAdmits, SchedDrains, Zenon

(* What the scheduler does of an admission. *)
Joins(new, chunk) ==
  /\ new \notin pending /\ pending' = pending \cup {new}
  /\ new.seq = next_seq /\ new.ready = chunk.ready /\ new.bytes = ChunkBytes
  /\ new.visible >= new.ready
  /\ next_seq' = next_seq + 1
  /\ last_admitted_ready_cycle' = Later(last_admitted_ready_cycle, chunk.ready)
  /\ UNCHANGED <<bus_free_cycle, stats, log>>

LEMMA AdmitJoins ==
  ASSUME SystemInv, Admit
  PROVE  \E new : Joins(new, ChunkOf(turn))
<1>1. PICK cmd, ready : cmd = CommandOf(ChunkOf(turn)) /\ ready = ChunkOf(turn).ready
  OBVIOUS
<1>2. cmd.bytes = ChunkBytes /\ ready \in Nat
  BY <1>1, TurnsCommand DEF SystemInv, Admit
<1>3. Sched!TryAdmit(cmd, ready)
  BY <1>1, SameChannelTryAdmit DEF Admit
<1>4. PICK new : new = [bank |-> cmd.bank, row |-> cmd.row, type |-> cmd.type, bytes |-> cmd.bytes,
                        ready |-> ready, visible |-> Sched!Later(ready, last_col_start_cycle),
                        seq |-> next_seq, skip_count |-> 0]
  OBVIOUS
<1>5. /\ pending' = pending \cup {new} /\ next_seq' = next_seq + 1
      /\ last_admitted_ready_cycle' = Later(last_admitted_ready_cycle, ready)
      /\ UNCHANGED <<bus_free_cycle, stats, log>>
  BY <1>3, <1>4 DEF Sched!TryAdmit, Sched!busVars, Sched!Later, Later
<1>6. next_seq \in Nat /\ \A p \in pending : p.seq < next_seq
  BY DEF SystemInv, Sched!OrderInv, Sched!IInv, Sched!TypeOK, Sched!SeqsCount
<1>7. last_col_start_cycle \in Nat
  BY DEF SystemInv, Sched!OrderInv, Sched!IInv, Sched!TypeOK, Sched!Cycle
<1>8. new.visible >= new.ready
  BY <1>2, <1>4, <1>7 DEF Sched!Later
<1>9. new \notin pending
  BY <1>4, <1>6
<1>10. Joins(new, ChunkOf(turn))
  BY <1>1, <1>2, <1>4, <1>5, <1>8, <1>9 DEF Joins
<1> QED
  BY <1>10

(* What a drain gives back: p, whose chunk is complete at the same cycle. *)
LEMMA DrainGives ==
  ASSUME SystemInv, DrainOne
  PROVE  \E p, complete, e :
           /\ Sched!GivesBack(p, complete, e)
           /\ Route(ChunkOfEntry(p), complete) /\ admitted' = admitted
<1>1. PICK p, complete, e : Sched!GivesBack(p, complete, e)
  BY SchedDrains, SchedHolds, Sched!DrainGivesBack DEF SystemInv, SchedAssumed, Sched!DrainGivesBack
<1>2. p = Channel!Pick /\ complete = Channel!Placement(p).complete
  BY <1>1, SameChannelPick, SameChannelPlacement DEF Sched!GivesBack
<1>3. Drained = ChunkOfEntry(p)
  BY <1>2, Zenon DEF Drained, ChunkOfEntry
<1>4. Route(ChunkOfEntry(p), complete) /\ admitted' = admitted
  BY <1>2, <1>3, Zenon DEF DrainOne
<1> QED
  BY <1>1, <1>4

(* The chunk of the log's entry e, as Engine's channel records it. *)
Served(e) ==
  LET chunk == ChunkOfEntry(e)
  IN  [stream |-> chunk.stream, txn_id |-> chunk.txn_id, window |-> chunk.window,
       complete |-> e.complete]

ServedOf(entries) == [i \in DOMAIN entries |-> Served(entries[i])]

LEMMA ServedOfLog == AbstractChannel.served = ServedOf(log)
BY DEF AbstractChannel, ServedOf, Served, ChunkOfEntry

LEMMA ServedSequence ==
  ASSUME NEW S, NEW entries \in Seq(S)
  PROVE  ServedOf(entries) \in Seq({Served(e) : e \in S}) /\ Len(ServedOf(entries)) = Len(entries)
<1>1. /\ Len(entries) \in Nat /\ DOMAIN entries = 1 .. Len(entries)
      /\ \A i \in 1 .. Len(entries) : entries[i] \in S
  BY LenProperties, ElementOfSeq
<1>2. PICK n \in Nat : n = Len(entries)
  BY <1>1
<1>3. ServedOf(entries) \in [1 .. n -> {Served(e) : e \in S}]
  BY <1>1, <1>2 DEF ServedOf
<1>4. ServedOf(entries) \in Seq({Served(e) : e \in S})
  BY <1>3, SeqDef
<1>5. Len(ServedOf(entries)) = n
  BY <1>3, <1>4, LenProperties
<1> QED
  BY <1>2, <1>4, <1>5

LEMMA ServedAppend ==
  ASSUME NEW S, NEW entries \in Seq(S), NEW e \in S
  PROVE  ServedOf(Append(entries, e)) = Append(ServedOf(entries), Served(e))
<1> DEFINE T == {Served(x) : x \in S}
           f == ServedOf(entries)
           g == ServedOf(Append(entries, e))
<1>1. f \in Seq(T) /\ Len(f) = Len(entries) /\ Served(e) \in T
  BY ServedSequence
<1>2. /\ Append(entries, e) \in Seq(S) /\ Len(Append(entries, e)) = Len(entries) + 1
      /\ Append(entries, e)[Len(entries) + 1] = e
      /\ \A i \in 1 .. Len(entries) : Append(entries, e)[i] = entries[i]
  BY AppendProperties
<1>3. g \in Seq(T) /\ Len(g) = Len(entries) + 1
  BY <1>2, ServedSequence
<1>4. /\ Append(f, Served(e)) \in Seq(T) /\ Len(Append(f, Served(e))) = Len(entries) + 1
      /\ Append(f, Served(e))[Len(entries) + 1] = Served(e)
      /\ \A i \in 1 .. Len(entries) : Append(f, Served(e))[i] = f[i]
  <2> HIDE DEF f, T
  <2> QED
    BY <1>1, AppendProperties
<1>5. Len(entries) \in Nat /\ DOMAIN entries = 1 .. Len(entries)
      /\ DOMAIN Append(entries, e) = 1 .. Len(entries) + 1
  BY <1>2, LenProperties
<1>6. \A i \in 1 .. Len(entries) : f[i] = Served(entries[i]) /\ g[i] = Served(entries[i])
  BY <1>2, <1>5 DEF ServedOf
<1>7. g[Len(entries) + 1] = Served(e)
  BY <1>2, <1>5 DEF ServedOf
<1> HIDE DEF f, g, T
<1>8. \A i \in 1 .. Len(g) : g[i] = Append(f, Served(e))[i]
  BY <1>3, <1>4, <1>5, <1>6, <1>7
<1>9. g = Append(f, Served(e))
  BY <1>3, <1>4, <1>8, SeqEqual
<1> QED
  BY <1>9 DEF f, g

LEMMA ChunksByWaits ==
  ASSUME NEW P, NEW Q, {Sched!Waits(q) : q \in P} = {Sched!Waits(o) : o \in Q}
  PROVE  ChunksOf(P) = ChunksOf(Q)
<1>1. ASSUME NEW A, NEW B, {Sched!Waits(q) : q \in A} = {Sched!Waits(o) : o \in B}
      PROVE  ChunksOf(A) \subseteq ChunksOf(B)
  <2>1. ASSUME NEW q \in A PROVE ChunkOfEntry(q) \in ChunksOf(B)
    <3>1. PICK o \in B : Sched!Waits(q) = Sched!Waits(o)
      BY <1>1
    <3>2. o.seq = q.seq
      BY <3>1 DEF Sched!Waits
    <3> QED
      BY <3>2 DEF ChunkOfEntry, ChunksOf
  <2> QED
    BY <2>1 DEF ChunksOf
<1> QED
  BY <1>1

(* A command waiting has its chunk among those admitted, and no other has. *)
LEMMA WaitingChunk ==
  ASSUME SystemInv, NEW p \in pending
  PROVE  /\ p.seq \in Nat /\ p.seq + 1 \in 1 .. Len(admitted)
         /\ ChunkOfEntry(p) \in Front!Chunk /\ ChunkOfEntry(p).ready \in Nat
         /\ p.ready = ChunkOfEntry(p).ready /\ p.bytes = ChunkBytes /\ p.visible >= p.ready
         /\ ChunksOf(pending \ {p}) = ChunksOf(pending) \ {ChunkOfEntry(p)}
<1>1. /\ admitted \in Seq(Front!Chunk) /\ Len(admitted) = next_seq
      /\ Carries(p) /\ p.bytes = ChunkBytes
  BY DEF SystemInv, Tied
<1>2. /\ p.seq \in Nat /\ p.ready \in Nat /\ p.visible \in Nat /\ next_seq \in Nat /\ p.seq < next_seq
  BY DEF SystemInv, Sched!OrderInv, Sched!IInv, Sched!TypeOK, Sched!SeqsCount, Sched!PendingCmd,
         Sched!Cycle
<1>3. p.seq + 1 \in 1 .. Len(admitted)
  BY <1>1, <1>2
<1>4. ChunkOfEntry(p) \in Front!Chunk
  BY <1>1, <1>3, ElementOfSeq DEF ChunkOfEntry
<1>5. ChunkOfEntry(p).ready \in Nat
  BY <1>4 DEF Front!Chunk
<1>6. \A q \in pending : ChunkOfEntry(q) = ChunkOfEntry(p) => q = p
  BY DEF SystemInv, Tied, Sched!OrderInv, Sched!SeqsCount
<1>7. ChunksOf(pending \ {p}) = ChunksOf(pending) \ {ChunkOfEntry(p)}
  BY <1>6 DEF ChunksOf
<1> QED
  BY <1>1, <1>2, <1>3, <1>4, <1>5, <1>7 DEF Carries

(* A channel a of Engine that becomes b as chunk returns, or joins it; and
   Engine's channels that do. *)
WholeChannel(a) ==
  a = [queue |-> a.queue, bus_free |-> a.bus_free, last_ready |-> a.last_ready, served |-> a.served]

ChannelReturns(a, b, chunk, complete, record) ==
  b = [queue |-> a.queue \ {chunk}, bus_free |-> complete, last_ready |-> a.last_ready,
       served |-> Append(a.served, record)]

ChannelAdmits(a, b, chunk, last) ==
  b = [queue |-> a.queue \cup {chunk}, bus_free |-> a.bus_free, last_ready |-> last,
       served |-> a.served]

AllReturn(before, after, chunk, complete, record) ==
  after = [before EXCEPT
             ![0].queue = @ \ {chunk}, ![0].bus_free = complete, ![0].served = Append(@, record)]

AllAdmit(before, after, chunk, last) ==
  after = [before EXCEPT ![0].queue = @ \cup {chunk}, ![0].last_ready = last]

LEMMA ChannelsReturn ==
  ASSUME NEW a, NEW b, NEW chunk, NEW complete, NEW record,
         WholeChannel(a), ChannelReturns(a, b, chunk, complete, record)
  PROVE  AllReturn([ch \in Channels |-> a], [ch \in Channels |-> b], chunk, complete, record)
BY OneChannelAssumption DEF WholeChannel, ChannelReturns, AllReturn

LEMMA ChannelsAdmit ==
  ASSUME NEW a, NEW b, NEW chunk, NEW last,
         WholeChannel(a), ChannelAdmits(a, b, chunk, last)
  PROVE  AllAdmit([ch \in Channels |-> a], [ch \in Channels |-> b], chunk, last)
BY OneChannelAssumption DEF WholeChannel, ChannelAdmits, AllAdmit

(* What a drain makes of the channel, as Engine sees it. *)
LEMMA DrainChannel ==
  ASSUME SystemInv, NEW p, NEW complete, NEW e, Sched!GivesBack(p, complete, e),
         admitted' = admitted
  PROVE  AbstractChannel' =
           [queue |-> AbstractChannel.queue \ {ChunkOfEntry(p)}, bus_free |-> complete,
            last_ready |-> AbstractChannel.last_ready,
            served |-> Append(AbstractChannel.served, Served([complete |-> complete, seq |-> p.seq]))]
<1>1. /\ p \in pending /\ bus_free_cycle' = complete
      /\ last_admitted_ready_cycle' = last_admitted_ready_cycle
      /\ log' = Append(log, e) /\ e \in Sched!LogEntry /\ e.seq = p.seq /\ e.complete = complete
      /\ {Sched!Waits(q) : q \in pending'} = {Sched!Waits(o) : o \in pending \ {p}}
  BY DEF Sched!GivesBack
<1>2. PICK after : after = pending'
  OBVIOUS
<1>3. ChunksOf(after) = ChunksOf(pending) \ {ChunkOfEntry(p)}
  BY <1>1, <1>2, ChunksByWaits, WaitingChunk
<1>4. ChunksOf(pending)' = ChunksOf(after)
  BY <1>2 DEF ChunksOf, ChunkOfEntry
<1>5. log \in Seq(Sched!LogEntry)
  BY DEF SystemInv, Sched!OrderInv, Sched!LogTyped
<1>6. ServedOf(log') = Append(ServedOf(log), Served(e))
  BY <1>1, <1>5, ServedAppend
<1>7. ServedOf(log)' = ServedOf(log')
  BY DEF ServedOf, Served, ChunkOfEntry
<1>8. Served(e) = Served([complete |-> complete, seq |-> p.seq])
  BY <1>1 DEF Served, ChunkOfEntry
<1>9. AbstractChannel' = [queue |-> ChunksOf(pending)', bus_free |-> bus_free_cycle',
                          last_ready |-> last_admitted_ready_cycle', served |-> ServedOf(log)']
  BY DEF AbstractChannel, ChunksOf, ServedOf, Served, ChunkOfEntry
<1>10. AbstractChannel.queue = ChunksOf(pending) /\ AbstractChannel.served = ServedOf(log)
       /\ AbstractChannel.last_ready = last_admitted_ready_cycle
  BY Queue, ServedOfLog DEF AbstractChannel
<1> QED
  BY <1>1, <1>3, <1>4, <1>6, <1>7, <1>8, <1>9, <1>10

LEMMA DrainMaps ==
  ASSUME SystemInv, DrainOne
  PROVE  Front!DrainOne(0)
<1>1. PICK p, complete, e :
           /\ Sched!GivesBack(p, complete, e)
           /\ Route(ChunkOfEntry(p), complete) /\ admitted' = admitted
  BY DrainGives
<1>2. PICK chunk : chunk = ChunkOfEntry(p)
  OBVIOUS
<1>3. /\ p \in pending /\ complete \in Nat /\ complete > bus_free_cycle /\ complete > p.ready
  BY <1>1 DEF Sched!GivesBack
<1>4. chunk.ready \in Nat /\ p.ready = chunk.ready /\ chunk \in ChunksOf(pending)
  BY <1>2, <1>3, WaitingChunk DEF ChunksOf
<1>5. bus_free_cycle \in Nat
  BY DEF SystemInv, Sched!OrderInv, Sched!IInv, Sched!TypeOK, Sched!Cycle
<1>6. PICK delay : delay = complete - Front!Later(bus_free_cycle, chunk.ready)
  OBVIOUS
<1>7. delay \in Nat \ {0} /\ complete = Front!Later(bus_free_cycle, chunk.ready) + delay
  BY <1>3, <1>4, <1>5, <1>6 DEF Front!Later
<1>8. PICK a, b : a = AbstractChannel /\ b = AbstractChannel'
  OBVIOUS
<1>9. PICK record : record = [stream |-> chunk.stream, txn_id |-> chunk.txn_id,
                              window |-> chunk.window, complete |-> complete]
  OBVIOUS
<1>10. record = Served([complete |-> complete, seq |-> p.seq])
  BY <1>2, <1>9 DEF Served, ChunkOfEntry
<1>11. ChannelReturns(a, b, chunk, complete, record)
  BY <1>1, <1>2, <1>8, <1>10, DrainChannel DEF ChannelReturns
<1>12. WholeChannel(a)
  BY <1>8 DEF AbstractChannel, WholeChannel
<1>13. a.bus_free = bus_free_cycle /\ chunk \in a.queue
  BY <1>4, <1>8, Queue DEF AbstractChannel
<1>14. AllReturn([ch \in Channels |-> a], [ch \in Channels |-> b], chunk, complete, record)
  BY <1>11, <1>12, ChannelsReturn
<1>15. Front!Route(chunk, complete)
  BY <1>1, <1>2, SameRoute
<1>16. [ch \in Channels |-> AbstractChannel] = [ch \in Channels |-> a]
       /\ [ch \in Channels |-> AbstractChannel]' = [ch \in Channels |-> b]
       /\ [ch \in Channels |-> a][0] = a
  BY <1>8, OneChannelAssumption
<1>17. PICK from, to : from = [ch \in Channels |-> a] /\ to = [ch \in Channels |-> b]
  OBVIOUS
<1>18. AllReturn(from, to, chunk, complete, record) /\ from[0] = a
  BY <1>14, <1>16, <1>17
<1>19. to = [from EXCEPT ![0].queue = @ \ {chunk}, ![0].bus_free = complete,
                         ![0].served = Append(@, [stream |-> chunk.stream, txn_id |-> chunk.txn_id,
                                            window |-> chunk.window, complete |-> complete])]
  BY <1>9, <1>18, Zenon DEF AllReturn
<1>20. chunk \in from[0].queue /\ from[0].bus_free = bus_free_cycle
  BY <1>13, <1>18
<1>21. [ch \in Channels |-> AbstractChannel] = from /\ [ch \in Channels |-> AbstractChannel]' = to
  BY <1>16, <1>17
<1> QED
  BY <1>7, <1>15, <1>19, <1>20, <1>21, ZenonT(40) DEF Front!DrainOne

-----------------------------------------------------------------------------
(***************************************************************************)
(* The engine's steps are Engine's.                                        *)
(***************************************************************************)
LEMMA SameCardinality ==
  ASSUME NEW S
  PROVE  Front!Cardinality(S) = Cardinality(S) /\ Channel!Cardinality(S) = Cardinality(S)
BY Zenon DEF Front!Cardinality, Channel!Cardinality, Cardinality, Front!ExistsBijection,
             Channel!ExistsBijection, ExistsBijection

LEMMA QueueLength ==
  ASSUME SystemInv
  PROVE  Cardinality(AbstractChannel.queue) = Cardinality(pending)
<1>1. IsFiniteSet(pending)
  <2>1. Sched!IsFiniteSet(pending)
    BY DEF SystemInv, Sched!OrderInv, Sched!LogTyped
  <2> QED
    BY <2>1, Zenon DEF Sched!IsFiniteSet, IsFiniteSet
<1>2. \A p, q \in pending : ChunkOfEntry(p) = ChunkOfEntry(q) => p = q
  BY DEF SystemInv, Tied, Sched!OrderInv, Sched!SeqsCount
<1>3. PICK f : f = [p \in pending |-> ChunkOfEntry(p)]
  OBVIOUS
<1>4. f \in Bijection(pending, ChunksOf(pending))
  BY <1>2, <1>3 DEF Bijection, Injection, Surjection, IsInjective, ChunksOf
<1>5. Cardinality(ChunksOf(pending)) = Cardinality(pending)
  BY <1>1, <1>4, FS_Bijection DEF ExistsBijection
<1> QED
  BY <1>5, Queue

LEMMA SameRoom ==
  ASSUME SystemInv
  PROVE  Front!HasRoom(0) <=> HasRoom
<1>1. PICK a : a = AbstractChannel
  OBVIOUS
<1>2. Front!Cardinality(a.queue) = Cardinality(pending)
  BY <1>1, QueueLength, SameCardinality
<1>3. [ch \in Channels |-> AbstractChannel][0] = a
  BY <1>1, OneChannelAssumption
<1> QED
  BY <1>2, <1>3 DEF Front!HasRoom, HasRoom

LEMMA SameTurnChannel == Front!TurnChannel = 0
BY DEF Front!TurnChannel

LEMMA SameBusy == Front!Busy = IF pending = {} THEN {} ELSE {0}
<1>1. PICK a : a = AbstractChannel
  OBVIOUS
<1>2. a.queue = {} <=> pending = {}
  BY <1>1, Queue DEF ChunksOf
<1>3. [ch \in Channels |-> AbstractChannel] = [ch \in Channels |-> a]
  BY <1>1, OneChannelAssumption
<1>4. Front!Busy = {ch \in Channels : [c \in Channels |-> a][ch].queue # {}}
  BY <1>3, Zenon DEF Front!Busy
<1> QED
  BY <1>2, <1>4, OneChannelAssumption

LEMMA UnchangedMaps ==
  ASSUME UNCHANGED <<channelVars, admitted>>
  PROVE  [ch \in Channels |-> AbstractChannel]' = [ch \in Channels |-> AbstractChannel]
BY DEF channelVars, AbstractChannel, ChunkOfEntry

LEMMA AdmitMaps ==
  ASSUME SystemInv, Admit
  PROVE  Front!Admit
<1>1. PICK new, chunk : chunk = ChunkOf(turn) /\ Joins(new, chunk)
  BY AdmitJoins
<1>2. /\ turn # NoTurn /\ HasRoom /\ admitted' = Append(admitted, chunk) /\ AdmitTurn
  BY <1>1 DEF Admit
<1>3. /\ chunk \in Front!Chunk /\ chunk.ready \in Nat
  BY <1>1, <1>2, TurnsCommand DEF SystemInv
<1>4. /\ admitted \in Seq(Front!Chunk) /\ Len(admitted) = next_seq /\ next_seq \in Nat
      /\ log \in Seq(Sched!LogEntry) /\ \A i \in DOMAIN log : log[i].seq < next_seq
  BY DEF SystemInv, Tied, Sched!OrderInv, Sched!SeqsCount, Sched!LogTyped, Sched!IInv, Sched!TypeOK
<1>5. /\ pending' = pending \cup {new} /\ new.seq = next_seq /\ log' = log
      /\ bus_free_cycle' = bus_free_cycle
      /\ last_admitted_ready_cycle' = Later(last_admitted_ready_cycle, chunk.ready)
  BY <1>1 DEF Joins
<1>6. /\ \A i \in 1 .. next_seq : admitted'[i] = admitted[i]
      /\ admitted'[next_seq + 1] = chunk
  BY <1>2, <1>3, <1>4, AppendProperties
<1>7. \A p \in pending : admitted'[p.seq + 1] = ChunkOfEntry(p)
  <2>1. ASSUME NEW p \in pending PROVE p.seq + 1 \in 1 .. next_seq
    BY <1>4, WaitingChunk
  <2> QED
    BY <1>6, <2>1 DEF ChunkOfEntry
<1>8. ChunksOf(pending)' = ChunksOf(pending) \cup {chunk}
  <2>1. ChunksOf(pending)' = {admitted'[p.seq + 1] : p \in pending \cup {new}}
    BY <1>5 DEF ChunksOf, ChunkOfEntry
  <2> QED
    BY <1>5, <1>6, <1>7, <2>1, ZenonT(40) DEF ChunksOf
<1>9. ServedOf(log)' = ServedOf(log)
  <2>1. ASSUME NEW i \in DOMAIN log PROVE Served(log[i])' = Served(log[i])
    <3>1. log[i].seq + 1 \in 1 .. next_seq
      <4>1. log[i] \in Sched!LogEntry
        BY <1>4, LenProperties, ElementOfSeq
      <4>2. log[i].seq \in Nat
        BY <4>1 DEF Sched!LogEntry
      <4> QED
        BY <1>4, <4>2
    <3>2. admitted'[log[i].seq + 1] = admitted[log[i].seq + 1]
      BY <1>6, <3>1
    <3> QED
      BY <1>5, <3>2 DEF Served, ChunkOfEntry
  <2> QED
    BY <1>5, <2>1 DEF ServedOf
<1>10. PICK a, b : a = AbstractChannel /\ b = AbstractChannel'
  OBVIOUS
<1>11. PICK last : last = Later(last_admitted_ready_cycle, chunk.ready)
  OBVIOUS
<1>12. b = [queue |-> ChunksOf(pending)', bus_free |-> bus_free_cycle',
            last_ready |-> last_admitted_ready_cycle', served |-> ServedOf(log)']
  BY <1>10 DEF AbstractChannel, ChunksOf, ServedOf, Served, ChunkOfEntry
<1>13. a = [queue |-> ChunksOf(pending), bus_free |-> bus_free_cycle,
            last_ready |-> last_admitted_ready_cycle, served |-> ServedOf(log)]
  BY <1>10, Zenon DEF AbstractChannel, ChunksOf, ServedOf, Served, ChunkOfEntry
<1>14. ChannelAdmits(a, b, chunk, last) /\ WholeChannel(a)
  BY <1>5, <1>8, <1>9, <1>11, <1>12, <1>13 DEF ChannelAdmits, WholeChannel
<1>15. PICK from, to : from = [ch \in Channels |-> a] /\ to = [ch \in Channels |-> b]
  OBVIOUS
<1>16. AllAdmit(from, to, chunk, last) /\ from[0] = a
  BY <1>14, <1>15, ChannelsAdmit, OneChannelAssumption
<1>17. last = Front!Later(from[0].last_ready, chunk.ready)
  BY <1>11, <1>13, <1>16 DEF Front!Later, Later
<1>18. to = [from EXCEPT ![0].queue = @ \cup {chunk},
                         ![0].last_ready = Front!Later(from[0].last_ready, chunk.ready)]
  BY <1>16, <1>17, Zenon DEF AllAdmit
<1>19. to = [from EXCEPT ![0].queue = @ \cup {chunk},
                         ![0].last_ready = Front!Later(@, chunk.ready)]
  BY <1>15, <1>13, <1>18, OneChannelAssumption
<1>20. [ch \in Channels |-> AbstractChannel] = from /\ [ch \in Channels |-> AbstractChannel]' = to
  BY <1>10, <1>15, OneChannelAssumption
<1>21. Front!AdmitTurn /\ turn # Front!NoTurn /\ Front!HasRoom(0) /\ Front!ChunkOf(turn) = chunk
  BY <1>1, <1>2, SameAdmitTurn, SameNoTurn, SameRoom, SameChunkOf
<1> QED
  BY <1>19, <1>20, <1>21, SameTurnChannel, ZenonT(40) DEF Front!Admit

LEMMA SumIsSumOn ==
  ASSUME NEW f
  PROVE  SumOf(f) = Front!SumOn(f, DOMAIN f)
BY Zenon DEF SumOf, FoldFunction, FoldFunctionOnSet, MapThenFoldSet,
             Front!SumOn, Front!FoldFunctionOnSet, Front!MapThenFoldSet

LEMMA TakeOne ==
  ASSUME NEW f, NEW S, IsFiniteSet(S), \A x \in S : f[x] \in Nat, NEW x \in S
  PROVE  Front!SumOn(f, S) = f[x] + Front!SumOn(f, S \ {x})
<1>1. Front!IsFiniteSet(S)
  BY Zenon DEF IsFiniteSet, Front!IsFiniteSet
<1> QED
  BY <1>1, FrontHolds, Front!SumRemove DEF FrontAssumed, Front!SumRemove

LEMMA AddOne ==
  ASSUME NEW f, NEW S, IsFiniteSet(S), \A y \in S : f[y] \in Nat, NEW x \in S,
         NEW T, T = S \ {x}, NEW n \in Nat, Front!SumOn(f, T) = n
  PROVE  Front!SumOn(f, S) = n + f[x] /\ n + f[x] \in Nat
<1>1. Front!SumOn(f, S) = f[x] + n
  <2>1. Front!SumOn(f, S) = f[x] + Front!SumOn(f, S \ {x})
    BY TakeOne
  <2> QED
    BY <2>1, Zenon
<1>2. PICK v \in Nat : v = f[x]
  OBVIOUS
<1> QED
  BY <1>1, <1>2

LEMMA NothingSums ==
  ASSUME NEW f
  PROVE  Front!SumOn(f, {}) = 0
BY FrontHolds, Front!SumEmpty DEF FrontAssumed, Front!SumEmpty

(* What the scheduler has charged is the sum over its causes. *)
LEMMA SumOfCauses ==
  ASSUME SystemInv
  PROVE  SumOf(stats.attr) = Sched!Attributed
<1>1. PICK f : f = stats.attr
  OBVIOUS
<1>2. f \in [Sched!Causes -> Nat]
  BY <1>1 DEF SystemInv, Sched!OrderInv, Sched!IInv, Sched!TypeOK, Sched!ChannelStats
<1>3. PICK S1 : S1 = {"refresh"}
  OBVIOUS
<1>4. PICK S2 : S2 = {"refresh", "row_miss"}
  OBVIOUS
<1>5. PICK S3 : S3 = {"refresh", "row_miss", "twtr"}
  OBVIOUS
<1>6. PICK S4 : S4 = {"refresh", "row_miss", "twtr", "turnaround"}
  OBVIOUS
<1>7. PICK S5 : S5 = {"refresh", "row_miss", "twtr", "turnaround", "tccd_l_excess"}
  OBVIOUS
<1>8. PICK S6 : S6 = {"refresh", "row_miss", "twtr", "turnaround", "tccd_l_excess", "frontend_idle"}
  OBVIOUS
<1>9. PICK S7 : S7 = Sched!Causes
  OBVIOUS
<1>10. /\ IsFiniteSet(S1) /\ IsFiniteSet(S2) /\ IsFiniteSet(S3) /\ IsFiniteSet(S4)
       /\ IsFiniteSet(S5) /\ IsFiniteSet(S6) /\ IsFiniteSet(S7)
  <2>1. IsFiniteSet(S1)
    BY <1>3, FS_Singleton
  <2>2. S2 = S1 \cup {"row_miss"} /\ S3 = S2 \cup {"twtr"} /\ S4 = S3 \cup {"turnaround"}
        /\ S5 = S4 \cup {"tccd_l_excess"} /\ S6 = S5 \cup {"frontend_idle"} /\ S7 = S6 \cup {"other"}
    BY <1>3, <1>4, <1>5, <1>6, <1>7, <1>8, <1>9 DEF Sched!Causes
  <2>3. IsFiniteSet(S2) /\ IsFiniteSet(S3)
    BY <2>1, <2>2, FS_AddElement
  <2>4. IsFiniteSet(S4) /\ IsFiniteSet(S5)
    BY <2>2, <2>3, FS_AddElement
  <2> QED
    BY <2>1, <2>2, <2>3, <2>4, FS_AddElement
<1>11. /\ S1 \ {"refresh"} = {} /\ S2 \ {"row_miss"} = S1 /\ S3 \ {"twtr"} = S2
       /\ S4 \ {"turnaround"} = S3 /\ S5 \ {"tccd_l_excess"} = S4 /\ S6 \ {"frontend_idle"} = S5
       /\ S7 \ {"other"} = S6
  BY <1>3, <1>4, <1>5, <1>6, <1>7, <1>8, <1>9 DEF Sched!Causes
<1>12. /\ \A x \in S7 : f[x] \in Nat
       /\ S1 \subseteq S7 /\ S2 \subseteq S7 /\ S3 \subseteq S7 /\ S4 \subseteq S7
       /\ S5 \subseteq S7 /\ S6 \subseteq S7
       /\ "refresh" \in S1 /\ "row_miss" \in S2 /\ "twtr" \in S3 /\ "turnaround" \in S4
       /\ "tccd_l_excess" \in S5 /\ "frontend_idle" \in S6 /\ "other" \in S7
  BY <1>2, <1>3, <1>4, <1>5, <1>6, <1>7, <1>8, <1>9 DEF Sched!Causes
<1>13. Front!SumOn(f, {}) = 0
  BY NothingSums
<1>14. PICK v1 \in Nat : v1 = 0 + f["refresh"] /\ Front!SumOn(f, S1) = v1
  BY <1>10, <1>11, <1>12, <1>13, AddOne
<1>15. PICK v2 \in Nat : v2 = v1 + f["row_miss"] /\ Front!SumOn(f, S2) = v2
  BY <1>10, <1>11, <1>12, <1>14, AddOne
<1>16. PICK v3 \in Nat : v3 = v2 + f["twtr"] /\ Front!SumOn(f, S3) = v3
  BY <1>10, <1>11, <1>12, <1>15, AddOne
<1>17. PICK v4 \in Nat : v4 = v3 + f["turnaround"] /\ Front!SumOn(f, S4) = v4
  BY <1>10, <1>11, <1>12, <1>16, AddOne
<1>18. PICK v5 \in Nat : v5 = v4 + f["tccd_l_excess"] /\ Front!SumOn(f, S5) = v5
  BY <1>10, <1>11, <1>12, <1>17, AddOne
<1>19. PICK v6 \in Nat : v6 = v5 + f["frontend_idle"] /\ Front!SumOn(f, S6) = v6
  BY <1>10, <1>11, <1>12, <1>18, AddOne
<1>20. PICK v7 \in Nat : v7 = v6 + f["other"] /\ Front!SumOn(f, S7) = v7
  BY <1>10, <1>11, <1>12, <1>19, AddOne
<1>21. f["refresh"] \in Nat
  BY <1>2 DEF Sched!Causes
<1>a. v7 = f["refresh"] + f["row_miss"] + f["twtr"] + f["turnaround"]
           + f["tccd_l_excess"] + f["frontend_idle"] + f["other"]
  BY <1>14, <1>15, <1>16, <1>17, <1>18, <1>19, <1>20, <1>21
<1>22. DOMAIN f = S7
  BY <1>2, <1>9
<1> QED
  BY <1>1, <1>20, <1>22, <1>a, SumIsSumOn, Zenon DEF Sched!Attributed

LEMMA SameReport ==
  ASSUME SystemInv
  PROVE  Front!ChannelReport = ChannelReport
<1>1. /\ stats.busy_cycles + Sched!Attributed = bus_free_cycle
      /\ stats.last_data_end_cycle = bus_free_cycle
  BY DEF SystemInv, Sched!OrderInv, Sched!IInv, Sched!BudgetCloses
<1>2. stats.busy_cycles + SumOf(stats.attr) = bus_free_cycle
  BY <1>1, SumOfCauses
<1>3. Len(AbstractChannel.served) = Len(log)
  BY ServedOfLog, ServedSequence DEF SystemInv, Sched!OrderInv, Sched!LogTyped
<1>4. stats.busy_cycles * Cfg.data_bus_bytes = ChunkBytes * Len(log)
  BY DEF SystemInv, Tied
<1>5. PICK a : a = AbstractChannel
  OBVIOUS
<1>6. a.bus_free = bus_free_cycle /\ Len(a.served) = Len(log)
  BY <1>3, <1>5 DEF AbstractChannel
<1>7. PICK from : from = [ch \in Channels |-> AbstractChannel]
  OBVIOUS
<1>8. \A ch \in Channels : from[ch] = a
  BY <1>5, <1>7
<1>9. Front!ChannelReport =
        [ch \in Channels |-> [bytes |-> ChunkBytes * Len(from[ch].served),
                              charged |-> from[ch].bus_free, data_end |-> from[ch].bus_free]]
  BY <1>7, Zenon DEF Front!ChannelReport
<1>10. PICK r : r = [bytes |-> ChunkBytes * Len(log), charged |-> bus_free_cycle,
                     data_end |-> bus_free_cycle]
  OBVIOUS
<1>11. Front!ChannelReport = [ch \in Channels |-> r]
  BY <1>6, <1>8, <1>9, <1>10
<1>12. ChannelReport = [ch \in Channels |-> r]
  BY <1>1, <1>2, <1>4, <1>10, Zenon DEF ChannelReport
<1> QED
  BY <1>11, <1>12, Zenon

(* Every step of the engine is one of Engine's, but for its cycles. *)
LEMMA CallMaps ==
  ASSUME SystemInv, Call, UNCHANGED <<channelVars, admitted>>, Statistic(ChannelReport)
  PROVE  Front!Next
<1>1. Front!Call
  BY SameCall, Zenon
<1>2. Front!Statistic(Front!ChannelReport)
  BY SameReport, SameStatistic, Zenon
<1>3. [ch \in Channels |-> AbstractChannel]' = [ch \in Channels |-> AbstractChannel]
  BY UnchangedMaps
<1> QED
  BY <1>1, <1>2, <1>3, ZenonT(40) DEF Front!Next

LEMMA LoopMaps ==
  ASSUME SystemInv, Loop, Statistic(ChannelReport)
  PROVE  Front!Next
<1>1. Front!Statistic(Front!ChannelReport)
  BY SameReport, SameStatistic, Zenon
<1>2. ASSUME UNCHANGED <<channelVars, admitted>>
      PROVE  [ch \in Channels |-> AbstractChannel]' = [ch \in Channels |-> AbstractChannel]
  BY <1>2, UnchangedMaps
<1>3. Front!Loop
  <2>3. CASE (Reschedule \/ Issue \/ Resume) /\ UNCHANGED <<channelVars, admitted>>
    BY <1>2, <2>3, SameReschedule, SameIssue, SameResume, Zenon DEF Front!Loop
  <2>4. CASE MakeRoom
    <3>1. turn # Front!NoTurn /\ ~ Front!HasRoom(0) /\ Front!DrainOne(0)
      BY <2>4, SameNoTurn, SameRoom, DrainMaps DEF MakeRoom
    <3>2. Front!MakeRoom
      BY <3>1, SameTurnChannel, Zenon DEF Front!MakeRoom
    <3> QED
      BY <3>2, Zenon DEF Front!Loop
  <2>5. CASE Admit
    BY <2>5, AdmitMaps, Zenon DEF Front!Loop
  <2>6. CASE DrainIdle
    <3>1. running /\ turn = Front!NoTurn /\ heap = {} /\ Front!DrainOne(0)
      BY <2>6, SameNoTurn, DrainMaps DEF DrainIdle
    <3>2. pending # {}
      BY <2>6, DrainGives, SMTT(30) DEF DrainIdle, Sched!GivesBack
    <3>3. Front!Busy = {0}
      BY <3>2, SameBusy
    <3>4. Front!Min({0}) = 0
      BY DEF Front!Min
    <3>5. Front!DrainIdle
      BY <3>1, <3>3, <3>4, Zenon DEF Front!DrainIdle
    <3> QED
      BY <3>5, Zenon DEF Front!Loop
  <2>7. CASE Return
    <3>1. Front!ReturnFromRun /\ Front!Busy = {}
      BY <2>7, SameReturnFromRun, SameBusy DEF Return
    <3>2. Front!Return
      BY <1>2, <2>7, <3>1, Zenon DEF Front!Return, Return
    <3> QED
      BY <3>2, Zenon DEF Front!Loop
  <2> QED
    BY <2>3, <2>4, <2>5, <2>6, <2>7, ZenonT(40) DEF Loop
<1> QED
  BY <1>1, <1>3, Zenon DEF Front!Next

LEMMA FrontSteps ==
  ASSUME SystemInv, [Next]_vars
  PROVE  [Front!Next]_(Front!vars)
<1>1. CASE UNCHANGED vars
  <2>1. UNCHANGED <<channelVars, admitted>> /\ UNCHANGED frontVars
    BY <1>1, Zenon DEF vars
  <2>2. [ch \in Channels |-> AbstractChannel]' = [ch \in Channels |-> AbstractChannel]
    BY <2>1, UnchangedMaps
  <2>3. UNCHANGED Front!frontVars
    BY <2>1, Zenon DEF frontVars, controlVars, statisticVars, Front!frontVars, Front!controlVars,
                       Front!statisticVars
  <2> QED
    BY <2>2, <2>3, Zenon DEF Front!vars
<1> QED
  BY <1>1, CallMaps, LoopMaps, Zenon DEF Next

LEMMA FrontStarts ==
  ASSUME Init
  PROVE  Front!Init /\ Sched!Init /\ Tied
<1>1. Front!FrontInit
  BY SameFrontInit DEF Init
<1>2. Sched!Init
  BY SameChannelInit DEF Init
<1>3. /\ pending = {} /\ next_seq = 0 /\ last_admitted_ready_cycle = 0 /\ bus_free_cycle = 0
      /\ log = <<>> /\ stats.busy_cycles = 0 /\ admitted = <<>>
  BY <1>2 DEF Init, Sched!Init
<1>4. AbstractChannel = [queue |-> {}, bus_free |-> 0, last_ready |-> 0, served |-> <<>>]
  <2>1. ServedOf(<<>>) \in Seq({Served(e) : e \in {}}) /\ Len(ServedOf(<<>>)) = 0
    BY ServedSequence, EmptySeq
  <2>2. ServedOf(log) = <<>> /\ ChunksOf(pending) = {}
    BY <1>3, <2>1, EmptySeq DEF ChunksOf
  <2>3. AbstractChannel = [queue |-> ChunksOf(pending), bus_free |-> bus_free_cycle,
            last_ready |-> last_admitted_ready_cycle, served |-> ServedOf(log)]
    BY Zenon DEF AbstractChannel, ChunksOf, ServedOf, Served, ChunkOfEntry
  <2> QED
    BY <1>3, <2>2, <2>3
<1>5. Front!Init
  BY <1>1, <1>4, Zenon DEF Front!Init
<1>6. admitted \in Seq(Front!Chunk) /\ Len(admitted) = 0
  BY <1>3
<1>7. stats.busy_cycles * Cfg.data_bus_bytes = ChunkBytes * Len(log)
  <2>1. Cfg.data_bus_bytes \in Nat /\ ChunkBytes \in Nat
    BY SchedulerAssumption, FrontEndAssumption DEF Channel!PolicyAssumption
  <2> QED
    BY <1>3, <2>1
<1> QED
  BY <1>2, <1>3, <1>5, <1>6, <1>7 DEF Tied

-----------------------------------------------------------------------------
(***************************************************************************)
(* What ties them together is kept.                                        *)
(***************************************************************************)
LEMMA RoundedUp ==
  ASSUME NEW q \in Nat, NEW d \in Nat \ {0}
  PROVE  (q * d + d - 1) \div d = q
BY Z3

(* A burst moves a whole number of bus words, which is what it keeps the bus. *)
LEMMA BurstTransfers ==
  ASSUME NEW p, p.bytes = ChunkBytes
  PROVE  Sched!TransferCycles(p) \in Nat /\ Sched!TransferCycles(p) * Cfg.data_bus_bytes = ChunkBytes
<1>1. PICK c, d : c = ChunkBytes /\ d = Cfg.data_bus_bytes
  OBVIOUS
<1>2. c \in Nat \ {0} /\ d \in Nat \ {0} /\ c % d = 0
  BY <1>1, FrontEndAssumption, SchedulerAssumption, DecoderAssumption DEF Channel!PolicyAssumption
<1>3. PICK q : q = c \div d
  OBVIOUS
<1>4. q \in Nat /\ c = q * d
  BY <1>2, <1>3, Z3
<1>5. q >= 1
  BY <1>2, <1>4
<1>6. (c + d - 1) \div d = q
  BY <1>2, <1>4, RoundedUp
<1>7. Sched!TransferCycles(p) = q
  BY <1>1, <1>4, <1>5, <1>6 DEF Sched!TransferCycles, Sched!Later
<1> QED
  BY <1>1, <1>4, <1>7

LEMMA TiedIdle ==
  ASSUME SystemInv, UNCHANGED <<channelVars, admitted>>
  PROVE  Tied'
BY DEF SystemInv, Tied, Carries, ChunkOfEntry, channelVars

LEMMA TiedAdmit ==
  ASSUME SystemInv, Admit
  PROVE  Tied'
<1>1. PICK new, chunk : chunk = ChunkOf(turn) /\ Joins(new, chunk)
  BY AdmitJoins
<1>2. /\ turn # NoTurn /\ admitted' = Append(admitted, chunk)
  BY <1>1 DEF Admit
<1>3. /\ chunk \in Front!Chunk /\ chunk.ready \in Nat /\ chunk \notin ChunksOf(pending)
  BY <1>1, <1>2, TurnsCommand, TurnsChunk DEF SystemInv
<1>4. /\ admitted \in Seq(Front!Chunk) /\ Len(admitted) = next_seq /\ next_seq \in Nat
      /\ log \in Seq(Sched!LogEntry) /\ \A i \in DOMAIN log : log[i].seq < next_seq
  BY DEF SystemInv, Tied, Sched!OrderInv, Sched!SeqsCount, Sched!LogTyped, Sched!IInv, Sched!TypeOK
<1>5. /\ pending' = pending \cup {new} /\ new.seq = next_seq /\ next_seq' = next_seq + 1
      /\ new.ready = chunk.ready /\ new.bytes = ChunkBytes /\ new.ready <= new.visible
      /\ log' = log /\ stats' = stats
  <2>1. new.ready \in Nat /\ new.visible >= new.ready
    BY <1>1, <1>3 DEF Joins
  <2> QED
    BY <1>1, <2>1 DEF Joins
<1>6. /\ admitted' \in Seq(Front!Chunk) /\ Len(admitted') = next_seq'
      /\ \A i \in 1 .. next_seq : admitted'[i] = admitted[i]
      /\ admitted'[next_seq + 1] = chunk
  BY <1>2, <1>3, <1>4, <1>5, AppendProperties
<1>7. \A p \in pending : p.seq + 1 \in 1 .. next_seq
  BY <1>4, WaitingChunk, ZenonT(40)
<1>8. \A p \in pending : admitted'[p.seq + 1] = ChunkOfEntry(p)
  BY <1>6, <1>7 DEF ChunkOfEntry
<1>9. \A i \in DOMAIN log : admitted'[log[i].seq + 1] = ChunkOfEntry(log[i])
  <2>1. ASSUME NEW i \in DOMAIN log PROVE log[i].seq + 1 \in 1 .. next_seq
    <3>1. log[i] \in Sched!LogEntry
      BY <1>4, LenProperties, ElementOfSeq
    <3>2. log[i].seq \in Nat
      BY <3>1 DEF Sched!LogEntry
    <3> QED
      BY <1>4, <3>2
  <2> QED
    BY <1>6, <2>1 DEF ChunkOfEntry
<1>10. \A p \in pending : p.ready = ChunkOfEntry(p).ready /\ p.ready <= p.visible /\ p.bytes = ChunkBytes
  BY DEF SystemInv, Tied, Carries
<1>11. \A p \in pending' : Carries(p)' /\ p.bytes = ChunkBytes
  BY <1>5, <1>6, <1>8, <1>10 DEF Carries, ChunkOfEntry
<1>12. \A i \in DOMAIN log' : Carries(log[i])'
  BY <1>5, <1>9 DEF SystemInv, Tied, Carries, ChunkOfEntry
<1>13. \A p \in pending : ChunkOfEntry(p) # chunk
  BY <1>3 DEF ChunksOf
<1>14. \A p, q \in pending' : admitted'[p.seq + 1] = admitted'[q.seq + 1] => p.seq = q.seq
  <2>1. \A p, q \in pending : ChunkOfEntry(p) = ChunkOfEntry(q) => p.seq = q.seq
    BY DEF SystemInv, Tied
  <2> QED
    BY <1>5, <1>6, <1>8, <1>13, <2>1
<1>15. stats'.busy_cycles * Cfg.data_bus_bytes = ChunkBytes * Len(log')
  BY <1>5 DEF SystemInv, Tied
<1> QED
  BY <1>6, <1>11, <1>12, <1>14, <1>15 DEF Tied, ChunkOfEntry

LEMMA TiedDrain ==
  ASSUME SystemInv, DrainOne
  PROVE  Tied'
<1>1. PICK p, complete, e : Sched!GivesBack(p, complete, e) /\ admitted' = admitted
  BY DrainGives
<1>2. /\ p \in pending /\ log' = Append(log, e) /\ e \in Sched!LogEntry
      /\ e.seq = p.seq /\ e.ready = p.ready /\ e.visible = p.visible
      /\ next_seq' = next_seq
      /\ stats'.busy_cycles = stats.busy_cycles + Sched!TransferCycles(p)
      /\ {Sched!Waits(q) : q \in pending'} = {Sched!Waits(o) : o \in pending \ {p}}
  BY <1>1 DEF Sched!GivesBack
<1>3. /\ admitted \in Seq(Front!Chunk) /\ Len(admitted) = next_seq
      /\ log \in Seq(Sched!LogEntry) /\ stats.busy_cycles \in Nat
      /\ stats.busy_cycles * Cfg.data_bus_bytes = ChunkBytes * Len(log)
      /\ \A i \in DOMAIN log : Carries(log[i])
      /\ \A o, q \in pending : ChunkOfEntry(o) = ChunkOfEntry(q) => o.seq = q.seq
      /\ \A o \in pending : Carries(o) /\ o.bytes = ChunkBytes
  BY DEF SystemInv, Tied, Sched!OrderInv, Sched!LogTyped, Sched!IInv, Sched!TypeOK, Sched!ChannelStats
<1>4. ASSUME NEW q \in pending'
      PROVE  \E o \in pending : /\ q.seq = o.seq /\ q.ready = o.ready /\ q.bytes = o.bytes
                                /\ q.visible = o.visible
  <2>0. PICK W : W = {Sched!Waits(o) : o \in pending \ {p}}
    OBVIOUS
  <2>a. Sched!Waits(q) \in W
    BY <1>2, <2>0, Zenon
  <2>1. PICK o \in pending \ {p} : Sched!Waits(q) = Sched!Waits(o)
    BY <2>0, <2>a
  <2> QED
    BY <2>1 DEF Sched!Waits
<1>5. ASSUME NEW q \in pending' PROVE Carries(q)' /\ q.bytes = ChunkBytes
  <2>1. PICK o \in pending : /\ q.seq = o.seq /\ q.ready = o.ready /\ q.bytes = o.bytes
                             /\ q.visible = o.visible
    BY <1>4
  <2> QED
    BY <1>1, <1>3, <2>1 DEF Carries, ChunkOfEntry
<1>6. ASSUME NEW q \in pending', NEW r \in pending', admitted[q.seq + 1] = admitted[r.seq + 1]
      PROVE  q.seq = r.seq
  <2>1. PICK o \in pending : q.seq = o.seq
    BY <1>4
  <2>2. PICK s \in pending : r.seq = s.seq
    BY <1>4
  <2> QED
    BY <1>3, <1>6, <2>1, <2>2 DEF ChunkOfEntry
<1>7. /\ Len(log) \in Nat /\ DOMAIN log = 1 .. Len(log)
      /\ log' \in Seq(Sched!LogEntry) /\ Len(log') = Len(log) + 1 /\ DOMAIN log' = 1 .. Len(log) + 1
      /\ \A i \in 1 .. Len(log) : log'[i] = log[i]
      /\ log'[Len(log) + 1] = e
  BY <1>2, <1>3, AppendProperties, LenProperties
<1>8. ASSUME NEW i \in DOMAIN log' PROVE Carries(log[i])'
  <2>1. CASE i \in 1 .. Len(log)
    BY <1>1, <1>3, <1>7, <2>1 DEF Carries, ChunkOfEntry
  <2>2. CASE i = Len(log) + 1
    BY <1>1, <1>2, <1>3, <1>7, <2>2 DEF Carries, ChunkOfEntry
  <2> QED
    BY <1>7, <2>1, <2>2
<1>9. stats'.busy_cycles * Cfg.data_bus_bytes = ChunkBytes * Len(log')
  <2>1. PICK x, y, d, n : /\ x = stats.busy_cycles /\ y = Sched!TransferCycles(p)
                          /\ d = Cfg.data_bus_bytes /\ n = Len(log)
    OBVIOUS
  <2>2. y \in Nat /\ y * d = ChunkBytes
    BY <1>2, <1>3, <2>1, BurstTransfers
  <2>3. x \in Nat /\ d \in Nat /\ n \in Nat /\ ChunkBytes \in Nat
    BY <1>3, <1>7, <2>1, FrontEndAssumption, SchedulerAssumption, SMTT(30)
    DEF Channel!PolicyAssumption
  <2>4. x * d = ChunkBytes * n
    BY <1>3, <2>1
  <2>5. (x + y) * d = ChunkBytes * (n + 1)
    BY <2>2, <2>3, <2>4, Z3
  <2> QED
    BY <1>2, <1>7, <2>1, <2>5
<1>10. /\ \A q \in pending' : Carries(q)' /\ q.bytes = ChunkBytes
       /\ \A q, r \in pending' : admitted'[q.seq + 1] = admitted'[r.seq + 1] => q.seq = r.seq
       /\ \A i \in DOMAIN log' : Carries(log[i])'
  BY <1>1, <1>5, <1>6, <1>8
<1> QED
  BY <1>1, <1>2, <1>3, <1>9, <1>10 DEF Tied, ChunkOfEntry

LEMMA SystemKeeps ==
  ASSUME SystemInv, [Next]_vars
  PROVE  SystemInv'
<1>1. Front!LoopInv'
  BY FrontSteps, LoopKeeps DEF SystemInv
<1>2. Sched!OrderInv'
  BY SchedSteps, OrderKeeps DEF SystemInv
<1>3. Tied'
  BY StepKinds, TiedIdle, TiedAdmit, TiedDrain
<1> QED
  BY <1>1, <1>2, <1>3 DEF SystemInv

LEMMA SystemStarts ==
  ASSUME Init
  PROVE  SystemInv
BY FrontStarts, LoopStarts, OrderStarts DEF SystemInv

-----------------------------------------------------------------------------
(***************************************************************************)
(* The operators of Engine do not depend on how long a chunk may take;     *)
(* where the two instances differ only in that, they are the same.         *)
(***************************************************************************)
LEMMA SameEngineRoute ==
  ASSUME NEW chunk, NEW complete
  PROVE  Abstract!Route(chunk, complete) = Front!Route(chunk, complete)
BY Zenon DEF
  Abstract!AxiOf, Abstract!BurstBytes, Abstract!Cardinality, Abstract!Completion,
  Abstract!CoreOf, Abstract!Event, Abstract!ExistsBijection, Abstract!Finalize,
  Abstract!GateAfter, Abstract!GateOf, Abstract!IdGate, Abstract!InSegment, Abstract!IssueCycle,
  Abstract!Later, Abstract!Min, Abstract!More, Abstract!NeedsEvent, Abstract!Opens,
  Abstract!Progressed, Abstract!ResultOf, Abstract!Route, Abstract!SegmentOf,
  Abstract!TotalBytes, Front!AxiOf, Front!BurstBytes, Front!Cardinality, Front!Completion,
  Front!CoreOf, Front!Event, Front!ExistsBijection, Front!Finalize, Front!GateAfter,
  Front!GateOf, Front!IdGate, Front!InSegment, Front!IssueCycle, Front!Later, Front!Min,
  Front!More, Front!NeedsEvent, Front!Opens, Front!Progressed, Front!ResultOf, Front!Route,
  Front!SegmentOf, Front!TotalBytes

LEMMA SameEngineStatistic ==
  ASSUME NEW channel
  PROVE  Abstract!Statistic(channel) = Front!Statistic(channel)
BY Zenon DEF
  Abstract!AllLatencies, Abstract!Cardinality, Abstract!Delivered, Abstract!ExistsBijection,
  Abstract!FoldFunction, Abstract!FoldFunctionOnSet, Abstract!Imbalance, Abstract!KeyAtRank,
  Abstract!Latency, Abstract!LatencyBucket, Abstract!LatencyPercentile2, Abstract!Later,
  Abstract!Lesser, Abstract!MapThenFoldSet, Abstract!Max, Abstract!Min, Abstract!NoWindow,
  Abstract!Offered, Abstract!Percentiles, Abstract!RanLonger, Abstract!Rank, Abstract!Recorded,
  Abstract!Statistic, Abstract!SumOf, Abstract!Summary, Abstract!Totalled, Abstract!Trailing,
  Abstract!UpperEdge2, Front!AllLatencies, Front!Cardinality, Front!Delivered,
  Front!ExistsBijection, Front!FoldFunction, Front!FoldFunctionOnSet, Front!Imbalance,
  Front!KeyAtRank, Front!Latency, Front!LatencyBucket, Front!LatencyPercentile2, Front!Later,
  Front!Lesser, Front!MapThenFoldSet, Front!Max, Front!Min, Front!NoWindow, Front!Offered,
  Front!Percentiles, Front!RanLonger, Front!Rank, Front!Recorded, Front!Statistic, Front!SumOf,
  Front!Summary, Front!Totalled, Front!Trailing, Front!UpperEdge2

LEMMA SameEngineCall ==
  Abstract!Call = Front!Call
BY Zenon DEF
  Abstract!BeginRun, Abstract!Bijection, Abstract!BurstBytes, Abstract!Call,
  Abstract!Cardinality, Abstract!CoreOf, Abstract!Counted, Abstract!Event,
  Abstract!ExistsBijection, Abstract!IdGate, Abstract!InSegment, Abstract!Injection,
  Abstract!IsInjective, Abstract!IssueCycle, Abstract!Kept, Abstract!Later, Abstract!Min,
  Abstract!NeedsEvent, Abstract!NewCursor, Abstract!NewSegment, Abstract!NoProgress,
  Abstract!PruneResultsBefore, Abstract!PushBarrier, Abstract!PushTxn, Abstract!SegmentAfter,
  Abstract!SegmentOf, Abstract!Surjection, Front!BeginRun, Front!Bijection, Front!BurstBytes,
  Front!Call, Front!Cardinality, Front!CoreOf, Front!Counted, Front!Event,
  Front!ExistsBijection, Front!IdGate, Front!InSegment, Front!Injection, Front!IsInjective,
  Front!IssueCycle, Front!Kept, Front!Later, Front!Min, Front!NeedsEvent, Front!NewCursor,
  Front!NewSegment, Front!NoProgress, Front!PruneResultsBefore, Front!PushBarrier,
  Front!PushTxn, Front!SegmentAfter, Front!SegmentOf, Front!Surjection

LEMMA SameEngineReschedule ==
  Abstract!Reschedule = Front!Reschedule
BY Zenon DEF
  Abstract!AtTop, Abstract!Cardinality, Abstract!CoreOf, Abstract!ExistsBijection,
  Abstract!GateOf, Abstract!IdGate, Abstract!IssueCycle, Abstract!Later, Abstract!Min,
  Abstract!NoTurn, Abstract!Precedes, Abstract!RefreshedEvent, Abstract!Reschedule,
  Abstract!SegmentOf, Abstract!StreamPrecedes, Abstract!Top, Front!AtTop, Front!Cardinality,
  Front!CoreOf, Front!ExistsBijection, Front!GateOf, Front!IdGate, Front!IssueCycle,
  Front!Later, Front!Min, Front!NoTurn, Front!Precedes, Front!RefreshedEvent, Front!Reschedule,
  Front!SegmentOf, Front!StreamPrecedes, Front!Top

LEMMA SameEngineIssue ==
  Abstract!Issue = Front!Issue
BY Zenon DEF
  Abstract!AtTop, Abstract!BurstBytes, Abstract!Cardinality, Abstract!CoreOf,
  Abstract!ExistsBijection, Abstract!FirstWindow, Abstract!GateOf, Abstract!IdGate,
  Abstract!Issue, Abstract!IssueCycle, Abstract!Later, Abstract!Min, Abstract!NoTurn,
  Abstract!NumChunks, Abstract!OutstandingWait, Abstract!PortFreeAfter, Abstract!Precedes,
  Abstract!SegmentOf, Abstract!Started, Abstract!StillOutstanding, Abstract!StreamPrecedes,
  Abstract!Top, Abstract!TotalBytes, Front!AtTop, Front!BurstBytes, Front!Cardinality,
  Front!CoreOf, Front!ExistsBijection, Front!FirstWindow, Front!GateOf, Front!IdGate,
  Front!Issue, Front!IssueCycle, Front!Later, Front!Min, Front!NoTurn, Front!NumChunks,
  Front!OutstandingWait, Front!PortFreeAfter, Front!Precedes, Front!SegmentOf, Front!Started,
  Front!StillOutstanding, Front!StreamPrecedes, Front!Top, Front!TotalBytes

LEMMA SameEngineResume ==
  Abstract!Resume = Front!Resume
BY Zenon DEF
  Abstract!AtTop, Abstract!NoTurn, Abstract!Precedes, Abstract!Resume, Abstract!StreamPrecedes,
  Abstract!Top, Front!AtTop, Front!NoTurn, Front!Precedes, Front!Resume, Front!StreamPrecedes,
  Front!Top

LEMMA SameEngineAdmitTurn ==
  Abstract!AdmitTurn = Front!AdmitTurn
BY Zenon DEF
  Abstract!AdmitTurn, Abstract!Event, Abstract!NoTurn, Front!AdmitTurn, Front!Event,
  Front!NoTurn

LEMMA SameEngineReturnFromRun ==
  Abstract!ReturnFromRun = Front!ReturnFromRun
BY Zenon DEF
  Abstract!NoTurn, Abstract!ReturnFromRun, Front!NoTurn, Front!ReturnFromRun

LEMMA SameEngineChunkOf ==
  ASSUME NEW ev
  PROVE  Abstract!ChunkOf(ev) = Front!ChunkOf(ev)
BY Zenon DEF
  Abstract!ChunkOf, Front!ChunkOf

-----------------------------------------------------------------------------
(***************************************************************************)
(* The refinement.  Front is Abstract where a chunk may take any time.     *)
(***************************************************************************)
LEMMA SameEngineHelpers ==
  ASSUME NEW a, NEW b, NEW S
  PROVE  /\ Abstract!Later(a, b) = Front!Later(a, b)
         /\ Abstract!Cardinality(S) = Front!Cardinality(S) /\ Abstract!Min(S) = Front!Min(S)
         /\ Abstract!NoTurn = Front!NoTurn /\ Abstract!TurnChannel = Front!TurnChannel
         /\ Abstract!Busy = Front!Busy
BY Zenon
DEF Abstract!Later, Front!Later, Abstract!Cardinality, Front!Cardinality,
    Abstract!ExistsBijection, Front!ExistsBijection, Abstract!Min, Front!Min, Abstract!NoTurn,
    Front!NoTurn, Abstract!TurnChannel, Front!TurnChannel, Abstract!Busy, Front!Busy

LEMMA SameEngineRoom ==
  ASSUME NEW ch
  PROVE  Abstract!HasRoom(ch) = Front!HasRoom(ch)
BY SameEngineHelpers, Zenon DEF Abstract!HasRoom, Front!HasRoom

LEMMA SameEngineDrainOne ==
  ASSUME Delay = Nat \ {0}, NEW ch
  PROVE  Abstract!DrainOne(ch) = Front!DrainOne(ch)
BY SameEngineHelpers, SameEngineRoute, Zenon DEF Abstract!DrainOne, Front!DrainOne

LEMMA SameEngineAdmit == Abstract!Admit = Front!Admit
BY Zenon
DEF Abstract!Admit, Front!Admit, Abstract!HasRoom, Front!HasRoom, Abstract!Cardinality,
    Front!Cardinality, Abstract!ExistsBijection, Front!ExistsBijection, Abstract!TurnChannel,
    Front!TurnChannel, Abstract!ChunkOf, Front!ChunkOf, Abstract!Later, Front!Later,
    Abstract!AdmitTurn, Front!AdmitTurn, Abstract!Event, Front!Event, Abstract!NoTurn,
    Front!NoTurn

LEMMA SameEngineDrains ==
  ASSUME Delay = Nat \ {0}
  PROVE  Abstract!MakeRoom = Front!MakeRoom /\ Abstract!DrainIdle = Front!DrainIdle
BY SameEngineHelpers, SameEngineRoom, SameEngineDrainOne, Zenon
DEF Abstract!MakeRoom, Front!MakeRoom, Abstract!DrainIdle, Front!DrainIdle

LEMMA SameEngineReturn == Abstract!Return = Front!Return
BY SameEngineHelpers, SameEngineReturnFromRun, Zenon DEF Abstract!Return, Front!Return

LEMMA SameEngineLoop ==
  ASSUME Delay = Nat \ {0}
  PROVE  Front!Loop => Abstract!Loop
<1>1. Abstract!MakeRoom = Front!MakeRoom /\ Abstract!DrainIdle = Front!DrainIdle
  BY SameEngineDrains
<1> QED
  BY <1>1, SameEngineReschedule, SameEngineIssue, SameEngineResume, SameEngineAdmit,
     SameEngineReturn, Zenon
  DEF Abstract!Loop, Front!Loop

LEMMA SameEngineNext ==
  ASSUME Delay = Nat \ {0}
  PROVE  Front!Next => Abstract!Next
<1>1. Abstract!ChannelReport = Front!ChannelReport
  BY Zenon DEF Abstract!ChannelReport, Front!ChannelReport
<1>2. Abstract!Statistic(Abstract!ChannelReport) = Front!Statistic(Front!ChannelReport)
  BY <1>1, SameEngineStatistic, Zenon
<1>3. Front!Loop => Abstract!Loop
  BY SameEngineLoop
<1> QED
  BY <1>2, <1>3, SameEngineCall, Zenon DEF Abstract!Next, Front!Next

LEMMA SameEngineInit == Abstract!Init = Front!Init
<1>1. Abstract!FrontInit = Front!FrontInit
  BY Zenon
  DEF Abstract!FrontInit, Front!FrontInit, Abstract!NewCursor, Front!NewCursor,
      Abstract!NoProgress, Front!NoProgress, Abstract!NoRuntime, Front!NoRuntime,
      Abstract!NoLatencies, Front!NoLatencies, Abstract!NoSummary, Front!NoSummary,
      Abstract!Percentiles, Front!Percentiles, Abstract!NoTurn, Front!NoTurn
<1> QED
  BY <1>1, Zenon DEF Abstract!Init, Front!Init

(* The engine over the real scheduler implements Engine (ImplementsEngine):
   run() with drain_one, try_admit and routing does nothing that Engine, whose
   channels return any waiting chunk at any cycle after it is ready and the bus
   free, could not do.  The hypothesis is that any such cycle is allowed; the
   run on a small instance bounds them by the longest it meets. *)
THEOREM SystemImplementsEngine ==
  ASSUME Delay = Nat \ {0}
  PROVE  Spec => ImplementsEngine
<1>1. Init => SystemInv /\ Abstract!Init
  BY SystemStarts, FrontStarts, SameEngineInit, Zenon
<1>2. SystemInv /\ [Next]_vars => SystemInv' /\ [Abstract!Next]_(Abstract!vars)
  <2>1. SUFFICES ASSUME SystemInv, [Next]_vars
                 PROVE  SystemInv' /\ [Abstract!Next]_(Abstract!vars)
    OBVIOUS
  <2>2. [Front!Next]_(Front!vars) /\ SystemInv'
    BY <2>1, FrontSteps, SystemKeeps
  <2>3. Front!Next => Abstract!Next
    BY SameEngineNext
  <2>4. UNCHANGED Front!vars => UNCHANGED Abstract!vars
    BY Zenon
    DEF Abstract!vars, Front!vars, Abstract!frontVars, Front!frontVars, Abstract!controlVars,
        Front!controlVars, Abstract!statisticVars, Front!statisticVars
  <2> QED
    BY <2>2, <2>3, <2>4, Zenon
<1> QED
  BY <1>1, <1>2, PTL DEF Spec, ImplementsEngine, Abstract!Spec

-----------------------------------------------------------------------------
(***************************************************************************)
(* Barriers at the DRAM.  Every chunk the scheduler was given came after   *)
(* its stream's gate, and every burst it made is owned by a transaction of *)
(* its stream; what is proved of gates in Engine does the rest.            *)
(***************************************************************************)
Gated == \A k \in DOMAIN admitted : Front!BehindGate(admitted[k].stream, admitted[k].ready)

Covered == \A i \in DOMAIN log : Front!OwnedBy(ChunkOfEntry(log[i]).stream, log[i].complete)

DramInv ==
  SystemInv /\ Front!OrderInv /\ Front!TimeInv /\ Sched!KnownInv /\ Gated /\ Covered

LEMMA TimedKeeps ==
  ASSUME Front!OrderInv, Front!TimeInv, [Front!Next]_(Front!vars)
  PROVE  Front!OrderInv' /\ Front!TimeInv'
BY FrontHolds, Front!TimedStep DEF FrontAssumed, Front!TimedStep

LEMMA TimedStarts ==
  ASSUME Front!Init
  PROVE  Front!OrderInv /\ Front!TimeInv
BY FrontHolds, Front!InitOrder, Front!InitTimes DEF FrontAssumed, Front!InitOrder, Front!InitTimes

LEMMA KnownKeeps ==
  ASSUME Sched!KnownInv, [Sched!Next]_(Sched!vars)
  PROVE  Sched!KnownInv'
BY SchedHolds, Sched!KnownStep DEF SchedAssumed, Sched!KnownStep

LEMMA KnownStarts ==
  ASSUME Sched!Init
  PROVE  Sched!KnownInv
BY SchedHolds, Sched!KnownInit DEF SchedAssumed, Sched!KnownInit

LEMMA GatesKeep ==
  ASSUME Front!OrderInv, Front!TimeInv, [Front!Next]_(Front!vars),
         NEW s, NEW ready, Front!BehindGate(s, ready)
  PROVE  Front!BehindGate(s, ready)'
<1>1. Front!LoopInv
  BY DEF Front!OrderInv
<1> QED
  BY <1>1, FrontHolds, Front!GatesStay DEF FrontAssumed, Front!GatesStay

LEMMA OwnedKeeps ==
  ASSUME Front!OrderInv, Front!TimeInv, [Front!Next]_(Front!vars),
         NEW s, NEW end \in Nat, Front!OwnedBy(s, end)
  PROVE  Front!OwnedBy(s, end)'
<1>1. Front!LoopInv
  BY DEF Front!OrderInv
<1>2. Front!LoopInv'
  BY <1>1, LoopKeeps
<1> QED
  BY <1>1, <1>2, FrontHolds, Front!OwnedStays DEF FrontAssumed, Front!OwnedStays

(* An entry of the log is of a chunk that was admitted. *)
LEMMA LoggedChunk ==
  ASSUME SystemInv, NEW i \in DOMAIN log
  PROVE  /\ log[i] \in Sched!LogEntry
         /\ log[i].seq + 1 \in 1 .. Len(admitted) /\ log[i].seq + 1 \in DOMAIN admitted
         /\ ChunkOfEntry(log[i]) \in Front!Chunk
<1>1. /\ admitted \in Seq(Front!Chunk) /\ Len(admitted) = next_seq /\ next_seq \in Nat
      /\ log \in Seq(Sched!LogEntry) /\ log[i].seq < next_seq
  BY DEF SystemInv, Tied, Sched!OrderInv, Sched!SeqsCount, Sched!LogTyped, Sched!IInv, Sched!TypeOK
<1>2. log[i] \in Sched!LogEntry
  BY <1>1, LenProperties, ElementOfSeq
<1>3. log[i].seq \in Nat
  BY <1>2 DEF Sched!LogEntry
<1>4. log[i].seq + 1 \in 1 .. Len(admitted) /\ DOMAIN admitted = 1 .. Len(admitted)
  BY <1>1, <1>3, LenProperties
<1>5. ChunkOfEntry(log[i]) \in Front!Chunk
  BY <1>1, <1>4, ElementOfSeq DEF ChunkOfEntry
<1> QED
  BY <1>2, <1>4, <1>5

(* A chunk once behind its gate is so after a step, and a burst stays owned. *)
LEMMA StillBehind ==
  ASSUME Front!OrderInv, Front!TimeInv, [Front!Next]_(Front!vars),
         NEW k, NEW chunk, admitted'[k] = chunk, Front!BehindGate(chunk.stream, chunk.ready)
  PROVE  Front!BehindGate(admitted[k].stream, admitted[k].ready)'
<1>1. PICK s, ready : s = chunk.stream /\ ready = chunk.ready
  OBVIOUS
<1>2. Front!BehindGate(s, ready)'
  BY <1>1, GatesKeep
<1> QED
  BY <1>1, <1>2
  DEF Front!BehindGate, Front!Known, Front!GateOf, Front!CoreOf, Front!SegmentOf

LEMMA StillOwned ==
  ASSUME NEW i, NEW chunk, NEW e, log'[i] = e, admitted'[e.seq + 1] = chunk,
         NEW s, NEW end, s = chunk.stream, end = e.complete, Front!OwnedBy(s, end)'
  PROVE  Front!OwnedBy(ChunkOfEntry(log[i]).stream, log[i].complete)'
BY DEF Front!OwnedBy, Front!StreamOf, ChunkOfEntry

LEMMA GatedKeeps ==
  ASSUME DramInv, [Next]_vars
  PROVE  Gated'
<1>1. /\ SystemInv /\ Front!OrderInv /\ Front!TimeInv /\ [Front!Next]_(Front!vars)
      /\ \A k \in DOMAIN admitted : Front!BehindGate(admitted[k].stream, admitted[k].ready)
  BY FrontSteps DEF DramInv, Gated
<1>2. ASSUME NEW k \in DOMAIN admitted, admitted'[k] = admitted[k]
      PROVE  Front!BehindGate(admitted[k].stream, admitted[k].ready)'
  <2>1. PICK chunk : chunk = admitted[k]
    OBVIOUS
  <2>2. admitted'[k] = chunk /\ Front!BehindGate(chunk.stream, chunk.ready)
    BY <1>1, <1>2, <2>1
  <2> QED
    BY <1>1, <2>2, StillBehind
<1>3. CASE admitted' = admitted
  BY <1>2, <1>3 DEF Gated
<1>4. CASE Admit
  <2>1. PICK chunk : chunk = ChunkOf(turn)
    OBVIOUS
  <2>2. turn # NoTurn /\ admitted' = Append(admitted, chunk)
    BY <1>4, <2>1 DEF Admit
  <2>3. chunk \in Front!Chunk /\ admitted \in Seq(Front!Chunk)
    BY <1>1, <2>1, <2>2, TurnsCommand DEF SystemInv, Tied
  <2>4. PICK n : n = Len(admitted) + 1
    OBVIOUS
  <2>5. /\ DOMAIN admitted' = DOMAIN admitted \cup {n} /\ admitted'[n] = chunk
        /\ \A k \in DOMAIN admitted : admitted'[k] = admitted[k]
    <3>1. /\ Len(admitted) \in Nat /\ DOMAIN admitted = 1 .. Len(admitted)
          /\ admitted' \in Seq(Front!Chunk) /\ Len(admitted') = n
          /\ \A k \in 1 .. Len(admitted) : admitted'[k] = admitted[k]
          /\ admitted'[n] = chunk
      BY <2>2, <2>3, <2>4, AppendProperties, LenProperties
    <3>2. DOMAIN admitted' = 1 .. n
      BY <3>1, LenProperties
    <3> QED
      BY <2>4, <3>1, <3>2
  <2>6. Front!BehindGate(chunk.stream, chunk.ready)
    <3>1. Front!BehindGate(Front!ChunkOf(turn).stream, Front!ChunkOf(turn).ready)
      BY <1>1, <2>2, SameNoTurn, FrontHolds, Front!TurnBehindGate
      DEF SystemInv, FrontAssumed, Front!TurnBehindGate
    <3>2. Front!ChunkOf(turn) = chunk
      BY <2>1, SameChunkOf
    <3> QED
      BY <3>1, <3>2
  <2>7. Front!BehindGate(admitted[n].stream, admitted[n].ready)'
    BY <1>1, <2>5, <2>6, StillBehind
  <2> QED
    BY <1>2, <2>5, <2>7 DEF Gated
<1>5. CASE DrainOne
  BY <1>3, <1>5 DEF DrainOne
<1>6. CASE UNCHANGED <<channelVars, admitted>>
  BY <1>3, <1>6
<1> QED
  BY <1>4, <1>5, <1>6, StepKinds

LEMMA CoveredKeeps ==
  ASSUME DramInv, [Next]_vars
  PROVE  Covered'
<1>1. /\ SystemInv /\ Front!OrderInv /\ Front!TimeInv /\ [Front!Next]_(Front!vars) /\ Front!LoopInv
      /\ \A i \in DOMAIN log : Front!OwnedBy(ChunkOfEntry(log[i]).stream, log[i].complete)
  BY FrontSteps DEF DramInv, Covered, SystemInv
<1>2. /\ admitted \in Seq(Front!Chunk) /\ log \in Seq(Sched!LogEntry)
      /\ DOMAIN log = 1 .. Len(log) /\ Len(log) \in Nat
  BY <1>1, LenProperties DEF SystemInv, Tied, Sched!OrderInv, Sched!LogTyped
<1>3. ASSUME NEW i \in DOMAIN log, log'[i] = log[i],
             \A k \in DOMAIN admitted : admitted'[k] = admitted[k]
      PROVE  Front!OwnedBy(ChunkOfEntry(log[i]).stream, log[i].complete)'
  <2>1. PICK e, chunk, s, end : e = log[i] /\ chunk = ChunkOfEntry(e) /\ s = chunk.stream /\ end = e.complete
    OBVIOUS
  <2>2. e \in Sched!LogEntry /\ e.seq + 1 \in DOMAIN admitted
    BY <1>1, <2>1, LoggedChunk
  <2>3. end \in Nat /\ Front!OwnedBy(s, end)
    BY <1>1, <2>1, <2>2 DEF Sched!LogEntry
  <2>4. Front!OwnedBy(s, end)'
    BY <1>1, <2>3, OwnedKeeps
  <2>5. log'[i] = e /\ admitted'[e.seq + 1] = chunk
    BY <1>3, <2>1, <2>2 DEF ChunkOfEntry
  <2> QED
    BY <2>1, <2>4, <2>5, StillOwned
<1>4. CASE UNCHANGED <<channelVars, admitted>>
  BY <1>3, <1>4 DEF Covered, channelVars
<1>5. CASE Admit
  <2>1. PICK chunk : admitted' = Append(admitted, chunk) /\ chunk \in Front!Chunk
    BY <1>1, <1>5, TurnsCommand DEF Admit, SystemInv
  <2>2. \A k \in DOMAIN admitted : admitted'[k] = admitted[k]
    BY <1>2, <2>1, AppendProperties, LenProperties
  <2>3. log' = log
    BY <1>1, <1>5, AdmitJoins DEF Joins
  <2> QED
    BY <1>3, <2>2, <2>3 DEF Covered
<1>6. CASE DrainOne
  <2>1. PICK p, complete, e : /\ Sched!GivesBack(p, complete, e)
                              /\ Route(ChunkOfEntry(p), complete) /\ admitted' = admitted
    BY <1>1, <1>6, DrainGives
  <2>2. /\ p \in pending /\ complete \in Nat /\ log' = Append(log, e) /\ e \in Sched!LogEntry
        /\ e.seq = p.seq /\ e.complete = complete
    BY <2>1 DEF Sched!GivesBack
  <2>3. PICK n : n = Len(log) + 1
    OBVIOUS
  <2>4. /\ DOMAIN log' = DOMAIN log \cup {n} /\ log'[n] = e
        /\ \A i \in DOMAIN log : log'[i] = log[i]
    <3>1. /\ log' \in Seq(Sched!LogEntry) /\ Len(log') = n
          /\ \A i \in 1 .. Len(log) : log'[i] = log[i]
          /\ log'[n] = e
      BY <1>2, <2>2, <2>3, AppendProperties
    <3>2. DOMAIN log' = 1 .. n
      BY <3>1, LenProperties
    <3> QED
      BY <1>2, <2>3, <3>1, <3>2
  <2>5. PICK chunk, s : chunk = ChunkOfEntry(p) /\ s = chunk.stream
    OBVIOUS
  <2>6. chunk \in [c \in Channels |-> AbstractChannel][0].queue /\ 0 \in Channels
    BY <2>2, <2>5, ChannelZero, Queue DEF ChunksOf
  <2>7. Front!Route(chunk, complete)
    BY <2>1, <2>5, SameRoute
  <2>8. Front!OwnedBy(s, complete)'
    <3>1. Front!OwnedBy(chunk.stream, complete)'
      BY <1>1, <2>2, <2>6, <2>7, FrontHolds, Front!QueuedOwns DEF FrontAssumed, Front!QueuedOwns
    <3> QED
      BY <2>5, <3>1
  <2>9. admitted'[e.seq + 1] = chunk
    BY <2>1, <2>2, <2>5 DEF ChunkOfEntry
  <2>10. Front!OwnedBy(ChunkOfEntry(log[n]).stream, log[n].complete)'
    BY <2>2, <2>4, <2>5, <2>8, <2>9, StillOwned
  <2> QED
    BY <1>3, <2>1, <2>4, <2>10 DEF Covered
<1> QED
  BY <1>4, <1>5, <1>6, StepKinds

LEMMA DramKeeps ==
  ASSUME DramInv, [Next]_vars
  PROVE  DramInv'
<1>1. SystemInv' /\ [Front!Next]_(Front!vars) /\ [Sched!Next]_(Sched!vars)
  BY SystemKeeps, FrontSteps, SchedSteps DEF DramInv
<1>2. Front!OrderInv' /\ Front!TimeInv'
  BY <1>1, TimedKeeps DEF DramInv
<1>3. Sched!KnownInv'
  BY <1>1, KnownKeeps DEF DramInv
<1>4. Gated' /\ Covered'
  BY GatedKeeps, CoveredKeeps
<1> QED
  BY <1>1, <1>2, <1>3, <1>4 DEF DramInv

LEMMA DramStarts ==
  ASSUME Init
  PROVE  DramInv
<1>1. SystemInv /\ Front!OrderInv /\ Front!TimeInv /\ Sched!KnownInv
  BY SystemStarts, FrontStarts, TimedStarts, KnownStarts
<1>2. admitted = <<>> /\ log = <<>>
  BY FrontStarts DEF Init, Sched!Init
<1>3. Gated /\ Covered
  BY <1>2 DEF Gated, Covered
<1> QED
  BY <1>1, <1>3 DEF DramInv

LEMMA SameStream ==
  ASSUME NEW s
  PROVE  Front!CoreOf(s) = CoreOf(s) /\ Front!SegmentOf(s) = SegmentOf(s)
BY DEF Front!CoreOf, CoreOf, Front!SegmentOf, SegmentOf

LEMMA SameIssued ==
  ASSUME NEW e
  PROVE  Promises!Issued(e) = Sched!Issued(e)
BY Zenon DEF Promises!Issued, Sched!Issued, Promises!NoCycle, Sched!NoCycle

(* No command on behalf of a transaction behind a barrier, not even one the
   scheduler places back in time, issues before the data of every transaction
   in front of the barrier has been transferred (BarrierReachesDram).  A
   burst is owned by its transaction, the gate of a segment covers all that is
   owned in front of it, a chunk is ready no earlier than its stream's gate,
   and the scheduler issues nothing before the command is ready. *)
THEOREM BarriersReachTheDram == Spec => []BarrierReachesDram
<1>1. DramInv => BarrierReachesDram
  <2>1. SUFFICES ASSUME DramInv, NEW i \in DOMAIN log, NEW j \in DOMAIN log,
                        CoreOf(ChunkOfEntry(log[i]).stream) = CoreOf(ChunkOfEntry(log[j]).stream),
                        SegmentOf(ChunkOfEntry(log[i]).stream) < SegmentOf(ChunkOfEntry(log[j]).stream),
                        NEW a \in Promises!Issued(log[j])
                 PROVE  a[2] >= log[i].complete
    BY Zenon DEF BarrierReachesDram
  <2>2. PICK s, t, end, ready : /\ s = ChunkOfEntry(log[i]).stream /\ t = ChunkOfEntry(log[j]).stream
                                /\ end = log[i].complete /\ ready = log[j].ready
    OBVIOUS
  <2>3. SystemInv /\ Front!OrderInv /\ Front!TimeInv /\ Gated /\ Covered
    BY <2>1 DEF DramInv
  <2>4. /\ log[i] \in Sched!LogEntry /\ log[j] \in Sched!LogEntry
        /\ log[j].seq + 1 \in DOMAIN admitted
    BY <2>3, LoggedChunk
  <2>5. end \in Nat /\ ready \in Nat /\ log[j].visible \in Nat
    BY <2>2, <2>4 DEF Sched!LogEntry
  <2>6. ready = ChunkOfEntry(log[j]).ready /\ ready <= log[j].visible
    BY <2>2, <2>3 DEF SystemInv, Tied, Carries
  <2>7. Front!BehindGate(t, ready)
    BY <2>2, <2>3, <2>4, <2>6 DEF Gated, ChunkOfEntry
  <2>8. Front!OwnedBy(s, end)
    BY <2>2, <2>3 DEF Covered
  <2>9. Front!CoreOf(s) = Front!CoreOf(t) /\ Front!SegmentOf(s) < Front!SegmentOf(t)
    BY <2>1, <2>2, SameStream
  <2>10. Front!LoopInv /\ Front!SegInv /\ Front!IdInv
    BY <2>3 DEF Front!OrderInv
  <2>11. end <= ready
    BY <2>3, <2>5, <2>7, <2>8, <2>9, <2>10, FrontHolds, Front!GateCoversOwned
    DEF FrontAssumed, Front!GateCoversOwned
  <2>12. a[2] >= log[j].visible
    BY <2>1, SameIssued DEF DramInv, Sched!KnownInv, Sched!PlacedWhenKnown
  <2>13. a[2] \in Nat
    <3>1. a[2] \in {log[j].pre, log[j].act, log[j].col} /\ a[2] # Sched!NoCycle
      BY SameIssued DEF Sched!Issued
    <3> QED
      BY <2>4, <3>1 DEF Sched!LogEntry
  <2> QED
    BY <2>2, <2>5, <2>6, <2>11, <2>12, <2>13
<1> QED
  BY <1>1, DramStarts, DramKeeps, PTL DEF Spec
=============================================================================
