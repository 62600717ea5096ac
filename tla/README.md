# Verification of the DDR timing engine

TLA+ models, TLC runs and TLAPS proofs for the event-driven DDR timing engine
in `src/`. Source paths below are relative to the repository root; `core/`
abbreviates `src/src/core/`.

The engine is a simulator. Transactions are pushed per core and AXI id,
`run()` turns each into burst-sized chunks, hands the chunks to per-channel
schedulers, and reports when each transaction would have issued and completed.
Inside an engine there is one thread; what makes it hard is that *simulated*
time is not *program* time. Commands are placed in time when they are drained,
often earlier than commands placed before; results of one stream come back
while others are half admitted; a cursor (a bank's readiness, a refresh, a
reserved command-bus slot, a port) is read long after the step that set it.
Around it there are real threads: those that share an engine through the C API
with a daemon, and those of a parameter sweep.

## Inventory

| component | source | state | operations | hard behaviour | what makes it correct |
|---|---|---|---|---|---|
| `ChannelScheduler` | `core/command_queue.{cpp,hpp}`, `core/bank_state.hpp` | queue, banks, ranks, both buses, batch and streak counters, statistics | `try_admit`, `drain_one` | out-of-order service, starvation, row state judged when stale, refresh during placement, placement in the past, slots forgotten | DRAM timing between any two commands, bounded overtaking, closed bus budget |
| `Engine` | `core/engine.{cpp,hpp}` | segments per core, id cursors, event heap, ports, results, counters, windows, histograms | `push_txn`, `push_barrier`, `run`, `prune_results_before`, the summary | stale heap events, one stream draining another's chunk, barriers between pushes and runs, statistics that outlive results | per-id order, barriers, outstanding cap, nothing lost, `run` returns, exact statistics |
| C API, daemon loop | `src/src/api/ddrtiming_api.cpp`, `src/examples/daemon_demo.c` | the handle's mutex and error, the daemon's count, index and highest id | push, barrier, load, run, read by index, prune | other threads between two calls of the daemon | every result reported once, logs loaded whole |
| `AddressDecoder` | `core/address_decoder.cpp` | none | `decode`, `mapped_address_bits` | scattered and hashed bits | onto the topology's locations, injective on mapped bits |
| Configuration | `core/config.cpp`, `core/config_presets.cpp` | the record | load, presets, `validate` | presets, defaults and explicit values together; what `validate` lets through | accepted mappings work, presets fill the DRAM |
| Log parser | `core/log_parser.cpp` | none | `parse_axi_log_file` | a bad row late in the file | all or nothing |
| Sweep tool | `src/tools/ddrtiming_sweep.cpp` | the counter, trees, files, rows | plan, worker threads, report | JSON values share storage; points fail | row N is point N, failures stay in their row |
| Reports, JSON, SHA-256 | `core/report.cpp`, `core/json.cpp`, `core/sha256.cpp` | none | formatting | - | out of scope |
| Other tools | `src/src/cli`, `src/tools/golden_check.cpp`, `src/tools/windowed_history_analyze.cpp` | none of the engine's | drivers over the API, offline analysis | - | out of scope |

The CLI, the sweep's threads and the daemon call the API or the engine
directly; the API owns an `Engine` behind a mutex; the engine owns the
`ChannelScheduler`s, decodes each chunk's address with `AddressDecoder`, calls
`try_admit`/`drain_one` on the chunk's channel, and gets each drained chunk
back for `route_completed_chunk`. Nothing calls back.

## Modules

The scheduler:

* `DramTiming` - the arithmetic, as pure operators over the configuration
  record `Cfg`. Durations are integers in a unit of which `Cfg.clock` make a
  model cycle and `Cfg.ns` a nanosecond, so a fraction of a nanosecond exists.
  The refresh loop of `apply_refresh_if_due` is written in closed form (the
  last boundary not after the command), the slot search of `reserve_cmd_slot`
  as the first free start.
* `RefreshLoop` - that refresh loop as the loop it is, one step per pass, from
  configurations for which it ends and others.
* `ChannelScheduler` - one channel: an action `TryAdmit` per call of
  `try_admit` that returns true, an action `DrainOne` per call of `drain_one`.
  The members of the class are the variables, under their names. `pending_` is
  a set whose entries carry their sequence number: the vector's order is
  exactly that order. `log`, a history variable, keeps what each drain decided
  and placed; no action reads it. The caller's part (which commands it admits,
  with which ready cycles) is the constants `Requests`, `Arrivals` and
  `InOrderArrivals`; `Admissions`, the sequence numbers it may reach, bounds a
  behaviour.
* `ChannelProperties` - the type invariant and the properties, stated over
  `log` and never over the cursors the scheduler steers by.

The engine:

* `FrontEnd` - the engine without its channels: pushes, barriers, pruning, and
  the parts of `run()` up to and after the calls into a channel.
* `Statistics` - histograms, nearest-rank percentiles, latency buckets.
* `Engine` - `FrontEnd` over abstract channels: a bounded queue that returns
  any of its chunks next, at any later cycle at which its data bus is free.
  This is the specification of a channel the front end relies on.
* `EngineProperties` - type invariant and properties; those about results are
  stated over the calls made and the results reported only.
* `System`, `SystemProperties` - `FrontEnd` over one `ChannelScheduler`; every
  cycle is the one the program computes, and all nondeterminism is in the
  calls. It refines `Engine`.
* `EngineCalls` - what an engine promises its callers: a run is one step that
  finishes all that was pushed, pruning takes away results and nothing else.
  `Engine` refines it.

Around the engine:

* `Api`, `ApiProperties` - an `EngineCalls` behind the handle's mutex, threads
  that push, load logs and run, and the daemon's loop.
* `Configuration` - what a parsed configuration file comes to: presets,
  sections over defaults, `validate()`. An object is a function from its keys.
* `AddressMap`, `AddressMapProperties` - a file is loaded or refused, and
  transactions are pushed: `decode` and the count of high regions.
* `Sweep`, `SweepProperties` - the pool of threads over the points of a sweep.
  A `json::Value` is a reference into `heap`, so that a shallow copy exists.

`MCChannel`, `MCRefresh`, `MCEngine`, `MCSystem`, `MCApi`, `MCMapping` and
`MCSweep` give the instances for TLC. `ChannelProofs`, `RefreshLoopProofs`,
`LoopProofs`, `EngineProofs`, `SystemProofs`, `ApiProofs`, `MappingProofs` and
`SweepProofs` hold the theorems.

Operators marked "Mutant" stand next to the definition they break; each is a
plausible bug, and each property below is violated by one of them.

The refinements make one chain: `System` implements `Engine`, `Engine`
implements `EngineCalls`, and `Api` runs on `EngineCalls`. So what `Api`
assumes of an engine is what the engine's model was proved to do, and what
`Engine` assumes of a channel is what the scheduler's model was proved to do.

### How the engine's state and steps correspond to the code

| model | code |
|---|---|
| `segments[core]`, `cursors[<<core, segment, axi>>]` | `segments_`, `Segment::by_id`; a cursor exists once something was pushed to it |
| `cursors[s].outstanding` | the multiset `IdCursor::outstanding`: a set of completion cycles, each with the transaction it is of, so that equal ones count apart |
| `heap` | `heap_`; a set, since a stream never has two events (`EventsHaveWork`), ordered by `Precedes` as by `Event::operator>` |
| `turn` | the popped event, between its pop and the admission of its chunk |
| `Reschedule`, `Issue`, `Resume` | the three ways an iteration of `run()` starts: a stale event, a new transaction, the next chunk of one |
| `MakeRoom`, `DrainIdle` | the two calls of `drain_one`, each with all of `route_completed_chunk` and `finalize_in_progress_txn` |
| `Admit` | `try_admit` and the push of the continuation |
| `Return` | the end of the `while`, and `compute_summary` |
| `totals`, `runtimes`, `bursts`, `windows` | the `cum_` counters, `core_runtime_`, `core_burst_histogram_`, `windows_`: none is touched by pruning |
| `summary.latency_percentile2` | squares of the percentiles: a bucket's upper edge is a power of the root of two |
| `calls`, `finished`, `channels[ch].served`, `System!admitted` | history of what was pushed, finished, served and admitted; `admitted` also stands for the routing fields a `DramCommand` carries |

One call of `run()` is many steps, but pushes and pruning are only enabled
between runs: the handle's mutex sees to that. Chunk addresses are window
numbers (`addr / chunk_bytes`), which `ChannelOf` and `Decode` map to channel,
bank and row. `run()` on an engine with an empty heap changes nothing and is
not an action.

### The layers around it

| model | code |
|---|---|
| `Free`, `owner` | the `lock_guard` of every API function: calls that touch the engine once are one step, `ddrt_load_log_file` is `BeginLoad` and a `LoadEntry` per row |
| `LoadMalformed` | the parser throws before anything is pushed |
| `pc`, `n`, `i`, `max_id` | the locals of `drain_report_and_prune`; between two of its calls it holds no lock |
| `ResultAt` past the end | `ddrt_get_result_at` fails, the demo ignores that, and its record is uninitialised: any value |
| `ConfigOf`, `Accepted` | `load_from_file`, and that it does not throw |
| `ExpandDram`, `ExpandMapping` | the two preset expansions, in the code's order of precedence |
| `pushed`, `high_address_regions` | `push_txn` as far as addresses go; a region is the bits above the mapped ones |
| `heap`, `point_cfg` | the trees of a sweep, and which one a thread's `point_cfg` leads to |
| `Claim` ... `Run` | an iteration of a worker, apart at every point where another thread may come in between |

## Runs

Cycles are nanoseconds (`Base`), durations are small but keep the inequalities
`validate()` enforces, and a command holds the command bus for two cycles as
in the code. Bursts last two cycles.

| run | question | bounds, and why they are enough |
|---|---|---|
| `batch` | do the starvation, page-match and batch limits hold over whole histories, does the direction filter preserve order and progress, do column, row and recovery timings hold, is nothing placed before it was known, does the bus budget close? | limits of 2, high mark 2, minimum 2, queue of 3, 5 commands over two bank groups and two rows, two ready cycles: each limit is reached, and exceeded by one in the mutants; hits, conflicts, empties, both turnarounds, a full queue and an idle gap occur |
| `refresh` | does a refresh, or the idle timer, ever leave a row that is hit, is a refresh respected by all row operations, are forgotten slots never needed? | refresh every 12 cycles, timer of 3, two ranks, ready cycles before, at and after a boundary, 4 commands |
| `closed` | does the automatic precharge, never a command, keep tRTP/tWR, tRAS, tRP, and do tRRD and tFAW hold on the final ACT cycles? | 5 commands, each an ACT (tFAW needs 5), three banks of two groups; columns made fast so that row timings decide |
| `rounding` | violation: a PRE before tRTP has passed | tRTP of 2.5 ns on a 0.5 ns clock |
| `refresh_push` | violation: an ACT inside a refresh window | as `refresh`, without the timer |
| `hang` | violation: the refresh loop is not left | tREFI of zero |
| `engine` | does everything the engine reports follow from the calls made: order, whole service, cap, barriers, windows, waits, percentiles; does `run()` return; do callers see `EngineCalls`? | 4 pushes or barriers, and prunings, around any number of runs; two streams, cap of 2 (reached by 3 pushes); two channels of depth 1, so every second admission drains, with delays 1 and 4 against 2 so that either may be ahead; a transaction that straddles two windows and one of no size; windows of 3 cycles; 5 latency buckets, so that the last one saturates |
| `system` | does the program implement `Engine`; do barriers hold for every DRAM command? | 4 pushes, two cores, a burst over two banks, a conflicting row and a write, queue of 2, starvation limit 1 |
| `forgotten` | violation: two commands in one slot of the command bus | 5 pushes, two cores, three banks |
| `api` | is every result reported once and in the end, is a log loaded whole, whatever threads do between the daemon's calls? | 2 threads, 4 pushes, two logs, one with a barrier between its rows and one malformed; blank lines before and after the header |
| `mapping` | do accepted mappings reach every location and no other, is aliasing counted, do presets fill the DRAM? | 8-bit addresses, all 256 of them decoded; some 650 files: two parts, three presets, 1 to 3 channels, overridden, scattered, overlapping and hashed fields; two pushes within and across regions |
| `sweep` | is every row its own point, does a sweep report whatever fails? | up to 3 threads; up to 4 points of 2 or 3 axes, a path inside another's, an axis of no values, fewer points than threads, refused points, a baseline that failed or is none |

`CHECK_DEADLOCK FALSE` stands where pushes and admissions are bounded, so a
behaviour ends when the last one is served. `engine` checks deadlock: between
runs a pruning is always possible, and inside `run()` the loop can always go
on.

### Fairness

* `engine`: weak fairness of `Loop` as far as it moves control. `run()` is a
  `while` loop of one thread, which keeps taking steps once entered. Nothing is
  assumed of callers or of the choice a channel makes.
* `hang`: weak fairness of the loop's pass, for the same reason.
* `api`: weak fairness of the daemon, whose loop keeps calling, and of a load
  that already holds the lock. Other threads make a bounded number of calls;
  `std::mutex` promises no order among those who wait, and none is assumed.
* `sweep`: weak fairness of each worker and of `main`, which the operating
  system's scheduler gives each thread; workers never wait for one another.

In `System` a core with several channels cannot be reached: it has one
channel. What several channels add (chunks of a transaction returning in any
order) is in `Engine`, whose channels may do more than schedulers can;
`ImplementsEngine` shows that the real scheduler stays within it. `Delay` is
the set of delays the refinement may use: in the run up to 60 cycles, which is
above every delay of the instance, in the proof any.

### Findings

* `rounding`: `core/command_queue.cpp:612` puts tRTP/tWR through a
  `uint64_t` number of nanoseconds before rounding *up* to cycles; with the
  default tRTP of 7.5 ns a PRECHARGE can be placed half a nanosecond early.
* `refresh_push`: in `place_activate` the command-bus search comes after the
  last refresh check, so an ACT can be pushed into the window the comment says
  it must not fall in. `RefreshYieldsOnlyToContention` shows contention is the
  only way in.
* `hang`: `validate()` accepts a tREFI of zero, and the summary provides for
  one ("if (cfg_.tREFI > 0.0)", `core/engine.cpp:635`), but the refresh loop
  then never moves its cursor. A tRFC of at least tREFI, accepted too, moves
  the command on as fast as the cursor.
* `forgotten`: `prune_cmd_bus_slots` drops a slot once no admission and no
  queued command can ask for an earlier cycle, on the premise that the
  engine's heap pops events in non-decreasing order. It does not:
  `finalize_in_progress_txn` pushes the successor of a finished transaction
  at that stream's own cycle, after later events (of a core behind a barrier,
  or of a stream at its cap) were popped and admitted. The slot of the
  stream's finished column command is already forgotten, and the successor's
  ACTIVATE, which may go as early as that very cycle, is placed on it. While
  ready cycles do not decrease, `CommandBusExclusive` holds, which is proved.

Read on the way, without a run of their own:

* `core/command_queue.hpp:112-116` calls `ready_cycle` a tie-break and "never
  ... a hard \"not before this cycle\" gate"; `pick_best_index` considers only
  commands ready by `decision_cycle()` (`core/command_queue.cpp:130-135`).
* `src/README.md:191` documents `"hash_bits": [...]` for a mapped field; the
  loader reads `"hash_start"` and ignores the former.
* `src/README.md:142` has an explicit value win over a preset's; a topology key
  on the `dram` object that the preset also sets loses
  (`core/config_presets.cpp:106-119` sets the preset's first).
* `src/README.md:192` has tRC follow tRAS and tRP where it is omitted; with a
  `dram` preset the preset's own tRC counts as given (`core/config.cpp:72`), so
  a file that raises tRAS alone is refused. The `mapping` run loads such files.
* A hash source above all gathered bits counts as a mapped bit
  (`core/address_decoder.cpp:21-28`), which makes the regions above it fewer.
  `AliasingReported` and `EveryLocationOnce` are stated for the documented use:
  hash sources are bits of fields that are not hashed themselves.
* With a single row the columns above a preset's last field are not mapped, so
  `PresetFillsDram` is about more than one row.
* The bytes a window delivers belong to the window of the transaction's
  completion, whole (`core/engine.hpp:170-181`): a window shorter than a
  transaction can still exceed the peak that `src/README.md:479-482` calls a
  physical impossibility.

## Proofs

Each theorem holds for every value of the constants, under the named
assumptions of the modules, which TLC evaluates in the runs.

**The scheduler.** `ChannelProofs` first proves what the operators return:
conversions and refresh progress are natural numbers, a refresh leaves the
cursor ahead of the command, and a free command-bus slot always exists and the
search returns it (`ReserveSlotFree`) and no later one (`ReserveSlotFirst`);
existence needs the reserved slots to be bounded above (`BoundedHasGreatest`).

Then, for every topology, timing set, page and write policy, limit
and admission sequence, in or out of order:

* `TypeCorrect`: `Spec => []TypeOK`. Cycle arithmetic never leaves the
  naturals, so the unsigned subtractions of the code never wrap.
* `BudgetAlwaysCloses`: `Spec => []BudgetCloses`. Busy cycles plus the seven
  attributed idle causes are exactly the cycle the data bus becomes free.

Both come from the inductive invariant
`IInv == TypeOK /\ SlotsBounded /\ BusStartsAtZero /\ BudgetCloses`.
`SlotsBounded` (the reserved slots have an upper bound) is what makes the slot
search succeed, without which a drain's placement has no type;
`BusStartsAtZero` is the base of the budget before the first drain. The
argument for the budget is `ChargeIsBubble`: whatever binds the column
command, the charges of one drain add up to the gap it left on the bus.

The four limits of the arbitration are stated over a channel's whole history,
while the code keeps a counter per entry and two per channel; each needs an
invariant that ties the counters to the history. All build on `OrderInv`:
sequence numbers count admissions, and an older entry has been passed over at
least as often as a younger one.

* `StarvationBounded` (`BoundedOvertaking`), from `OvertakingInv`: the skip
  counter of a queued command has counted every younger one preferred to it.
* `RowsServedInOrder` (`SameRowInOrder`), from `RowOrderInv`: no command
  waiting was passed over for a later one to its own row.
* `StreaksEnd` (`PagematchCapped`), from `StreakInv`: a streak of hits that
  still goes on has been counted, on the bank it names.
* `BatchesServeTheirMinimum` (`BatchServesMinimum`), from `BatchInv`: in a
  batch that neither starvation nor the low mark has interrupted the drain mode
  is on, and no more writes are counted than it has served.

Its second half relates the commands of a channel's whole history:

* `ColumnsKeepTheirDistance`: `Spec => []ColumnSpacing`, from
  `SpacingInv == IInv /\ LogTyped /\ CursorsCover /\ ColumnSpacing`.
  `CursorsCover` says the few cursors the code keeps (the bus, the last column,
  the last write) lie beyond *every* earlier drain, not only the last, with the
  turnaround already in for those of the direction the bus has left.
* `NothingPlacedTooEarly`: `Spec => []PlacedWhenKnown`, from `KnownInv`, which
  adds `VisibleInTime`: an entry became visible no earlier than it was ready
  and no later than a drain that has happened.
* `CommandBusStaysExclusive`: if `InOrderArrivals`, then
  `Spec => []CommandBusExclusive`, from
  `SlotInv == KnownInv /\ SlotsRemembered /\ CommandBusExclusive`. Every slot
  ever used is still reserved or lies `Behind` what is queued and what may yet
  be admitted; that is the soundness of the pruning horizon, and the exact
  premise that the `forgotten` run shows the engine does not keep.
* All on banks and ranks build on `PlaceInv`: refresh cursors stand at
  boundaries no further than a period past the last column command, a bank
  takes its next PRE and ACT after the last refresh, and an open one was last
  used after it.
* `RowsKeepTheirCycle` (`RowCycle`), `RecoveriesAreRespected`
  (`RecoveryRespected`) and `HitsFindTheirRow` (`HitsAreReal`) come from
  `HistoryInv == BankInv /\ BankHistory`. `BankInv` says what a bank remembers
  of the drain that last used it and of the ACT that opened that row: when it
  takes a PRE, and, once closed, an ACT, unless a refresh came in between.
  `BankHistory` says that any two successive drains of a bank are apart.
  tRC is never read: two ACTs with no refresh between them are tRAS + tRP
  apart because nothing but a precharge closes a row.
* `RecoveriesAreRespected` assumes `WholeRecovery` (tRTP and tWR are whole
  nanoseconds); the `rounding` run shows it cannot be dropped. An ACT with a
  refresh between the last column command's decision and itself is exempt: the
  refresh closes the row without reading its recovery.
* `ActivatesAreSpaced` (`ActivateSpacing`), from `WindowInv`: every ACT of a
  rank's history is still remembered, or the newest remembered one is tFAW
  behind it.
* `RefreshYieldsToTheBus` (`RefreshYieldsOnlyToContention`), from `YieldInv`:
  every reserved slot is a command of some drain, and a drain's command gets
  the first free one from a cycle clear of refresh.

The scheduler's proofs assume `DurationsAssumption`, `SlotAssumption`,
`TopologyAssumption`, `PolicyAssumption` and `CallerAssumption`, which
`validate()` or types enforce, and `RefreshAssumption` (tRFC in cycles is below
tREFI), which nothing enforces and without which the `hang` run shows the loop
does not end.

`RefreshLoopProofs`: `LoopComputesClosedForm` - under `RefreshesEnd` the loop,
when left, has computed what `ApplyRefresh` and `Refreshed` say of its entry.
The invariant is that the closed form of what is left equals the closed form of
the entry; a pass takes one period off the number left. It closes the gap
between the loop in the code and the operator every other proof uses.

**The engine.** `LoopProofs` (the loop, what it forgets and the order it keeps) and
`EngineProofs` (the cap, the waits, the types, whole service and the callers), for
every set of cores, ids, channels and transactions, every queue depth, cap and
number of calls and runs:

* `StreamsKeepTheirEvents` (`EventsHaveWork`), from `LoopInv`. At any time a
  stream is in one of three states, told by its cursor, its events, the turn
  and its chunks in the channels: it is *idle* and none of these is there; it
  is *waiting* with one event to start its next transaction; or its transaction
  is *issued*, so many chunks are admitted, so many of these are back, the
  others are in flight, and one event or turn is there for the next one if any
  is left. Each of the eleven steps moves one stream from one state to the
  next (`PushState`, `IssueState`, ... `FinalState`, `WokenState`) and leaves
  the others where they are.
* All that follows reasons about five *kinds* of step (`StepKinds`): a
  transaction is pushed, a barrier is pushed, one is issued, one finishes, or
  none of it. Each names exactly what it changes, and the invariants below need
  one lemma per kind.
* `TransactionsAreNotForgotten` (`NothingForgotten`), from `SegInv` (the gates
  of a core's segments are known up to some segment, what lies in front of a
  known gate is over, and an unknown gate has work in front of it), `IdInv`
  (every id is held by one stream, pending or over, in ascending order) and
  `PlaceInv` (and by the stream and segment of its call). When the loop ends no
  stream before its gate has work, so by `SegInv` all gates are known
  (`AllKnown`), and so nothing is left behind one.
* `OneIdStaysInOrder` (`SameIdInOrder`) and `BarriersAreRespected`
  (`BarrierRespected`), from `TimeInv`: what is over was issued before its
  core's port is free, and is covered by its stream's last completion, by its
  segment's and by every known gate behind it.
* `StreamsStayUnderTheirCap` (`OutstandingCapped`), from `CapInv`: a stream
  remembers each completion that may still be to come at its latest issue, and
  those are at most `MaxOutstanding`. The property counts across the segments
  of a core, each with a memory of its own: `TimeInv` lets no transaction of an
  earlier segment still be in flight.
* `WaitsAreForTheCap` (`WaitExact`), from `WaitInv`: a gate is zero or a
  completion in front of it, a port zero or behind an issue of its core, what a
  stream remembers is of transactions of its own, and for what has been issued
  the property holds already, with everything that has been issued in place of
  what is over: what ends later was issued no earlier and is not in front.
* `MembersKeepTheirTypes` (`TypeOK`), from `LoopInv`, which types the loop, and
  `StatInv`, which types what the loop writes and does not read: queues stay
  within their depth because a chunk is admitted only where there is room, and
  windows, totals, histograms and runtimes stay naturals because a result adds
  naturals to them and no transaction ends before it was issued.
* `TransactionsAreServedWhole` (`ServedWhole`), from `ServedInv`: for the
  transaction a stream has issued, the windows served and those in flight are
  its first ones, as many as `Admitted` counts, each once and at its own
  channel, the served ones complete between its issue and the latest completion
  kept; what is over has all its windows served; and the channels have served
  nothing of a transaction that was never issued. A step leaves the chunks
  alone, issues, admits or serves (`ChunkKinds`), so there is one lemma for each.
  `WindowsTouched` closes the arithmetic: `NumChunks` windows from
  `FirstWindow` on are exactly those some byte lies in.
* `CallersSeeWholeRuns` (`ImplementsCalls`): `Engine` refines `EngineCalls`.
  Pushes, barriers and prunings map to the abstract ones, every step of `run()`
  but its last to a stutter, and the return to one `Run`, which finishes all
  that was pushed, each once and in an order its core's barriers and its
  stream allow. Callers see the first `Len(results) - (txns - total_txns)`
  results, those there were when the last run returned; `SeenInv` says they
  are what is left of those that were over then, and all later ones are at the
  end in the order they finished.
* `BusTimeIsShared` (`BusTimeShared`), from `BusInv`: a channel's last data
  burst belongs to some chunk served, and no chunk served ends after the latest
  completion. When the loop ends all work is over (`ServedInv`), so the
  trailing idle time is never cut off at zero.
* `PercentilesAreAccurate` (`PercentilesAccurate`). `CountsBy` says a histogram
  holds, for each key, how many observations fall under it; `LatencyInv`,
  `BurstInv` and `ReportInv` say so of each core's latencies, its burst sizes
  and the report of the last run. `RankedKey` then is about any histogram whose
  keys rise with the observed values: the key it finds at a rank is that of the
  true percentile. For burst sizes the key is the value; for latencies
  `BucketMonotone` shows the buckets rise and `EdgeIsNear` that the edge
  reported is at most half an octave above.
* `WindowsAreExact` (`WindowsExact`), from `WindowInv`: what a window offered is
  what the results issued in it say, what it delivered what the results that
  ended in it say, and its occupancy the most any of these found in flight. The
  counter is the size of what a stream remembers; by `LiveInv` and `CapInv`
  that matches its results in flight one to one.
* The last three need sums: `SumOf` folds in an order it chooses, and its lemmas
  (`SumRemove`, `SumAdds`) say how a sum changes when one value comes, goes or
  changes. They are proved from a least counterexample, since the library's
  induction theorems cannot be instantiated.

Assumed: `FrontEndAssumption` (constants are of their types, the cores are
finitely many), `ChannelAssumption` (finitely many channels, the windows of a
transaction decode to them, queues hold at least one, a chunk takes at least
one cycle) and `BucketsAssumption` (there is a latency bucket).

**The engine over its scheduler.** `SystemProofs` instantiates `LoopProofs` with
channels read off the scheduler (`AbstractChannel`) and `ChannelProofs` with
the engine as its caller, and proves `SystemImplementsEngine`
(`ImplementsEngine`). The invariant is `SystemInv ==
Front!LoopInv /\ Sched!OrderInv /\ Tied`; the first two are kept because every
step of `System` is one of `Engine` and one of the scheduler, or leaves it
alone. `Tied` says what the scheduler does not know: the command with sequence
number n is for the nth chunk admitted, waits for the cycle that chunk waits
for, has its bytes, and no two that wait are for one chunk; and busy cycles are
the bursts of the chunks served. An admission is `Engine`'s because the turn's
chunk waits nowhere yet (`TurnChunk`) and decodes to a command the scheduler
accepts; a drain, because what it gives back (`DrainGivesBack`) was waiting and
completes after it was ready and after the bus was free; the return, because
the attributed cycles add up to the end of the data (`BudgetCloses`), which is
all that the statistics read of a channel. Assumed, besides what the two
modules assume of their constants: `DecoderAssumption` (windows decode to banks
and rows of the channel, and a burst is a whole number of bus words) and that a
chunk may take any number of cycles.

`BarriersReachTheDram` (`BarrierReachesDram`), without that last assumption, is
where the two halves meet. `DramInv` adds to what was proved of each half
(`TimeInv` of the gates, `KnownInv` of when commands are placed) that every
chunk admitted is ready no earlier than its stream's gate (`Gated`), and that
every burst in the log is owned by a transaction of its stream, in service or
over, that ends no earlier (`Covered`). A burst once owned stays owned
(`OwnedStays`) and a gate once known stays as it is (`GatesStay`), across
pushes, barriers, wake-ups and the end of the transaction itself. A known gate
has nothing in service in front of it, so all that is owned there is over, and
the gate covers it (`GateCoversOwned`): the scheduler, which places no command
before its chunk is ready, cannot reach back across it.

**The callers.** `ApiProofs`, for every number of threads, logs and calls:
`DaemonLosesNothing`, `DaemonReportsOnce` and `LogsLoadWhole`. `ApiInv` says of
the daemon between its calls: those before `i` are reported and no others,
`max_id` is the highest of those, and all results it did not count are younger
than all it did (`Draining`), since a run that comes in between finishes only
ids above those already over. That is why pruning up to the highest reported id
is safe, and why the indices stay valid. `LoadInv` says a load in progress has
pushed exactly the entries it no longer has to push, with no call after them.
Assumed: `CallsAssumption`, `ApiAssumption`, `LogsAssumption`.

**Mappings.** `MappingProofs`, for every address width, topology and file:
`AcceptedMappingsCover` builds, for a location, an address that decodes to it,
first the bits of fields that are not hashed, then the others XORed with their
sources; no recursion is needed because sources are unhashed.
`AliasingIsReported` shows that two addresses of one DRAM byte agree on all
bits below the mapped ones' end (a hashed bit is recovered from its source), so
they differ in their region, and both regions are noted, or the tracking is
full, which is more than one too. `PresetsFillTheDram`: every count of an
accepted topology is a power of two and `width_for` its exponent
(`WidthIsExponent`), a preset lays five fields and the column gap out end to
end (`FieldsAreLaid`, one lemma for the three orders), and two to the sum of
the widths is the product of the counts (`PowerOfSum`). Assumed:
`AddressAssumption`, `FilesAssumption` (field bits are vectors),
`RangesAssumption`, `BurstAssumption` (the bytes of a burst fit the `int` that
`config_presets.cpp:182` multiplies them in).

**Sweeps.** `SweepProofs`: `PointsStayApart` (no two threads work on one point
or one tree, and the base stays as given) and `RowsAreFinal` (a row once
written is never written again), for every number of threads and points, from
`SweepInv`: what is claimed is below the counter, and what is unclaimed or
still worked on has no row. `RowsAreTheirPoints` adds that row N is point N of
the product. `SweepInv` cannot say that, for it forgets how far a thread is:
`RowsInv` says that a thread's tree is the base with the values of its point up
to the axis it is at, its file has all of them, and a claimed point has its row
or a thread that works on it; every thread having joined, and there is one, the
counter is past every point. That the divisions of `point_axis_indices` then
name the Nth vector of the nested loops, which the property counts and the code
does not, is arithmetic: the strides are the weights of a mixed radix
(`StridesAreWeights`), smaller points have earlier digits (`DigitsInOrder`),
every vector is the digits of a point (`DigitsMakePoint`), and so N vectors
come before the Nth (`PointsBefore`, `ValuesAreNth`). The recursion of
`Strides` and `TreesWith` is a function over the axes, whose existence
`StepsMakeFunction` takes from a least counterexample. Assumed:
`SpecsAssumption` (there is a thread; axes and their values are lists).

### What only TLC checks

Liveness (`RunReturns`, `EverythingReported`, `SweepReports`), which is beyond
the prover.

## Not modelled

* Engine: the row-status rates, the per-channel, bank-group and active-bank
  fields of a window, and the three config-only ceilings. They are sums and
  quotients that no later step reads. Floating-point results (bandwidths,
  percentages) are quotients of modelled counters.
* API: creation and destruction of a handle, the getters of windows and
  per-core statistics, and the lifetime of the string `ddrt_last_error`
  returns, which is below the model.
* `AddressDecoder`: the column, which is informational. `decode` enters the
  engine's models as the constants `ChannelOf` and `Decode`.
* Configuration and parser: the text of messages, JSON values of a type that
  does not convert, trimming and number conversion.
* Sweep: option and specification text; two sweeps that share an output
  directory and so the files in its `.sweep_tmp`.
* Reports, JSON, hashing, the CLI, `golden_check` and
  `windowed_history_analyze` format, read or compare text around the engine in
  one pass and keep no scheduling state.

## What could follow

An abstract channel that `ChannelScheduler` alone refines (a bounded pool whose
bursts never overlap), so that the refinement of `System` follows from the
scheduler's.
