------------------------------ MODULE FrontEnd ------------------------------
(***************************************************************************)
(* The front end of the engine (class Engine): transactions pushed per     *)
(* core and AXI id, barriers between them, the event heap that decides     *)
(* whose chunk is admitted next, and the finalisation of a transaction     *)
(* once all its chunks have come back from the channels.                   *)
(*                                                                         *)
(* run() is a loop of one thread.  One iteration is split where it calls   *)
(* into a channel: an event is popped (and its transaction issued), room   *)
(* is made by draining the channel if it is full, the chunk is admitted.   *)
(* `turn` is the event between its pop and its admission.  The channels    *)
(* themselves belong to the modules that extend this one: Engine, with     *)
(* channels that may return any queued chunk, and System, with a           *)
(* ChannelScheduler.                                                       *)
(***************************************************************************)
EXTENDS Sequences, Statistics

CONSTANTS
  Cores, AxiIds,      \* core_id and axi_id values, ordered as numbers
  Channels,
  ChannelOf(_),       \* the channel an address window decodes to
  ChunkBytes,         \* bytes of one burst: data_bus_bytes * burst_beats
  MaxOutstanding,     \* max_out_
  HistoryWindow,      \* history_window_cycles_, 0 when disabled
  Txns,               \* the transactions callers may push
  MaxCalls            \* bound on the calls made between runs

VARIABLES
  segments,           \* segments_: per core, the runs between barriers
  cursors,            \* Segment::by_id, keyed by <<core, segment, axi id>>
  port_free,          \* core_port_free_cycle_
  heap,               \* heap_
  results,            \* results_: the transactions finished and not yet pruned
  windows,            \* windows_
  totals,             \* the cum_ counters
  runtimes,           \* core_runtime_
  bursts,             \* core_burst_histogram_
  summary,            \* summary_, as the last run() left it
  running,            \* inside run()
  turn,               \* the event whose chunk is being admitted
  calls,              \* history: the calls made between runs so far, in order
  finished            \* history: all that was ever appended to results

(* What run() steers by, and the statistics it keeps on the way. *)
controlVars ==
  <<segments, cursors, port_free, heap, results, bursts, running, turn, calls, finished>>
statisticVars == <<windows, totals, runtimes, summary>>

frontVars == <<controlVars, statisticVars>>

ASSUME FrontEndAssumption ==
  /\ Cores \subseteq Nat /\ IsFiniteSet(Cores) /\ AxiIds \subseteq Nat
  /\ ChunkBytes \in Nat \ {0} /\ MaxOutstanding \in Nat \ {0}
  /\ HistoryWindow \in Nat /\ MaxCalls \in Nat
  /\ \A t \in Txns : {t.addr, t.size_bytes, t.len_beats} \subseteq Nat /\ t.type \in {"Read", "Write"}

-----------------------------------------------------------------------------
(***************************************************************************)
(* Streams and transactions.                                               *)
(***************************************************************************)
CoreOf(s) == s[1]
SegmentOf(s) == s[2]
AxiOf(s) == s[3]

NewSegment(known, gate) ==
  [gate_known |-> known, gate_cycle |-> gate, max_complete |-> 0, closed |-> FALSE]

NoProgress ==
  [txn_id |-> 0, issue_cycle |-> 0, outstanding_wait_cycles |-> 0, first_window |-> 0,
   num_chunks |-> 0, chunks_dispatched |-> 0, max_complete |-> 0]

(* outstanding is a multiset of completion cycles: each with the transaction it
   is of, so that equal ones count apart. *)
NewCursor ==
  [pending |-> <<>>, outstanding |-> {}, queued |-> FALSE, last_complete_cycle |-> 0,
   in_progress |-> NoProgress]

(* The bytes of a burst, and those served for it: one of no size is smallest. *)
BurstBytes(txn) ==
  IF txn.len_beats = 0 THEN txn.size_bytes ELSE txn.size_bytes * txn.len_beats
TotalBytes(txn) == Later(1, BurstBytes(txn))

(* Mutant: the chunks are counted from the address, not from its window. *)
NumChunksUnaligned(txn) == (TotalBytes(txn) + ChunkBytes - 1) \div ChunkBytes

FirstWindow(txn) == txn.addr \div ChunkBytes
NumChunks(txn) == (txn.addr + TotalBytes(txn) - 1) \div ChunkBytes - FirstWindow(txn) + 1

(* Mutant: one transaction more than the cap is let through. *)
IdGateOverCap(c) ==
  IF Cardinality(c.outstanding) > MaxOutstanding
  THEN Min({o.complete : o \in c.outstanding}) ELSE 0

(* The cap on a stream: once reached, the earliest completion must pass. *)
IdGate(c) ==
  IF Cardinality(c.outstanding) >= MaxOutstanding
  THEN Min({o.complete : o \in c.outstanding}) ELSE 0

(* The cycle stream s, with cursor c and behind barrier gate, may issue at. *)
IssueCycle(s, c, gate) == Later(Later(port_free[CoreOf(s)], IdGate(c)), gate)

GateOf(s) == segments[CoreOf(s)][SegmentOf(s)].gate_cycle

-----------------------------------------------------------------------------
(***************************************************************************)
(* The event heap: least ready cycle first, then core, segment and id.  It *)
(* is a set: no stream ever has two events in it (EventsHaveWork).         *)
(* chunk is 0 to start the stream's next transaction, otherwise the chunk  *)
(* of the one in progress to admit next.                                   *)
(***************************************************************************)
Event(ready, s, chunk) == [ready |-> ready, stream |-> s, chunk |-> chunk]

StreamPrecedes(s, t) == \E i \in 1 .. 3 : s[i] < t[i] /\ \A j \in 1 .. i - 1 : s[j] = t[j]

Precedes(e, f) == 
  \/ e.ready < f.ready
  \/ e.ready = f.ready /\ StreamPrecedes(e.stream, f.stream)

Top == CHOOSE e \in heap : \A f \in heap \ {e} : Precedes(e, f)

NoTurn == [ready |-> -1]

(* The chunk an event admits. *)
ChunkOf(ev) ==
  LET ip == cursors[ev.stream].in_progress
  IN  [stream |-> ev.stream, txn_id |-> ip.txn_id, window |-> ip.first_window + ev.chunk,
       ready |-> ip.issue_cycle]

-----------------------------------------------------------------------------
(***************************************************************************)
(* The calls of the API, made between runs.                                *)
(***************************************************************************)
(* enqueue_if_ready: a cursor with work gets an event unless it has one or its
   segment still waits for a barrier. *)
NeedsEvent(c, known) == known /\ ~ c.queued /\ c.pending # <<>>

(* A histogram with one more observation. *)
Counted(hist, v) ==
  [u \in DOMAIN hist \cup {v} |->
     (IF u \in DOMAIN hist THEN hist[u] ELSE 0) + (IF u = v THEN 1 ELSE 0)]

PushTxn(core, axi, txn) ==
  LET segs  == IF segments[core] = <<>> THEN <<NewSegment(TRUE, 0)>> ELSE segments[core]
      s     == <<core, Len(segs), axi>>
      old   == IF s \in DOMAIN cursors THEN cursors[s] ELSE NewCursor
      id    == Cardinality({i \in DOMAIN calls : calls[i].kind = "txn"}) + 1
      c     == [old EXCEPT !.pending = Append(@, [txn_id |-> id, txn |-> txn])]
      known == segs[Len(segs)].gate_known
      wakes == NeedsEvent(c, known)
  IN  /\ ~ running
      /\ Len(calls) < MaxCalls
      /\ calls' = Append(calls, [kind |-> "txn", core |-> core, axi |-> axi,
                                txn_id |-> id, txn |-> txn])
      /\ segments' = [segments EXCEPT ![core] = segs]
      /\ cursors' = [t \in DOMAIN cursors \cup {s} |->
                       IF t = s THEN [c EXCEPT !.queued = @ \/ wakes] ELSE cursors[t]]
      /\ heap' = IF wakes
                 THEN heap \cup {Event(IssueCycle(s, c, segs[Len(segs)].gate_cycle), s, 0)}
                 ELSE heap
      /\ bursts' = [bursts EXCEPT ![core] = Counted(@, BurstBytes(txn))]
      /\ UNCHANGED <<port_free, results, finished, running, turn>>

InSegment(core, k) == {t \in DOMAIN cursors : CoreOf(t) = core /\ SegmentOf(t) = k}

(* Mutant: a barrier behind a finished segment waits for a completion to come. *)
SegmentAfterUnknown(core, k) == NewSegment(FALSE, 0)

(* The segment a barrier opens: if all before it is done, its gate is known. *)
SegmentAfter(core, k) ==
  IF \A t \in InSegment(core, k) : cursors[t].pending = <<>>
  THEN NewSegment(TRUE, segments[core][k].max_complete) ELSE NewSegment(FALSE, 0)

(* A barrier with nothing before it since the last one does nothing. *)
PushBarrier(core) ==
  LET k == Len(segments[core]) IN
  /\ ~ running
  /\ Len(calls) < MaxCalls
  /\ k > 0 /\ InSegment(core, k) # {}
  /\ calls' = Append(calls, [kind |-> "barrier", core |-> core])
  /\ segments' = [segments EXCEPT ![core] =
                    Append([@ EXCEPT ![k].closed = TRUE], SegmentAfter(core, k))]
  /\ UNCHANGED <<cursors, port_free, heap, results, finished, bursts, running, turn>>

Kept(max_id) == {k \in DOMAIN results : results[k].txn_id > max_id}

(* prune_results_before: nothing but the results changes, and those kept stay in
   their order. *)
PruneResultsBefore(max_id) ==
  /\ ~ running
  /\ Len(calls) < MaxCalls
  /\ calls' = Append(calls, [kind |-> "prune", txn_id |-> max_id])
  /\ \E place \in Bijection(1 .. Cardinality(Kept(max_id)), Kept(max_id)) :
       /\ \A p, q \in DOMAIN place : p < q => place[p] < place[q]
       /\ results' = [p \in DOMAIN place |-> results[place[p]]]
  /\ UNCHANGED <<segments, cursors, port_free, heap, finished, bursts, running, turn>>

BeginRun ==
  /\ ~ running
  /\ running' = TRUE
  /\ UNCHANGED <<segments, cursors, port_free, heap, results, finished, bursts, turn, calls>>

-----------------------------------------------------------------------------
(***************************************************************************)
(* One turn of run()'s loop: the event at the top of the heap.  An event's *)
(* stream always has a transaction pending (EventsHaveWork), so the        *)
(* `continue` on an empty one is never taken.                              *)
(***************************************************************************)
AtTop == running /\ turn = NoTurn /\ heap # {}

(* Mutant: a stale event is put back as it was. *)
RefreshedEventSame(ev) == ev

RefreshedEvent(ev) ==
  [ev EXCEPT !.ready = IssueCycle(ev.stream, cursors[ev.stream], GateOf(ev.stream))]

(* The port or the stream moved on since the event was queued. *)
Reschedule ==
  /\ AtTop /\ Top.chunk = 0
  /\ Top.ready # IssueCycle(Top.stream, cursors[Top.stream], GateOf(Top.stream))
  /\ heap' = (heap \ {Top}) \cup {RefreshedEvent(Top)}
  /\ UNCHANGED <<segments, cursors, port_free, results, finished, bursts, running, turn, calls>>

(* Mutant: a transaction that completes as this one issues still counts. *)
StillOutstandingLate(outstanding, cycle) == {o \in outstanding : o.complete >= cycle}

StillOutstanding(outstanding, cycle) == {o \in outstanding : o.complete > cycle}

(* kMinIssueSpacingCycles *)
PortFreeAfter(issue) == issue + 1

(* Mutant: a wait for a barrier is charged to the cap as well. *)
OutstandingWaitOrBarrier(s, c) == IssueCycle(s, c, GateOf(s)) - port_free[CoreOf(s)]

(* The cycles the cap alone holds the stream's next transaction back. *)
OutstandingWait(s, c) ==
  Later(IdGate(c) - Later(port_free[CoreOf(s)], GateOf(s)), 0)

Started(entry, issue, wait) ==
  [txn_id |-> entry.txn_id, issue_cycle |-> issue, outstanding_wait_cycles |-> wait,
   first_window |-> FirstWindow(entry.txn), num_chunks |-> NumChunks(entry.txn), chunks_dispatched |-> 0, max_complete |-> issue]

Issue ==
  LET s == Top.stream  c == cursors[s]  issue == Top.ready IN
  /\ AtTop /\ Top.chunk = 0
  /\ issue = IssueCycle(s, c, GateOf(s))
  /\ cursors' = [cursors EXCEPT ![s] =
                   [c EXCEPT !.outstanding = StillOutstanding(@, issue),
                             !.in_progress = Started(Head(c.pending), issue, OutstandingWait(s, c))]]
  /\ port_free' = [port_free EXCEPT ![CoreOf(s)] = PortFreeAfter(issue)]
  /\ heap' = heap \ {Top}
  /\ turn' = Top
  /\ UNCHANGED <<segments, results, finished, bursts, running, calls>>

Resume ==
  /\ AtTop /\ Top.chunk > 0
  /\ heap' = heap \ {Top}
  /\ turn' = Top
  /\ UNCHANGED <<segments, cursors, port_free, results, finished, bursts, running, calls>>

TurnChannel == ChannelOf(ChunkOf(turn).window)

(* The front end's part of admitting the chunk of `turn`: the next chunk of the
   transaction takes its own turn. *)
AdmitTurn ==
  LET ip == cursors[turn.stream].in_progress IN
  /\ heap' = IF turn.chunk + 1 < ip.num_chunks
             THEN heap \cup {Event(ip.issue_cycle, turn.stream, turn.chunk + 1)} ELSE heap
  /\ turn' = NoTurn
  /\ UNCHANGED <<segments, cursors, port_free, results, finished, bursts, running, calls>>

-----------------------------------------------------------------------------
(***************************************************************************)
(* A chunk has come back from its channel, complete at `complete`.         *)
(***************************************************************************)
(* Mutant: the transaction ends with the chunk that came back last. *)
ProgressedByLast(ip, complete) ==
  [ip EXCEPT !.chunks_dispatched = @ + 1, !.max_complete = complete]

(* route_completed_chunk: its part in the transaction's own accumulators. *)
Progressed(ip, complete) ==
  [ip EXCEPT !.chunks_dispatched = @ + 1, !.max_complete = Later(@, complete)]

(* Mutant: without the clamp to the previous transaction of the stream. *)
CompletionUnclamped(c, ip) == ip.max_complete

(* Same-id responses return in order: never before the previous one. *)
Completion(c, ip) == Later(ip.max_complete, c.last_complete_cycle)

(* What is reported of a transaction; its axi id, segment and wait are history. *)
ResultOf(s, ip, complete) ==
  LET txn == Head(cursors[s].pending).txn
  IN  [txn_id |-> ip.txn_id, core |-> CoreOf(s), type |-> txn.type,
       issue |-> ip.issue_cycle, complete |-> complete,
       bytes |-> TotalBytes(txn), dram_bytes |-> ip.num_chunks * ChunkBytes,
       axi |-> AxiOf(s), segment |-> SegmentOf(s), wait |-> ip.outstanding_wait_cycles]

(* Mutant: a segment opens as soon as one stream of its predecessor is done. *)
OpensEarly(s) ==
  /\ segments[CoreOf(s)][SegmentOf(s)].closed
  /\ SegmentOf(s) < Len(segments[CoreOf(s)])
  /\ ~ segments[CoreOf(s)][SegmentOf(s) + 1].gate_known

(* The segment behind the one of s opens when s is the last of its closed
   segment to run out of transactions. *)
Opens(s) ==
  /\ segments[CoreOf(s)][SegmentOf(s)].closed
  /\ \A t \in InSegment(CoreOf(s), SegmentOf(s)) \ {s} : cursors[t].pending = <<>>
  /\ SegmentOf(s) < Len(segments[CoreOf(s)])
  /\ ~ segments[CoreOf(s)][SegmentOf(s) + 1].gate_known

(* The completion cycle of all of s's segment, this transaction included. *)
GateAfter(s, complete) == Later(segments[CoreOf(s)][SegmentOf(s)].max_complete, complete)

(* Mutant: looked at before the finished transaction is taken off. *)
MoreBeforePop(c) == c.pending # <<>>

(* The stream has a transaction behind the one that finishes. *)
More(c) == Len(c.pending) > 1

(* finalize_in_progress_txn *)
Finalize(s, ip) ==
  LET c        == cursors[s]
      complete == Completion(c, ip)
      r        == ResultOf(s, ip, complete)
      more     == More(c)
      done     == [c EXCEPT !.pending = Tail(@), !.queued = more,
                            !.outstanding = @ \cup {[txn_id |-> ip.txn_id, complete |-> complete]},
                            !.last_complete_cycle = complete, !.in_progress = ip]
      gate     == GateAfter(s, complete)
      opens    == ~ more /\ Opens(s)
      woken    == {t \in InSegment(CoreOf(s), SegmentOf(s) + 1) :
                     opens /\ NeedsEvent(cursors[t], TRUE)}
  IN  /\ cursors' = [t \in DOMAIN cursors |->
                       IF t = s THEN done
                       ELSE IF t \in woken THEN [cursors[t] EXCEPT !.queued = TRUE]
                       ELSE cursors[t]]
      /\ heap' = heap \cup (IF more THEN {Event(IssueCycle(s, done, GateOf(s)), s, 0)} ELSE {})
                      \cup {Event(IssueCycle(t, cursors[t], gate), t, 0) : t \in woken}
      /\ segments' = [segments EXCEPT ![CoreOf(s)] =
           [k \in DOMAIN @ |->
              IF k = SegmentOf(s) THEN [@[k] EXCEPT !.max_complete = gate]
              ELSE IF opens /\ k = SegmentOf(s) + 1
              THEN [@[k] EXCEPT !.gate_known = TRUE, !.gate_cycle = gate] ELSE @[k]]]
      /\ results' = Append(results, r)
      /\ finished' = Append(finished, r)
      /\ UNCHANGED <<port_free, bursts, running, turn, calls>>

(* route_completed_chunk *)
Route(chunk, complete) ==
  LET s  == chunk.stream
      ip == Progressed(cursors[s].in_progress, complete)
  IN  IF ip.chunks_dispatched = ip.num_chunks
      THEN Finalize(s, ip)
      ELSE /\ cursors' = [cursors EXCEPT ![s].in_progress = ip]
           /\ UNCHANGED <<segments, port_free, heap, results, finished, bursts, running, turn, calls>>

-----------------------------------------------------------------------------
(***************************************************************************)
(* Statistics: what finalize_in_progress_txn records of a transaction as   *)
(* it ends, and compute_summary as run() returns.  Nothing above reads     *)
(* them; each step carries its own along in Statistic.                     *)
(***************************************************************************)
NoWindow ==
  [bytes |-> [t \in {"Read", "Write"} |-> 0], dram_bytes |-> 0, txn_count |-> 0,
   offered_bytes |-> 0, offered_txn_count |-> 0, max_outstanding_count |-> 0]

(* A window with one more transaction completed in it, and with one more issued
   in it. *)
Delivered(w, r) ==
  [w EXCEPT !.bytes[r.type] = @ + r.bytes, !.dram_bytes = @ + r.dram_bytes, !.txn_count = @ + 1]
Offered(w, r, occupancy) ==
  [w EXCEPT !.offered_bytes = @ + r.bytes, !.offered_txn_count = @ + 1,
            !.max_outstanding_count = Later(@, occupancy)]

(* windows_ with one more transaction: delivered where it completes, offered
   (and the stream's occupancy noted) where it was issued. *)
Recorded(r, occupancy) ==
  LET delivered == r.complete \div HistoryWindow + 1
      offered   == r.issue \div HistoryWindow + 1
      longer    == [i \in DOMAIN windows \cup 1 .. Later(delivered, offered) |->
                      IF i \in DOMAIN windows THEN windows[i] ELSE NoWindow]
  IN  [[longer EXCEPT ![delivered] = Delivered(@, r)]
         EXCEPT ![offered] = Offered(@, r, occupancy)]

NoRuntime ==
  [txn_count |-> 0, bytes |-> [t \in {"Read", "Write"} |-> 0], latency_sum |-> 0,
   latency_max |-> 0, latency_hist |-> NoLatencies, outstanding_wait_sum |-> 0]

Latency(r) == r.complete - r.issue

(* The core's CoreRuntimeAccum with one more transaction. *)
RanLonger(acc, r) ==
  [acc EXCEPT !.txn_count = @ + 1, !.bytes[r.type] = @ + r.bytes,
              !.latency_sum = @ + Latency(r), !.latency_max = Later(@, Latency(r)),
              !.latency_hist[LatencyBucket(Latency(r))] = @ + 1,
              !.outstanding_wait_sum = @ + r.wait]

Totalled(r) ==
  [txns |-> totals.txns + 1, bytes |-> totals.bytes + r.bytes,
   dram_bytes |-> totals.dram_bytes + r.dram_bytes,
   latency_sum |-> totals.latency_sum + Latency(r),
   latency_max |-> Later(totals.latency_max, Latency(r)),
   max_complete |-> Later(totals.max_complete, r.complete)]

(* In a summary a channel is the bytes it moved, the cycles it charged to some
   cause and the end of its last data burst.  From there to the end of the run
   its bus was idle. *)
Trailing(ch) == Later(totals.max_complete - ch.data_end, 0)

(* Channels that never carried anything are left out of the imbalance. *)
Imbalance(moved) ==
  LET carried == moved \ {0}
  IN  IF carried = {} THEN [most |-> 1, least |-> 1]
      ELSE [most |-> Max(carried), least |-> Min(carried)]

Percentiles == {50, 95, 99}

AllLatencies == [i \in 0 .. LatencyBuckets - 1 |-> SumOf([c \in Cores |-> runtimes[c].latency_hist[i]])]

NoSummary ==
  [total_txns |-> 0, total_bytes |-> 0, total_dram_bytes |-> 0, total_cycles |-> 0,
   latency_sum |-> 0, latency_max |-> 0, latency_percentile2 |-> [p \in Percentiles |-> 0],
   attributed |-> 0, imbalance |-> [most |-> 1, least |-> 1]]

(* Mutant: only what has not been pruned is counted. *)
SummaryOfRetained(channel) == [NoSummary EXCEPT !.total_txns = Len(results)]

Summary(channel) ==
  [total_txns |-> totals.txns, total_bytes |-> totals.bytes,
   total_dram_bytes |-> totals.dram_bytes, total_cycles |-> totals.max_complete,
   latency_sum |-> totals.latency_sum, latency_max |-> totals.latency_max,
   latency_percentile2 |->
     [p \in Percentiles |-> LatencyPercentile2(AllLatencies, totals.latency_max, p)],
   attributed |-> SumOf([ch \in Channels |-> channel[ch].charged + Trailing(channel[ch])]),
   imbalance |-> Imbalance({channel[ch].bytes : ch \in Channels})]

(* The statistics' part of a step. *)
Statistic(channel) ==
  /\ IF finished' = finished THEN UNCHANGED <<windows, totals, runtimes>>
     ELSE LET r == finished'[Len(finished')]
              s == <<r.core, r.segment, r.axi>>
          IN  /\ totals' = Totalled(r)
              /\ runtimes' = [runtimes EXCEPT ![r.core] = RanLonger(@, r)]
              /\ windows' = IF HistoryWindow = 0 THEN windows
                            ELSE Recorded(r, Cardinality(cursors'[s].outstanding))
  /\ summary' = IF running /\ ~ running' THEN Summary(channel) ELSE summary

(* The loop of run() ends. *)
ReturnFromRun ==
  /\ running /\ turn = NoTurn /\ heap = {}
  /\ running' = FALSE
  /\ UNCHANGED <<segments, cursors, port_free, heap, results, finished, bursts, turn, calls>>

-----------------------------------------------------------------------------
FrontInit ==
  /\ segments = [c \in Cores |-> <<>>]
  /\ cursors = [s \in {} |-> NewCursor]
  /\ port_free = [c \in Cores |-> 0]
  /\ heap = {}
  /\ results = <<>>
  /\ windows = <<>>
  /\ totals = [txns |-> 0, bytes |-> 0, dram_bytes |-> 0, latency_sum |-> 0,
               latency_max |-> 0, max_complete |-> 0]
  /\ runtimes = [c \in Cores |-> NoRuntime]
  /\ bursts = [c \in Cores |-> [b \in {} |-> 0]]
  /\ summary = NoSummary
  /\ finished = <<>>
  /\ running = FALSE
  /\ turn = NoTurn
  /\ calls = <<>>

(* The calls a program makes between two runs: it prunes up to a result it has. *)
Call ==
  \/ \E core \in Cores, axi \in AxiIds, txn \in Txns : PushTxn(core, axi, txn)
  \/ \E core \in Cores : PushBarrier(core)
  \/ \E k \in DOMAIN results : PruneResultsBefore(results[k].txn_id)
  \/ BeginRun
=============================================================================
