-------------------------- MODULE EngineProperties --------------------------
(***************************************************************************)
(* What the engine promises: about the calls made and the results they     *)
(* led to, never about the cursors and events in between (except for the   *)
(* type invariant and the two invariants of the loop).                     *)
(***************************************************************************)
EXTENDS Engine

Streams == Cores \X (Nat \ {0}) \X AxiIds

Segment == [gate_known : BOOLEAN, gate_cycle : Nat, max_complete : Nat, closed : BOOLEAN]

InProgress ==
  [txn_id : Nat, issue_cycle : Nat, outstanding_wait_cycles : Nat, first_window : Nat,
   num_chunks : Nat, chunks_dispatched : Nat, max_complete : Nat]

Cursor ==
  [pending : Seq([txn_id : Nat, txn : Txns]), outstanding : SUBSET [txn_id : Nat, complete : Nat],
   queued : BOOLEAN, last_complete_cycle : Nat, in_progress : InProgress]

HeapEvent == [ready : Nat, stream : Streams, chunk : Nat]

Chunk == [stream : Streams, txn_id : Nat, window : Nat, ready : Nat]

TxnTypes == {"Read", "Write"}

Result ==
  [txn_id : Nat, core : Cores, type : TxnTypes, issue : Nat, complete : Nat, bytes : Nat,
   dram_bytes : Nat, axi : AxiIds, segment : Nat, wait : Nat]

WindowStats ==
  [bytes : [TxnTypes -> Nat], dram_bytes : Nat, txn_count : Nat, offered_bytes : Nat,
   offered_txn_count : Nat, max_outstanding_count : Nat]

CoreRuntime ==
  [txn_count : Nat, bytes : [TxnTypes -> Nat], latency_sum : Nat, latency_max : Nat,
   latency_hist : [0 .. LatencyBuckets - 1 -> Nat], outstanding_wait_sum : Nat]

Totals ==
  [txns : Nat, bytes : Nat, dram_bytes : Nat, latency_sum : Nat, latency_max : Nat,
   max_complete : Nat]

CallRecord ==
  [kind : {"txn"}, core : Cores, axi : AxiIds, txn_id : Nat, txn : Txns]
  \cup [kind : {"barrier"}, core : Cores]
  \cup [kind : {"prune"}, txn_id : Nat]

(* Every member of Engine holds a value of its declared type. *)
TypeOK ==
  /\ segments \in [Cores -> Seq(Segment)]
  /\ DOMAIN cursors \subseteq Streams
  /\ \A s \in DOMAIN cursors : cursors[s] \in Cursor
  /\ port_free \in [Cores -> Nat]
  /\ heap \subseteq HeapEvent
  /\ results \in Seq(Result) /\ finished \in Seq(Result)
  /\ windows \in Seq(WindowStats)
  /\ totals \in Totals
  /\ runtimes \in [Cores -> CoreRuntime]
  /\ \A c \in Cores : \A b \in DOMAIN bursts[c] : b \in Nat /\ bursts[c][b] \in Nat
  /\ running \in BOOLEAN
  /\ turn \in HeapEvent \cup {NoTurn}
  /\ calls \in Seq(CallRecord)
  /\ \A ch \in Channels :
       /\ channels[ch].queue \subseteq Chunk /\ Cardinality(channels[ch].queue) <= QueueDepth
       /\ {channels[ch].bus_free, channels[ch].last_ready} \subseteq Nat

-----------------------------------------------------------------------------
(***************************************************************************)
(* The loop.                                                               *)
(***************************************************************************)
Flying(s) == {c \in UNION {channels[ch].queue : ch \in Channels} : c.stream = s}

(* Where the next step of a stream will come from: its event, the turn in
   progress, or its chunks in the channels. *)
Sources(s) ==
  {e \in heap \cup ({turn} \ {NoTurn}) : e.stream = s}

(* At most one event per stream is ever in the heap ("only one event per id is
   ever in the heap at a time"), it has a transaction to work on, and a stream
   with work whose barrier is passed always has a source for its next step:
   nobody's wake-up is lost. *)
EventsHaveWork ==
  \A s \in DOMAIN cursors :
    /\ Cardinality(Sources(s)) <= 1
    /\ cursors[s].queued <=> Sources(s) # {} \/ Flying(s) # {}
    /\ NeedsEvent(cursors[s], segments[CoreOf(s)][SegmentOf(s)].gate_known) => Sources(s) = {}
    /\ cursors[s].queued => cursors[s].pending # <<>>
    /\ segments[CoreOf(s)][SegmentOf(s)].gate_known =>
         cursors[s].queued = (cursors[s].pending # <<>>)

Pushed == {i \in DOMAIN calls : calls[i].kind = "txn"}

ResultsOf(id) == {k \in DOMAIN finished : finished[k].txn_id = id}

(* No transaction finishes twice, and when run() has returned, every one pushed
   before has finished: those behind barriers included. *)
NothingForgotten ==
  /\ \A i \in Pushed : Cardinality(ResultsOf(calls[i].txn_id)) <= 1
  /\ ~ running /\ heap = {} => \A i \in Pushed : ResultsOf(calls[i].txn_id) # {}

(* run() comes to an end, whatever order the channels return chunks in. *)
RunReturns == running ~> ~ running

-----------------------------------------------------------------------------
(***************************************************************************)
(* Order.  Callers look between runs: a run adds to what is finished and   *)
(* takes nothing back.                                                     *)
(***************************************************************************)
(* Transactions of one core and id are issued and reported in the order they
   were pushed, and their responses never overtake one another, although their
   chunks may: across channels and across barriers. *)
SameIdInOrder ==
  ~ running => \A j, k \in DOMAIN finished :
    LET r == finished[j]  q == finished[k] IN
    j < k /\ r.core = q.core /\ r.axi = q.axi =>
      r.txn_id < q.txn_id /\ r.issue < q.issue /\ r.complete <= q.complete

(* "A BARRIER means this core's next transaction won't be scheduled until every
   transaction it has already pushed has completed": a transaction pushed after
   a barrier of its core issues no earlier than all before it complete, whether
   the barrier came before, between or after the runs that served them. *)
BarrierRespected ==
  ~ running => \A i, b, j \in DOMAIN calls :
    /\ i < b /\ b < j
    /\ calls[i].kind = "txn" /\ calls[b].kind = "barrier" /\ calls[j].kind = "txn"
    /\ calls[i].core = calls[b].core /\ calls[b].core = calls[j].core
    => \A k \in ResultsOf(calls[j].txn_id) :
         \E l \in ResultsOf(calls[i].txn_id) : l < k /\ finished[l].complete <= finished[k].issue

-----------------------------------------------------------------------------
(***************************************************************************)
(* Limits and accounts.                                                    *)
(***************************************************************************)
(* The transactions of r's core and id in flight when r issues, r included. *)
InFlight(r) ==
  {k \in DOMAIN finished : /\ finished[k].core = r.core /\ finished[k].axi = r.axi
                          /\ finished[k].issue <= r.issue /\ r.issue < finished[k].complete}

(* No stream ever has more than max_outstanding_per_id transactions in flight. *)
OutstandingCapped ==
  ~ running => \A k \in DOMAIN finished : Cardinality(InFlight(finished[k])) <= MaxOutstanding

Sum(K, value(_)) == SumOf([k \in K |-> value(k)])

(* The high-water mark of a history window is exact ("nothing is missed between
   samples"): the most transactions of one stream that were in flight when one
   of them issued in the window.  A transaction and its bytes are counted once
   where it issues as offered and once where it completes as delivered, and the
   windows reach to the last completion. *)
WindowsExact ==
  ~ running /\ HistoryWindow > 0 =>
    /\ \A k \in DOMAIN finished : finished[k].complete \div HistoryWindow + 1 \in DOMAIN windows
    /\ \A w \in DOMAIN windows :
      LET issued == {k \in DOMAIN finished : finished[k].issue \div HistoryWindow + 1 = w}
          ended  == {k \in DOMAIN finished : finished[k].complete \div HistoryWindow + 1 = w}
      IN  /\ windows[w].max_outstanding_count
               = Max({0} \cup {Cardinality(InFlight(finished[k])) : k \in issued})
          /\ windows[w].offered_txn_count = Cardinality(issued)
          /\ windows[w].offered_bytes = Sum(issued, LAMBDA k : finished[k].bytes)
          /\ windows[w].txn_count = Cardinality(ended)
          /\ SumOf(windows[w].bytes) = Sum(ended, LAMBDA k : finished[k].bytes)
          /\ windows[w].dram_bytes = Sum(ended, LAMBDA k : finished[k].dram_bytes)

(* The transactions of r's core and id in flight at a cycle before r issued. *)
InFlightAt(r, cycle) ==
  {k \in DOMAIN finished : /\ finished[k].core = r.core /\ finished[k].axi = r.axi
                           /\ finished[k].issue <= cycle /\ cycle < finished[k].complete}

(* The first cycle at which only the cap could hold r back: its core's port was
   free and all in front of its last barrier was over. *)
HeldByCapFrom(r) ==
  LET before == {k \in DOMAIN finished : finished[k].core = r.core}
  IN  Max({0} \cup {finished[k].issue + 1 : k \in {j \in before : finished[j].issue < r.issue}}
              \cup {finished[k].complete : k \in {j \in before : finished[j].segment < r.segment}})

(* The wait charged to the outstanding cap is the time a transaction spent with
   its port free, its barrier passed and the stream at its cap, no more and no
   less; afterwards it issues at once. *)
WaitExact ==
  ~ running => \A k \in DOMAIN finished :
    LET r == finished[k]
        held == HeldByCapFrom(r) .. r.issue - 1
    IN  /\ r.wait = Cardinality(held)
        /\ \A cycle \in held : Cardinality(InFlightAt(r, cycle)) = MaxOutstanding

(* The least of the values of K that pct per cent of them do not exceed. *)
TruePercentile(K, value(_), pct) ==
  Min({value(k) : k \in {j \in K :
         100 * Cardinality({i \in K : value(i) <= value(j)}) >= pct * Cardinality(K)}})

(* A latency reported for a percentile is "never smaller than the true
   percentile", and at most half an octave above it, unless it lies beyond the
   last bucket; the burst sizes reported are the true quartiles. *)
PercentilesAccurate ==
  LET accurate(reported2, K, pct) ==
        LET exact == TruePercentile(K, LAMBDA k : Latency(finished[k]), pct)
            true2 == exact * exact
        IN  true2 < 2 ^ LatencyBuckets => true2 <= reported2 /\ reported2 <= 2 * true2
  IN  ~ running =>
      /\ finished # <<>> =>
            \A p \in Percentiles : accurate(summary.latency_percentile2[p], DOMAIN finished, p)
      /\ \A core \in Cores :
           LET own    == {k \in DOMAIN finished : finished[k].core = core}
               pushed == {i \in Pushed : calls[i].core = core}
               acc    == runtimes[core]
           IN  /\ own # {} => \A p \in {50, 95} :
                    accurate(LatencyPercentile2(acc.latency_hist, acc.latency_max, p), own, p)
               /\ pushed # {} => \A p \in {25, 50, 75} :
                    NearestRank(bursts[core], p)
                      = TruePercentile(pushed, LAMBDA i : BurstBytes(calls[i].txn), p)

(* Chunks of transaction id the channels served. *)
Served(id) ==
  UNION {{<<ch, i>> : i \in {j \in DOMAIN channels[ch].served :
                               channels[ch].served[j].txn_id = id}} : ch \in Channels}

(* A transaction is done when every burst-aligned window its bytes touch has
   been served exactly once, on the window's channel, and not before the last
   of them; it has been issued before the first. *)
ServedWhole ==
  ~ running => \A i \in Pushed : \A k \in ResultsOf(calls[i].txn_id) :
    LET r == finished[k]
        txn == calls[i].txn
        bytes == txn.addr .. txn.addr + TotalBytes(txn) - 1
        chunk(x) == channels[x[1]].served[x[2]]
    IN  /\ {chunk(x).window : x \in Served(r.txn_id)} = {b \div ChunkBytes : b \in bytes}
        /\ Cardinality(Served(r.txn_id)) * ChunkBytes = r.dram_bytes
        /\ \A x \in Served(r.txn_id) :
             /\ x[1] = ChannelOf(chunk(x).window)
             /\ r.issue < chunk(x).complete /\ chunk(x).complete <= r.complete

(* The summary's bus-time attribution adds up to all of the run's time on every
   channel: no burst ends after the last transaction it can belong to. *)
BusTimeShared ==
  ~ running => summary.attributed = Cardinality(Channels) * totals.max_complete

-----------------------------------------------------------------------------
(***************************************************************************)
(* What callers see.                                                       *)
(***************************************************************************)
(* The calls, without what a transaction is to read or write. *)
CallsSeen ==
  [i \in DOMAIN calls |->
     IF i \in Pushed
     THEN [kind |-> "txn", core |-> calls[i].core, axi |-> calls[i].axi, txn_id |-> calls[i].txn_id]
     ELSE calls[i]]

(* The results there were when the last run returned, less those pruned. *)
ResultsSeen == SubSeq(results, 1, Len(results) - (totals.txns - summary.total_txns))
IdsSeen == [i \in DOMAIN ResultsSeen |-> ResultsSeen[i].txn_id]

Calls ==
  INSTANCE EngineCalls WITH calls <- CallsSeen, results <- IdsSeen, done <- summary.total_txns

(* To its callers the whole of run() is one step: it finishes everything pushed
   before it, behind barriers too, reports each transaction once, in the order
   of its stream and its core's barriers, and its summary counts all of them,
   pruned or not. *)
ImplementsCalls == Calls!Spec
=============================================================================
