----------------------------- MODULE LoopProofs -----------------------------
(***************************************************************************)
(* The loop of Engine's run(): where a stream's next step comes from, that *)
(* nothing pushed is forgotten, and the order ids and barriers impose, for *)
(* every set of cores, ids, transactions and channels and every queue      *)
(* depth.                                                                  *)
(***************************************************************************)
EXTENDS EngineProperties, FiniteSetTheorems, SequenceTheorems, WellFoundedInduction, TLAPS

-----------------------------------------------------------------------------
(***************************************************************************)
(* Numbers.                                                                *)
(***************************************************************************)
(* The least element of a nonempty set of naturals. *)
LEMMA NatMin ==
  ASSUME NEW S \in SUBSET Nat, S # {}
  PROVE  Min(S) \in S /\ \A x \in S : Min(S) <= x
<1>1. PICK x \in S : \A y \in S : <<y, x>> \notin OpToRel(<, Nat)
  BY WFMin, NatLessThanWellFounded, Zenon
<1>2. \A y \in S : ~ (y < x)
  BY <1>1, Zenon DEF OpToRel
<1>3. \A y \in S : x <= y
  BY <1>2
<1> QED
  BY <1>3 DEF Min

LEMMA QuotientNat ==
  ASSUME NEW a \in Nat, NEW d \in Nat \ {0}
  PROVE  a \div d \in Nat
OBVIOUS

LEMMA QuotientMonotone ==
  ASSUME NEW a \in Nat, NEW b \in Nat, NEW d \in Nat \ {0}, a <= b
  PROVE  a \div d <= b \div d
BY Z3

LEMMA ProductNat ==
  ASSUME NEW a \in Nat, NEW b \in Nat
  PROVE  a * b \in Nat
OBVIOUS

(* A transaction touches at least one window. *)
LEMMA ChunkFacts ==
  ASSUME NEW txn \in Txns
  PROVE  /\ TotalBytes(txn) \in Nat \ {0}
         /\ FirstWindow(txn) \in Nat /\ NumChunks(txn) \in Nat \ {0}
<1>1. /\ txn.addr \in Nat /\ txn.size_bytes \in Nat /\ txn.len_beats \in Nat
      /\ ChunkBytes \in Nat \ {0}
  BY FrontEndAssumption
<1>2. txn.size_bytes * txn.len_beats \in Nat
  BY <1>1, ProductNat
<1>3. BurstBytes(txn) \in Nat
  BY <1>1, <1>2 DEF BurstBytes
<1>4. TotalBytes(txn) \in Nat \ {0}
  BY <1>3 DEF TotalBytes, Later
<1> DEFINE last == txn.addr + TotalBytes(txn) - 1
<1>5. last \in Nat /\ txn.addr <= last
  BY <1>1, <1>4
<1> HIDE DEF last
<1>6. /\ txn.addr \div ChunkBytes \in Nat /\ last \div ChunkBytes \in Nat
      /\ txn.addr \div ChunkBytes <= last \div ChunkBytes
  BY <1>1, <1>5, QuotientNat, QuotientMonotone
<1>7. NumChunks(txn) = last \div ChunkBytes - FirstWindow(txn) + 1
  BY DEF NumChunks, last
<1> QED
  BY <1>4, <1>6, <1>7 DEF FirstWindow

-----------------------------------------------------------------------------
(***************************************************************************)
(* A stream by itself.  What run() holds of one: its cursor c, its events  *)
(* in the heap, the turn if it is the stream's, its chunks in flight, and  *)
(* whether the gate in front of its segment is known.  It is in one of     *)
(* three states.                                                           *)
(***************************************************************************)
(* Without work, or behind a barrier that is not passed. *)
Idle(c, events, turns, flying, known) ==
  /\ events = {} /\ turns = {} /\ flying = {}
  /\ ~ c.queued /\ (known <=> c.pending = <<>>)

(* Its next transaction waits in the heap to be issued. *)
Waiting(c, events, turns, flying, known) ==
  /\ turns = {} /\ flying = {}
  /\ c.queued /\ known /\ c.pending # <<>>
  /\ \E e : events = {e} /\ e.chunk = 0

(* The first k chunks of its transaction are admitted: the next has the turn, or
   an event, or there is none. *)
Admitted(ip, events, turns, k) ==
  \/ \E e : events = {} /\ turns = {e} /\ e.chunk = k /\ k < ip.num_chunks
  \/ \E e : events = {e} /\ turns = {} /\ e.chunk = k /\ k < ip.num_chunks /\ k > 0
  \/ events = {} /\ turns = {} /\ k = ip.num_chunks

(* The cursor's progress is that of its first transaction. *)
Describes(ip, entry) ==
  /\ ip.txn_id = entry.txn_id
  /\ ip.first_window = FirstWindow(entry.txn) /\ ip.num_chunks = NumChunks(entry.txn)
  /\ ip.chunks_dispatched < ip.num_chunks

(* Its first transaction is issued and k of its chunks are admitted. *)
Issued(c, events, turns, flying, known, k) ==
  /\ c.queued /\ known /\ c.pending # <<>>
  /\ Describes(c.in_progress, Head(c.pending))
  /\ Admitted(c.in_progress, events, turns, k)
  /\ IsFiniteSet(flying)
  /\ c.in_progress.chunks_dispatched + Cardinality(flying) = k
  /\ \A chunk \in flying : chunk.window < c.in_progress.first_window + k

StreamState(c, events, turns, flying, known) ==
  \/ Idle(c, events, turns, flying, known)
  \/ Waiting(c, events, turns, flying, known)
  \/ \E k \in Nat : Issued(c, events, turns, flying, known, k)

EventsOf(s) == {e \in heap : e.stream = s}
TurnsOf(s) == {e \in {turn} \ {NoTurn} : e.stream = s}
Known(s) == segments[CoreOf(s)][SegmentOf(s)].gate_known

StreamOK(s) == StreamState(cursors[s], EventsOf(s), TurnsOf(s), Flying(s), Known(s))

-----------------------------------------------------------------------------
(* The loop's types. *)
ChannelState ==
  [queue : SUBSET Chunk, bus_free : Nat, last_ready : Nat,
   served : Seq([stream : Streams, txn_id : Nat, window : Nat, complete : Nat])]

LoopTypeOK ==
  /\ segments \in [Cores -> Seq(Segment)]
  /\ DOMAIN cursors \subseteq Streams
  /\ \A s \in DOMAIN cursors : cursors[s] \in Cursor
  /\ port_free \in [Cores -> Nat]
  /\ heap \subseteq HeapEvent
  /\ results \in Seq(Result) /\ finished \in Seq(Result)
  /\ running \in BOOLEAN
  /\ turn \in HeapEvent \cup {NoTurn}
  /\ calls \in Seq(CallRecord)
  /\ channels \in [Channels -> ChannelState]

-----------------------------------------------------------------------------
(***************************************************************************)
(* What a step makes of a stream.                                          *)
(***************************************************************************)
Entry == [txn_id : Nat, txn : Txns]

LEMMA NewCursorTyped == NewCursor \in Cursor
<1>1. <<>> \in Seq(Entry)
  BY EmptySeq
<1>2. NoProgress \in InProgress
  BY DEF NoProgress, InProgress
<1> QED
  BY <1>1, <1>2 DEF NewCursor, Cursor, Entry

(* An event that starts its stream's next transaction. *)
Starts(e) == e.chunk = 0

(* A pushed transaction joins its stream, and wakes it if it was idle and not
   behind a barrier. *)
Unbegun(c, events, turns, flying) ==
  c = NewCursor /\ events = {} /\ turns = {} /\ flying = {}

(* The event a cursor gets, if it needs one. *)
NewEvents(c, known, e) == IF NeedsEvent(c, known) THEN {e} ELSE {}

PushedTo(c, entry) == [c EXCEPT !.pending = Append(@, entry)]
QueuedBy(c, new) == [c EXCEPT !.queued = @ \/ new # {}]

LEMMA PushState ==
  ASSUME NEW c \in Cursor, NEW entry \in Entry, NEW events, NEW turns, NEW flying,
         NEW known, NEW e, Starts(e),
         NEW c2, c2 = PushedTo(c, entry),
         NEW new, new = NewEvents(c2, known, e),
         NEW d, d = QueuedBy(c2, new),
         \/ StreamState(c, events, turns, flying, known)
         \/ Unbegun(c, events, turns, flying)
  PROVE  d \in Cursor /\ StreamState(d, events \cup new, turns, flying, known)
<1> DEFINE wakes == new # {}
<1> USE DEF Starts, Unbegun, NewEvents, PushedTo, QueuedBy
<1>1. c.pending \in Seq(Entry) /\ c.queued \in BOOLEAN
  BY DEF Cursor, Entry
<1>2. /\ Append(c.pending, entry) \in Seq(Entry) /\ Append(c.pending, entry) # <<>>
      /\ c.pending # <<>> => Head(Append(c.pending, entry)) = Head(c.pending)
  BY <1>1, AppendProperties
<1>3. c2 \in Cursor
  BY <1>2 DEF Cursor, Entry
<1>4. /\ d \in Cursor
      /\ d.pending = Append(c.pending, entry) /\ d.in_progress = c.in_progress
      /\ d.queued = (c.queued \/ wakes)
  BY <1>1, <1>3 DEF Cursor
<1>5. wakes <=> known /\ ~ c.queued
  BY <1>2, <1>3 DEF NeedsEvent, Cursor
<1>6. CASE c.queued
  <2>1. ~ wakes /\ d.queued
    BY <1>4, <1>5, <1>6
  <2>2. ~ Idle(c, events, turns, flying, known) /\ c # NewCursor
    BY <1>6 DEF Idle, NewCursor
  <2>3. CASE Waiting(c, events, turns, flying, known)
    BY <1>2, <1>4, <2>1, <2>3 DEF Waiting, StreamState
  <2>4. ASSUME NEW k \in Nat, Issued(c, events, turns, flying, known, k)
        PROVE  Issued(d, events, turns, flying, known, k)
    BY <1>2, <1>4, <2>1, <2>4 DEF Issued
  <2> QED
    BY <1>4, <2>1, <2>2, <2>3, <2>4 DEF StreamState
<1>7. CASE ~ c.queued
  <2>1. events = {} /\ turns = {} /\ flying = {}
    BY <1>7 DEF StreamState, Idle, Waiting, Issued
  <2>2. CASE known
    <3>1. Waiting(d, {e}, turns, flying, known)
      BY <1>2, <1>4, <1>5, <1>7, <2>1, <2>2 DEF Waiting
    <3> QED
      BY <1>4, <1>5, <1>7, <2>1, <2>2, <3>1 DEF StreamState
  <2>3. CASE ~ known
    <3>1. Idle(d, events, turns, flying, known)
      BY <1>2, <1>4, <1>5, <1>7, <2>1, <2>3 DEF Idle
    <3> QED
      BY <1>4, <1>5, <2>3, <3>1 DEF StreamState
  <2> QED
    BY <2>2, <2>3
<1> QED
  BY <1>6, <1>7

(* The first transaction issues and its event takes the turn. *)
LEMMA IssueState ==
  ASSUME NEW c \in Cursor, NEW e, NEW turns, NEW flying, NEW known,
         e.chunk = 0, StreamState(c, {e}, turns, flying, known),
         NEW d, d.queued = c.queued, d.pending = c.pending,
         NEW issue, NEW wait, d.in_progress = Started(Head(c.pending), issue, wait)
  PROVE  StreamState(d, {}, {e}, flying, known)
<1>1. Waiting(c, {e}, turns, flying, known)
  BY DEF StreamState, Idle, Issued, Admitted
<1>2. c.pending \in Seq(Entry) /\ Head(c.pending) \in Entry
  BY <1>1, HeadTailProperties DEF Cursor, Entry, Waiting
<1>3. NumChunks(Head(c.pending).txn) \in Nat \ {0}
  BY <1>2, ChunkFacts DEF Entry
<1>4. IsFiniteSet({}) /\ Cardinality({}) = 0
  BY FS_EmptySet
<1>5. Describes(d.in_progress, Head(d.pending)) /\ d.in_progress.chunks_dispatched = 0
  BY <1>3 DEF Describes, Started
<1>6. Admitted(d.in_progress, {}, {e}, 0)
  BY <1>3 DEF Admitted, Started
<1>7. Issued(d, {}, {e}, flying, known, 0)
  BY <1>1, <1>4, <1>5, <1>6 DEF Issued, Waiting
<1> QED
  BY <1>7 DEF StreamState

(* A later chunk's event takes the turn. *)
LEMMA ResumeState ==
  ASSUME NEW c, NEW e, e.chunk > 0, e.chunk \in Nat, NEW turns, NEW flying, NEW known,
         StreamState(c, {e}, turns, flying, known)
  PROVE  StreamState(c, {}, {e}, flying, known)
<1>1. PICK k \in Nat : Issued(c, {e}, turns, flying, known, k)
  <2>1. ~ Idle(c, {e}, turns, flying, known)
    BY DEF Idle
  <2>2. ~ Waiting(c, {e}, turns, flying, known)
    <3>1. \A x : {e} = {x} => x.chunk # 0
      OBVIOUS
    <3> QED
      BY <3>1 DEF Waiting
  <2> QED
    BY <2>1, <2>2 DEF StreamState
<1>2. turns = {} /\ e.chunk = k /\ k < c.in_progress.num_chunks
  BY <1>1 DEF Issued, Admitted
<1>3. Admitted(c.in_progress, {}, {e}, k)
  BY <1>2 DEF Admitted
<1>4. Issued(c, {}, {e}, flying, known, k)
  BY <1>1, <1>3 DEF Issued
<1> QED
  BY <1>4 DEF StreamState

(* chunk is the one event e admits, and next the event behind it, if there is one. *)
ChunkAt(chunk, ip, e) == chunk.window = ip.first_window + e.chunk
Behind(next, e) == next.chunk = e.chunk + 1
EventsBehind(next, ip, e) == IF e.chunk + 1 < ip.num_chunks THEN {next} ELSE {}

(* The chunk of the turn flies, and the next chunk gets an event. *)
LEMMA AdmitState ==
  ASSUME NEW c \in Cursor, NEW e \in HeapEvent, NEW events, NEW flying \in SUBSET Chunk,
         NEW known, StreamState(c, events, {e}, flying, known),
         NEW chunk, ChunkAt(chunk, c.in_progress, e), NEW next, Behind(next, e)
  PROVE  /\ events = {} /\ chunk \notin flying
         /\ e.chunk < c.in_progress.num_chunks
         /\ c.queued /\ c.pending # <<>> /\ Describes(c.in_progress, Head(c.pending))
         /\ StreamState(c, EventsBehind(next, c.in_progress, e), {}, flying \cup {chunk}, known)
<1> DEFINE after == EventsBehind(next, c.in_progress, e)
<1>a. /\ chunk.window = c.in_progress.first_window + e.chunk
      /\ next.chunk = e.chunk + 1
      /\ after = IF e.chunk + 1 < c.in_progress.num_chunks THEN {next} ELSE {}
  BY DEF ChunkAt, Behind, EventsBehind
<1> HIDE DEF after
<1>1. PICK k \in Nat : Issued(c, events, {e}, flying, known, k)
  BY DEF StreamState, Idle, Waiting
<1>2. events = {} /\ e.chunk = k /\ k < c.in_progress.num_chunks
  BY <1>1 DEF Issued, Admitted
<1>3. /\ c.in_progress.first_window \in Nat /\ c.in_progress.num_chunks \in Nat
      /\ c.in_progress.chunks_dispatched \in Nat
  BY DEF Cursor, InProgress
<1>4. chunk \notin flying
  BY <1>a, <1>1, <1>2, <1>3 DEF Issued
<1>5. /\ IsFiniteSet(flying \cup {chunk})
      /\ Cardinality(flying \cup {chunk}) = Cardinality(flying) + 1
      /\ Cardinality(flying) \in Nat
  BY <1>1, <1>4, FS_AddElement, FS_CardinalityType DEF Issued
<1>6. \A x \in flying \cup {chunk} : x.window < c.in_progress.first_window + (k + 1)
  <2> SUFFICES ASSUME NEW x \in flying \cup {chunk}
               PROVE  x.window < c.in_progress.first_window + (k + 1)
    OBVIOUS
  <2>1. CASE x = chunk
    BY <1>a, <1>2, <1>3, <2>1
  <2>2. CASE x \in flying
    <3>1. x.window < c.in_progress.first_window + k
      BY <1>1, <2>2 DEF Issued
    <3> QED
      BY <1>3, <2>2, <3>1 DEF Chunk
  <2> QED
    BY <2>1, <2>2
<1>7. Admitted(c.in_progress, after, {}, k + 1)
  <2>1. CASE k + 1 < c.in_progress.num_chunks
    BY <1>a, <1>2, <1>3, <2>1 DEF Admitted
  <2>2. CASE ~ (k + 1 < c.in_progress.num_chunks)
    BY <1>a, <1>2, <1>3, <2>2 DEF Admitted
  <2> QED
    BY <2>1, <2>2
<1>8. c.in_progress.chunks_dispatched + Cardinality(flying \cup {chunk}) = k + 1
  BY <1>1, <1>3, <1>5 DEF Issued
<1>9. Issued(c, after, {}, flying \cup {chunk}, known, k + 1)
  BY <1>1, <1>5, <1>6, <1>7, <1>8 DEF Issued
<1>10. StreamState(c, after, {}, flying \cup {chunk}, known)
  <2>1. k + 1 \in Nat
    OBVIOUS
  <2> QED
    BY <1>9, <2>1, Zenon DEF StreamState
<1>11. c.queued /\ c.pending # <<>> /\ Describes(c.in_progress, Head(c.pending))
  BY <1>1 DEF Issued
<1> QED
  BY <1>2, <1>4, <1>10, <1>11 DEF after

(* A chunk comes back, and it was not the last. *)
LEMMA ProgressState ==
  ASSUME NEW c \in Cursor, NEW events, NEW turns, NEW flying \in SUBSET Chunk, NEW known,
         StreamState(c, events, turns, flying, known), NEW chunk \in flying,
         NEW d, d.queued = c.queued, d.pending = c.pending, NEW complete \in Nat,
         d.in_progress = Progressed(c.in_progress, complete),
         d.in_progress.chunks_dispatched # d.in_progress.num_chunks
  PROVE  StreamState(d, events, turns, flying \ {chunk}, known)
<1> DEFINE ip == c.in_progress
<1>1. PICK k \in Nat : Issued(c, events, turns, flying, known, k)
  BY DEF StreamState, Idle, Waiting
<1>2. ip \in InProgress
  BY DEF Cursor
<1>3. /\ d.in_progress.txn_id = ip.txn_id /\ d.in_progress.first_window = ip.first_window
      /\ d.in_progress.num_chunks = ip.num_chunks
      /\ d.in_progress.chunks_dispatched = ip.chunks_dispatched + 1
      /\ ip.num_chunks \in Nat /\ ip.chunks_dispatched \in Nat
  BY <1>2 DEF Progressed, InProgress
<1>4. /\ IsFiniteSet(flying \ {chunk}) /\ Cardinality(flying \ {chunk}) = Cardinality(flying) - 1
      /\ Cardinality(flying) \in Nat
  BY <1>1, FS_RemoveElement, FS_CardinalityType DEF Issued
<1>5. ip.chunks_dispatched + Cardinality(flying) = k
  BY <1>1 DEF Issued
<1>6. Describes(d.in_progress, Head(d.pending))
  BY <1>1, <1>3 DEF Issued, Describes
<1>7. Admitted(d.in_progress, events, turns, k)
  BY <1>1, <1>3 DEF Issued, Admitted
<1>8. Issued(d, events, turns, flying \ {chunk}, known, k)
  BY <1>1, <1>3, <1>4, <1>5, <1>6, <1>7 DEF Issued
<1> QED
  BY <1>8 DEF StreamState

(* The event of a stream that has a transaction behind the one that ends. *)
NextEvents(c, e) == IF More(c) THEN {e} ELSE {}

(* All chunks are back; d is c without its first transaction. *)
Complete(ip) == ip.chunks_dispatched = ip.num_chunks
Popped(d, c) == d.pending = Tail(c.pending) /\ d.queued = More(c)

(* The last chunk of a transaction comes back: nothing of the stream is left in
   the heap, in the turn or in a channel, and it waits for its next transaction
   or falls idle. *)
LEMMA FinalState ==
  ASSUME NEW c \in Cursor, NEW events, NEW turns, NEW flying \in SUBSET Chunk, NEW known,
         StreamState(c, events, turns, flying, known), NEW chunk \in flying,
         NEW complete \in Nat,
         Complete(Progressed(c.in_progress, complete)),
         NEW d, Popped(d, c), NEW e, Starts(e)
  PROVE  /\ events = {} /\ turns = {} /\ known /\ c.queued /\ c.pending # <<>>
         /\ Describes(c.in_progress, Head(c.pending))
         /\ More(c) <=> Tail(c.pending) # <<>>
         /\ StreamState(d, NextEvents(c, e), {}, flying \ {chunk}, known)
<1> DEFINE ip == c.in_progress
<1>1. PICK k \in Nat : Issued(c, events, turns, flying, known, k)
  BY DEF StreamState, Idle, Waiting
<1>2. ip \in InProgress
  BY DEF Cursor
<1>3. /\ ip.chunks_dispatched + 1 = ip.num_chunks
      /\ ip.num_chunks \in Nat /\ ip.chunks_dispatched \in Nat
  BY <1>2 DEF Progressed, InProgress, Complete
<1>4. /\ IsFiniteSet(flying \ {chunk}) /\ Cardinality(flying \ {chunk}) = Cardinality(flying) - 1
      /\ Cardinality(flying) \in Nat
  BY <1>1, FS_RemoveElement, FS_CardinalityType DEF Issued
<1>5. Cardinality(flying) # 0
  BY <1>1, FS_EmptySet DEF Issued
<1>6. ip.chunks_dispatched + Cardinality(flying) = k
  BY <1>1 DEF Issued
<1>7. Admitted(ip, events, turns, k) /\ ~ (k < ip.num_chunks)
  BY <1>1, <1>3, <1>4, <1>5, <1>6 DEF Issued
<1>8. events = {} /\ turns = {} /\ k = ip.num_chunks
  BY <1>7 DEF Admitted
<1>9. Cardinality(flying \ {chunk}) = 0
  BY <1>3, <1>4, <1>6, <1>8
<1>10. flying \ {chunk} = {}
  BY <1>4, <1>9, FS_EmptySet
<1>11. c.pending \in Seq(Entry) /\ c.pending # <<>> /\ known /\ c.queued
  BY <1>1 DEF Issued, Cursor, Entry
<1>12. /\ Tail(c.pending) \in Seq(Entry) /\ Len(Tail(c.pending)) = Len(c.pending) - 1
       /\ Len(c.pending) \in Nat \ {0}
  BY <1>11, HeadTailProperties, EmptySeq
<1>13. More(c) <=> Tail(c.pending) # <<>>
  <2> DEFINE n == Len(c.pending)
             m == Len(Tail(c.pending))
  <2>1. Tail(c.pending) = <<>> <=> m = 0
    BY <1>12, EmptySeq
  <2>2. More(c) <=> n > 1
    BY DEF More
  <2>3. n \in Nat /\ n # 0 /\ m = n - 1
    BY <1>12
  <2> HIDE DEF n, m
  <2>4. m # 0 <=> n > 1
    BY <2>3
  <2> QED
    BY <2>1, <2>2, <2>4
<1>14. Describes(ip, Head(c.pending))
  BY <1>1 DEF Issued
<1>15. CASE More(c)
  <2>1. Waiting(d, {e}, {}, {}, known)
    BY <1>11, <1>13, <1>15 DEF Waiting, Popped, Starts
  <2> QED
    BY <1>8, <1>10, <1>11, <1>13, <1>14, <1>15, <2>1 DEF StreamState, NextEvents
<1>16. CASE ~ More(c)
  <2>1. Idle(d, {}, {}, {}, known)
    BY <1>11, <1>13, <1>16 DEF Idle, Popped
  <2> QED
    BY <1>8, <1>10, <1>11, <1>13, <1>14, <1>16, <2>1 DEF StreamState, NextEvents
<1> QED
  BY <1>15, <1>16

(* The gate in front of a segment becomes known: its streams wake up. *)
LEMMA WokenState ==
  ASSUME NEW c \in Cursor, NEW events, NEW turns, NEW flying,
         StreamState(c, events, turns, flying, FALSE), NEW e, e.chunk = 0
  PROVE  /\ NeedsEvent(c, TRUE) /\ events = {}
         /\ StreamState([c EXCEPT !.queued = TRUE], {e}, turns, flying, TRUE)
<1>1. Idle(c, events, turns, flying, FALSE)
  BY DEF StreamState, Waiting, Issued
<1>2. /\ [c EXCEPT !.queued = TRUE].pending = c.pending
      /\ [c EXCEPT !.queued = TRUE].queued = TRUE
  BY DEF Cursor
<1>3. Waiting([c EXCEPT !.queued = TRUE], {e}, turns, flying, TRUE)
  BY <1>1, <1>2 DEF Idle, Waiting
<1> QED
  BY <1>1, <1>3 DEF StreamState, Idle, NeedsEvent

(* A stream in a queue has work, and one without has no source. *)
LEMMA StateHasWork ==
  ASSUME NEW c \in Cursor, NEW events, NEW turns, NEW flying, NEW known \in BOOLEAN,
         StreamState(c, events, turns, flying, known)
  PROVE  /\ events = {} \/ turns = {}
         /\ \A e, f \in events : e = f
         /\ c.queued => known /\ c.pending # <<>>
         /\ known => c.queued = (c.pending # <<>>)
         /\ c.queued <=> events # {} \/ turns # {} \/ flying # {}
<1>1. /\ c.queued \in BOOLEAN
      /\ c.in_progress.num_chunks \in Nat /\ c.in_progress.chunks_dispatched \in Nat
  BY DEF Cursor, InProgress
<1>2. CASE Idle(c, events, turns, flying, known)
  BY <1>1, <1>2 DEF Idle
<1>3. CASE Waiting(c, events, turns, flying, known)
  BY <1>1, <1>3 DEF Waiting
<1>4. ASSUME NEW k \in Nat, Issued(c, events, turns, flying, known, k)
      PROVE  /\ events = {} \/ turns = {}
             /\ \A e, f \in events : e = f
             /\ c.queued /\ known /\ c.pending # <<>>
             /\ events # {} \/ turns # {} \/ flying # {}
  <2>1. Admitted(c.in_progress, events, turns, k)
    BY <1>4 DEF Issued
  <2>2. c.in_progress.chunks_dispatched < c.in_progress.num_chunks
    BY <1>4 DEF Issued, Describes
  <2>3. flying = {} => k = c.in_progress.chunks_dispatched
    BY <1>1, <1>4, FS_EmptySet DEF Issued
  <2>4. events # {} \/ turns # {} \/ flying # {}
    BY <1>1, <2>1, <2>2, <2>3 DEF Admitted
  <2> QED
    BY <1>4, <2>1, <2>4 DEF Issued, Admitted
<1> QED
  BY <1>1, <1>2, <1>3, <1>4 DEF StreamState

-----------------------------------------------------------------------------
(***************************************************************************)
(* The loop.                                                               *)
(***************************************************************************)
(* What has a stream has one of run()'s, and a chunk is in its own channel. *)
Placed ==
  /\ \A s \in DOMAIN cursors : SegmentOf(s) \in 1 .. Len(segments[CoreOf(s)])
  /\ \A e \in heap : e.stream \in DOMAIN cursors
  /\ turn # NoTurn => turn.stream \in DOMAIN cursors
  /\ \A ch \in Channels : \A chunk \in channels[ch].queue :
       chunk.stream \in DOMAIN cursors /\ ch = ChannelOf(chunk.window)

(* Between runs there is no turn and nothing in a channel. *)
AtRest == ~ running => turn = NoTurn /\ \A ch \in Channels : channels[ch].queue = {}

LoopInv ==
  /\ LoopTypeOK
  /\ Placed
  /\ AtRest
  /\ \A s \in DOMAIN cursors : StreamOK(s)

LEMMA StreamFacts ==
  ASSUME LoopInv, NEW s \in DOMAIN cursors
  PROVE  /\ s \in Streams /\ CoreOf(s) \in Cores /\ SegmentOf(s) \in Nat \ {0} /\ AxiOf(s) \in AxiIds
         /\ s = <<CoreOf(s), SegmentOf(s), AxiOf(s)>>
         /\ cursors[s] \in Cursor
         /\ segments[CoreOf(s)] \in Seq(Segment)
         /\ SegmentOf(s) \in DOMAIN segments[CoreOf(s)]
         /\ segments[CoreOf(s)][SegmentOf(s)] \in Segment
         /\ GateOf(s) \in Nat /\ Known(s) \in BOOLEAN
         /\ port_free[CoreOf(s)] \in Nat
         /\ Flying(s) \in SUBSET Chunk
<1>1. s \in Streams /\ cursors[s] \in Cursor
  BY DEF LoopInv, LoopTypeOK
<1>2. /\ CoreOf(s) \in Cores /\ SegmentOf(s) \in Nat \ {0} /\ AxiOf(s) \in AxiIds
      /\ s = <<CoreOf(s), SegmentOf(s), AxiOf(s)>>
  BY <1>1 DEF Streams, CoreOf, SegmentOf, AxiOf
<1>3. segments[CoreOf(s)] \in Seq(Segment) /\ port_free[CoreOf(s)] \in Nat
  BY <1>2 DEF LoopInv, LoopTypeOK
<1>4. SegmentOf(s) \in DOMAIN segments[CoreOf(s)]
  BY <1>3, LenProperties DEF LoopInv, Placed
<1>5. segments[CoreOf(s)][SegmentOf(s)] \in Segment
  BY <1>3, <1>4, ElementOfSeq, LenProperties
<1>6. GateOf(s) \in Nat /\ Known(s) \in BOOLEAN
  BY <1>5 DEF GateOf, Known, Segment
<1>7. \A ch \in Channels : channels[ch].queue \subseteq Chunk
  BY DEF LoopInv, LoopTypeOK, ChannelState
<1>8. Flying(s) \in SUBSET Chunk
  BY <1>7 DEF Flying
<1> QED
  BY <1>1, <1>2, <1>3, <1>4, <1>5, <1>6, <1>8

LEMMA IdGateNat ==
  ASSUME NEW c \in Cursor
  PROVE  IdGate(c) \in Nat
<1>1. c.outstanding \in SUBSET [txn_id : Nat, complete : Nat] /\ MaxOutstanding \in Nat \ {0}
  BY FrontEndAssumption DEF Cursor
<1>2. CASE Cardinality(c.outstanding) >= MaxOutstanding
  <2>1. c.outstanding # {}
    BY <1>1, <1>2, FS_EmptySet
  <2>2. {o.complete : o \in c.outstanding} \in SUBSET Nat /\ {o.complete : o \in c.outstanding} # {}
    BY <1>1, <2>1
  <2> QED
    BY <1>2, <2>2, NatMin DEF IdGate
<1>3. CASE ~ (Cardinality(c.outstanding) >= MaxOutstanding)
  BY <1>3 DEF IdGate
<1> QED
  BY <1>2, <1>3

(* The cycle to issue at is a cycle, after all three that it waits for. *)
LEMMA IssueCycleNat ==
  ASSUME NEW s, port_free[CoreOf(s)] \in Nat, NEW c \in Cursor, NEW gate \in Nat
  PROVE  /\ IssueCycle(s, c, gate) \in Nat
         /\ port_free[CoreOf(s)] <= IssueCycle(s, c, gate)
         /\ IdGate(c) <= IssueCycle(s, c, gate) /\ gate <= IssueCycle(s, c, gate)
BY IdGateNat DEF IssueCycle, Later

(* The heap has a top while it is not empty. *)
LEMMA TopInHeap ==
  ASSUME LoopInv, heap # {}
  PROVE  Top \in heap
<1>1. \A e \in heap : e.ready \in Nat /\ e.stream \in Streams /\ e.stream \in DOMAIN cursors
  BY DEF LoopInv, LoopTypeOK, Placed, HeapEvent
<1>2. \A e \in heap : e.stream[1] \in Nat /\ e.stream[2] \in Nat /\ e.stream[3] \in Nat
  BY <1>1, FrontEndAssumption DEF Streams
<1> DEFINE R == {e.ready : e \in heap}
           H1 == {e \in heap : e.ready = Min(R)}
           C == {e.stream[1] : e \in H1}
           H2 == {e \in H1 : e.stream[1] = Min(C)}
           S == {e.stream[2] : e \in H2}
           H3 == {e \in H2 : e.stream[2] = Min(S)}
           A == {e.stream[3] : e \in H3}
           H4 == {e \in H3 : e.stream[3] = Min(A)}
<1>3. Min(R) \in R /\ \A x \in R : Min(R) <= x
  <2>1. R \in SUBSET Nat /\ R # {}
    BY <1>1
  <2> QED
    BY <2>1, NatMin
<1>4. H1 # {} /\ H1 \subseteq heap
  BY <1>3
<1>5. Min(C) \in C /\ \A x \in C : Min(C) <= x
  <2>1. C \in SUBSET Nat /\ C # {}
    BY <1>2, <1>4
  <2> HIDE DEF C
  <2> QED
    BY <2>1, NatMin
<1>6. H2 # {} /\ H2 \subseteq heap
  BY <1>4, <1>5
<1>7. Min(S) \in S /\ \A x \in S : Min(S) <= x
  <2>1. S \in SUBSET Nat /\ S # {}
    BY <1>2, <1>6
  <2> HIDE DEF S
  <2> QED
    BY <2>1, NatMin
<1>8. H3 # {} /\ H3 \subseteq heap
  BY <1>6, <1>7
<1>9. Min(A) \in A /\ \A x \in A : Min(A) <= x
  <2>1. A \in SUBSET Nat /\ A # {}
    BY <1>2, <1>8
  <2> HIDE DEF A
  <2> QED
    BY <2>1, NatMin
<1>10. PICK m \in heap : m \in H4
  BY <1>8, <1>9
<1>11. ASSUME NEW f \in heap \ {m} PROVE Precedes(m, f)
  <2>1. m.ready <= f.ready
    BY <1>3, <1>10
  <2>2. CASE f \notin H1
    <3>1. m.ready # f.ready
      BY <1>10, <2>2
    <3> QED
      BY <1>1, <2>1, <3>1 DEF Precedes
  <2>3. CASE f \in H1 /\ f \notin H2
    <3>1. m.stream[1] < f.stream[1]
      <4>1. Min(C) <= f.stream[1] /\ Min(C) # f.stream[1] /\ m.stream[1] = Min(C)
        BY <1>5, <1>10, <2>3
      <4> QED
        BY <1>2, <4>1
    <3>2. StreamPrecedes(m.stream, f.stream)
      BY <3>1 DEF StreamPrecedes
    <3> QED
      BY <1>10, <2>3, <3>2 DEF Precedes
  <2>4. CASE f \in H2 /\ f \notin H3
    <3>1. m.stream[2] < f.stream[2] /\ m.stream[1] = f.stream[1]
      <4>1. Min(S) <= f.stream[2] /\ Min(S) # f.stream[2] /\ m.stream[2] = Min(S)
        BY <1>7, <1>10, <2>4
      <4> QED
        BY <1>2, <1>10, <2>4, <4>1
    <3>2. StreamPrecedes(m.stream, f.stream)
      <4>1. \A j \in 1 .. 2 - 1 : m.stream[j] = f.stream[j]
        BY <3>1
      <4> QED
        BY <3>1, <4>1 DEF StreamPrecedes
    <3> QED
      BY <1>10, <2>4, <3>2 DEF Precedes
  <2>5. CASE f \in H3
    <3>1. m.stream[1] = f.stream[1] /\ m.stream[2] = f.stream[2]
      BY <1>10, <2>5
    <3>2. m.stream[3] # f.stream[3]
      <4>1. SUFFICES ASSUME m.stream[3] = f.stream[3] PROVE FALSE
        OBVIOUS
      <4>2. m.stream = f.stream
        BY <1>1, <3>1, <4>1 DEF Streams
      <4>3. PICK s \in DOMAIN cursors : m.stream = s
        BY <1>1
      <4>4. m \in EventsOf(s) /\ f \in EventsOf(s)
        BY <4>2, <4>3 DEF EventsOf
      <4>5. StreamState(cursors[s], EventsOf(s), TurnsOf(s), Flying(s), Known(s))
        BY DEF LoopInv, StreamOK
      <4> QED
        BY <4>4, <4>5, StateHasWork, StreamFacts
    <3>3. m.stream[3] < f.stream[3]
      <4>1. Min(A) <= f.stream[3] /\ m.stream[3] = Min(A)
        BY <1>9, <1>10, <2>5
      <4> QED
        BY <1>2, <3>2, <4>1
    <3>4. StreamPrecedes(m.stream, f.stream)
      <4>1. \A j \in 1 .. 3 - 1 : m.stream[j] = f.stream[j]
        BY <3>1
      <4> QED
        BY <3>3, <4>1 DEF StreamPrecedes
    <3> QED
      BY <1>10, <2>5, <3>4 DEF Precedes
  <2> QED
    BY <2>2, <2>3, <2>4, <2>5
<1> QED
  BY <1>11 DEF Top

-----------------------------------------------------------------------------
LEMMA EventIsNoTurn ==
  ASSUME NEW e \in HeapEvent
  PROVE  e # NoTurn
<1>1. e.ready \in Nat /\ NoTurn.ready = -1
  BY DEF HeapEvent, NoTurn
<1> QED
  BY <1>1

(* A stream none of whose parts changes stays what it is. *)
LEMMA StreamFrame ==
  ASSUME NEW t, StreamOK(t), cursors'[t] = cursors[t], EventsOf(t)' = EventsOf(t),
         TurnsOf(t)' = TurnsOf(t), Flying(t)' = Flying(t), Known(t)' = Known(t)
  PROVE  StreamOK(t)'
BY DEF StreamOK

LEMMA TurnsAlone ==
  ASSUME NEW t
  PROVE  /\ turn = NoTurn => TurnsOf(t) = {}
         /\ turn # NoTurn => TurnsOf(t) = IF turn.stream = t THEN {turn} ELSE {}
BY DEF TurnsOf

(* The event at the top is the only one of its stream. *)
LEMMA PopTop ==
  ASSUME LoopInv, AtTop
  PROVE  \E e \in HeapEvent, s \in DOMAIN cursors :
           /\ e = Top /\ e \in heap /\ e.stream = s /\ EventsOf(s) = {e}
           /\ \A t : TurnsOf(t) = {}
<1>1. Top \in heap
  BY TopInHeap DEF AtTop
<1>2. PICK e \in heap : e = Top
  BY <1>1
<1>3. e \in HeapEvent /\ e.stream \in DOMAIN cursors
  BY DEF LoopInv, LoopTypeOK, Placed
<1>4. PICK s \in DOMAIN cursors : s = e.stream
  BY <1>3
<1>5. e \in EventsOf(s)
  BY <1>4 DEF EventsOf
<1>6. EventsOf(s) = {e}
  BY <1>5, StateHasWork, StreamFacts DEF LoopInv, StreamOK
<1>7. \A t : TurnsOf(t) = {}
  BY TurnsAlone DEF AtTop
<1> QED
  BY <1>2, <1>3, <1>4, <1>6, <1>7

LEMMA StartedTyped ==
  ASSUME NEW entry \in Entry, NEW issue \in Nat, NEW wait \in Nat
  PROVE  Started(entry, issue, wait) \in InProgress
BY ChunkFacts DEF Entry, Started, InProgress

LEMMA RescheduleLoop ==
  ASSUME LoopInv, Reschedule, UNCHANGED channels
  PROVE  LoopInv'
<1>1. AtTop /\ Top.chunk = 0 /\ heap' = (heap \ {Top}) \cup {RefreshedEvent(Top)}
      /\ UNCHANGED <<segments, cursors, port_free, results, finished, running, turn, calls, channels>>
  BY DEF Reschedule
<1>2. PICK e \in HeapEvent, s \in DOMAIN cursors :
        /\ e = Top /\ e \in heap /\ e.stream = s /\ EventsOf(s) = {e}
        /\ \A t : TurnsOf(t) = {}
  BY <1>1, PopTop
<1>3. PICK f : f = RefreshedEvent(e)
  OBVIOUS
<1>4. f \in HeapEvent /\ f.stream = s /\ f.chunk = 0
  <2>1. IssueCycle(s, cursors[s], GateOf(s)) \in Nat
    BY StreamFacts, IssueCycleNat
  <2> QED
    BY <1>1, <1>2, <1>3, <2>1 DEF RefreshedEvent, HeapEvent
<1>5. heap' = (heap \ {e}) \cup {f}
  BY <1>1, <1>2, <1>3
<1>6. LoopTypeOK'
  BY <1>1, <1>4, <1>5 DEF LoopInv, LoopTypeOK
<1>7. Placed'
  BY <1>1, <1>4, <1>5 DEF LoopInv, Placed
<1>8. AtRest'
  BY <1>1 DEF LoopInv, AtRest
<1>9. ASSUME NEW t \in DOMAIN cursors PROVE StreamOK(t)'
  <2>1. /\ cursors'[t] = cursors[t] /\ TurnsOf(t)' = TurnsOf(t) /\ Flying(t)' = Flying(t)
        /\ Known(t)' = Known(t)
    BY <1>1 DEF TurnsOf, Flying, Known
  <2>2. CASE t # s
    <3>1. EventsOf(t)' = EventsOf(t)
      BY <1>2, <1>4, <1>5, <2>2 DEF EventsOf
    <3> QED
      BY <2>1, <3>1, StreamFrame DEF LoopInv
  <2>3. CASE t = s
    <3>1. EventsOf(s)' = {f}
      BY <1>2, <1>4, <1>5 DEF EventsOf
    <3>2. StreamState(cursors[s], {e}, {}, Flying(s), Known(s))
      BY <1>2 DEF LoopInv, StreamOK
    <3>3. Waiting(cursors[s], {e}, {}, Flying(s), Known(s))
      BY <1>1, <1>2, <3>2 DEF StreamState, Idle, Issued, Admitted
    <3>4. Waiting(cursors[s], {f}, {}, Flying(s), Known(s))
      BY <1>4, <3>3 DEF Waiting
    <3> QED
      BY <1>2, <2>1, <2>3, <3>1, <3>4 DEF StreamOK, StreamState
  <2> QED
    BY <2>2, <2>3
<1> QED
  BY <1>1, <1>6, <1>7, <1>8, <1>9 DEF LoopInv

LEMMA IssueLoop ==
  ASSUME LoopInv, Issue, UNCHANGED channels
  PROVE  LoopInv'
<1>1. PICK e \in HeapEvent, s \in DOMAIN cursors :
        /\ e = Top /\ e \in heap /\ e.stream = s /\ EventsOf(s) = {e}
        /\ \A t : TurnsOf(t) = {}
  BY PopTop DEF Issue
<1> DEFINE c == cursors[s]
           issue == e.ready
<1>2. /\ e.chunk = 0 /\ turn = NoTurn /\ running
      /\ cursors' = [cursors EXCEPT ![s] =
           [c EXCEPT !.outstanding = StillOutstanding(@, issue),
                     !.in_progress = Started(Head(c.pending), issue, OutstandingWait(s, c))]]
      /\ port_free' = [port_free EXCEPT ![CoreOf(s)] = PortFreeAfter(issue)]
      /\ heap' = heap \ {e} /\ turn' = e
      /\ UNCHANGED <<segments, results, finished, running, calls, channels>>
  BY <1>1 DEF Issue, AtTop
<1>3. /\ c \in Cursor /\ CoreOf(s) \in Cores /\ GateOf(s) \in Nat
      /\ port_free[CoreOf(s)] \in Nat
  BY StreamFacts
<1>4. issue \in Nat /\ PortFreeAfter(issue) \in Nat
  BY DEF HeapEvent, PortFreeAfter
<1>5. OutstandingWait(s, c) \in Nat
  BY <1>3, IdGateNat DEF OutstandingWait, Later
<1>6. StreamState(c, {e}, {}, Flying(s), Known(s))
  BY <1>1 DEF LoopInv, StreamOK
<1>7. Waiting(c, {e}, {}, Flying(s), Known(s))
  BY <1>2, <1>6 DEF StreamState, Idle, Issued, Admitted
<1>8. Head(c.pending) \in Entry
  <2>1. c.pending \in Seq(Entry) /\ c.pending # <<>>
    BY <1>3, <1>7 DEF Cursor, Entry, Waiting
  <2> QED
    BY <2>1, HeadTailProperties
<1> DEFINE started == Started(Head(c.pending), issue, OutstandingWait(s, c))
           d == [c EXCEPT !.outstanding = StillOutstanding(@, issue), !.in_progress = started]
<1>9. started \in InProgress
  BY <1>4, <1>5, <1>8, StartedTyped
<1>10. /\ d \in Cursor /\ d.queued = c.queued /\ d.pending = c.pending
       /\ d.in_progress = started
  BY <1>3, <1>9 DEF Cursor, StillOutstanding
<1>11. /\ DOMAIN cursors' = DOMAIN cursors /\ cursors'[s] = d
       /\ \A t \in DOMAIN cursors : t # s => cursors'[t] = cursors[t]
  BY <1>2
<1> HIDE DEF d, started
<1>12. LoopTypeOK'
  <2>1. port_free' \in [Cores -> Nat]
    BY <1>2, <1>4 DEF LoopInv, LoopTypeOK
  <2>2. \A t \in DOMAIN cursors' : cursors'[t] \in Cursor
    BY <1>10, <1>11 DEF LoopInv, LoopTypeOK
  <2> QED
    BY <1>2, <1>11, <2>1, <2>2 DEF LoopInv, LoopTypeOK
<1>13. Placed'
  BY <1>1, <1>2, <1>11 DEF LoopInv, Placed
<1>14. AtRest'
  BY <1>2 DEF LoopInv, AtRest
<1>15. ASSUME NEW t \in DOMAIN cursors PROVE StreamOK(t)'
  <2>1. Flying(t)' = Flying(t) /\ Known(t)' = Known(t)
    BY <1>2 DEF Flying, Known
  <2>2. e # NoTurn
    BY EventIsNoTurn
  <2>3. TurnsOf(t)' = IF t = s THEN {e} ELSE {}
    BY <1>1, <1>2, <2>2 DEF TurnsOf
  <2>4. CASE t # s
    <3>1. EventsOf(t)' = EventsOf(t)
      BY <1>1, <1>2, <2>4 DEF EventsOf
    <3> QED
      BY <1>1, <1>11, <2>1, <2>3, <2>4, <3>1, StreamFrame DEF LoopInv
  <2>5. CASE t = s
    <3>1. EventsOf(s)' = {}
      BY <1>1, <1>2 DEF EventsOf
    <3>2. StreamState(d, {}, {e}, Flying(s), Known(s))
      BY <1>2, <1>3, <1>6, <1>10, IssueState DEF started
    <3> QED
      BY <1>11, <2>1, <2>3, <2>5, <3>1, <3>2 DEF StreamOK
  <2> QED
    BY <2>4, <2>5
<1> QED
  BY <1>11, <1>12, <1>13, <1>14, <1>15 DEF LoopInv

LEMMA ResumeLoop ==
  ASSUME LoopInv, Resume, UNCHANGED channels
  PROVE  LoopInv'
<1>1. PICK e \in HeapEvent, s \in DOMAIN cursors :
        /\ e = Top /\ e \in heap /\ e.stream = s /\ EventsOf(s) = {e}
        /\ \A t : TurnsOf(t) = {}
  BY PopTop DEF Resume
<1>2. /\ e.chunk > 0 /\ running /\ heap' = heap \ {e} /\ turn' = e
      /\ UNCHANGED <<segments, cursors, port_free, results, finished, running, calls, channels>>
  BY <1>1 DEF Resume, AtTop
<1>3. LoopTypeOK'
  BY <1>2 DEF LoopInv, LoopTypeOK
<1>4. Placed'
  BY <1>1, <1>2 DEF LoopInv, Placed
<1>5. AtRest'
  BY <1>2 DEF LoopInv, AtRest
<1>6. ASSUME NEW t \in DOMAIN cursors PROVE StreamOK(t)'
  <2>1. cursors'[t] = cursors[t] /\ Flying(t)' = Flying(t) /\ Known(t)' = Known(t)
    BY <1>2 DEF Flying, Known
  <2>2. TurnsOf(t)' = IF t = s THEN {e} ELSE {}
    BY <1>1, <1>2, EventIsNoTurn DEF TurnsOf
  <2>3. CASE t # s
    <3>1. EventsOf(t)' = EventsOf(t)
      BY <1>1, <1>2, <2>3 DEF EventsOf
    <3> QED
      BY <1>1, <2>1, <2>2, <2>3, <3>1, StreamFrame DEF LoopInv
  <2>4. CASE t = s
    <3>1. EventsOf(s)' = {} /\ e.chunk \in Nat
      BY <1>1, <1>2 DEF EventsOf, HeapEvent
    <3>2. StreamState(cursors[s], {e}, {}, Flying(s), Known(s))
      BY <1>1 DEF LoopInv, StreamOK
    <3>3. StreamState(cursors[s], {}, {e}, Flying(s), Known(s))
      BY <1>2, <3>1, <3>2, ResumeState
    <3> QED
      BY <2>1, <2>2, <2>4, <3>1, <3>3 DEF StreamOK
  <2> QED
    BY <2>3, <2>4
<1> QED
  BY <1>2, <1>3, <1>4, <1>5, <1>6 DEF LoopInv

(* The chunk of the turn is one of its transaction's, and its channel exists. *)
LEMMA TurnFacts ==
  ASSUME LoopInv, turn # NoTurn
  PROVE  \E e \in HeapEvent, s \in DOMAIN cursors, chunk \in Chunk, ch \in Channels :
           /\ turn = e /\ e.stream = s /\ TurnsOf(s) = {e}
           /\ chunk = ChunkOf(turn) /\ ch = TurnChannel /\ ch = ChannelOf(chunk.window)
           /\ chunk.stream = s
           /\ chunk.window = cursors[s].in_progress.first_window + e.chunk
<1>1. PICK e \in HeapEvent, s \in DOMAIN cursors : turn = e /\ e.stream = s
  BY DEF LoopInv, LoopTypeOK, Placed
<1>2. TurnsOf(s) = {e}
  BY <1>1, EventIsNoTurn DEF TurnsOf
<1> DEFINE ip == cursors[s].in_progress
<1>3. /\ cursors[s] \in Cursor /\ ip \in InProgress /\ s \in Streams
      /\ Flying(s) \in SUBSET Chunk /\ e.chunk \in Nat
  BY StreamFacts DEF Cursor, HeapEvent
<1>4. PICK chunk : chunk = ChunkOf(turn)
  OBVIOUS
<1>5. /\ chunk \in Chunk /\ chunk.stream = s /\ chunk.window = ip.first_window + e.chunk
  BY <1>1, <1>3, <1>4 DEF ChunkOf, Chunk, InProgress
<1>6. /\ e.chunk < ip.num_chunks /\ cursors[s].pending # <<>>
      /\ Describes(ip, Head(cursors[s].pending))
  <2>1. StreamState(cursors[s], EventsOf(s), {e}, Flying(s), Known(s))
    BY <1>2 DEF LoopInv, StreamOK
  <2>2. PICK next : next = Event(0, s, e.chunk + 1)
    OBVIOUS
  <2>3. Behind(next, e) /\ ChunkAt(chunk, ip, e)
    BY <1>5, <2>2 DEF Event, Behind, ChunkAt
  <2> QED
    BY <1>3, <2>1, <2>3, AdmitState
<1>7. Head(cursors[s].pending) \in Entry
  <2>1. cursors[s].pending \in Seq(Entry)
    BY <1>3 DEF Cursor, Entry
  <2> QED
    BY <1>6, <2>1, HeadTailProperties
<1>8. PICK txn \in Txns : txn = Head(cursors[s].pending).txn
  BY <1>7 DEF Entry
<1>9. ChannelOf(FirstWindow(txn) + e.chunk) \in Channels
  <2>1. e.chunk \in 0 .. NumChunks(txn) - 1
    BY <1>3, <1>6, <1>8, ChunkFacts DEF Describes
  <2> QED
    BY <2>1, ChannelAssumption
<1>10. ChannelOf(chunk.window) \in Channels /\ TurnChannel = ChannelOf(chunk.window)
  BY <1>4, <1>5, <1>6, <1>8, <1>9 DEF Describes, TurnChannel
<1> QED
  BY <1>1, <1>2, <1>4, <1>5, <1>10

(* The chunk of the turn is one of its transaction's, and in no channel yet. *)
LEMMA TurnChunk ==
  ASSUME LoopInv, turn # NoTurn
  PROVE  \E chunk \in Chunk, txn \in Txns : \E i \in 0 .. NumChunks(txn) - 1 :
           /\ chunk = ChunkOf(turn) /\ chunk.window = FirstWindow(txn) + i
           /\ chunk.stream \in DOMAIN cursors
           /\ cursors[chunk.stream].pending # <<>>
           /\ txn = Head(cursors[chunk.stream].pending).txn
           /\ \A ch \in Channels : chunk \notin channels[ch].queue
<1>1. PICK e \in HeapEvent, s \in DOMAIN cursors, chunk \in Chunk :
        /\ turn = e /\ e.stream = s /\ TurnsOf(s) = {e}
        /\ chunk = ChunkOf(turn) /\ chunk.stream = s
        /\ chunk.window = cursors[s].in_progress.first_window + e.chunk
  BY TurnFacts
<1> DEFINE ip == cursors[s].in_progress
<1>2. cursors[s] \in Cursor /\ Flying(s) \in SUBSET Chunk /\ e.chunk \in Nat
  BY StreamFacts DEF HeapEvent
<1>3. /\ chunk \notin Flying(s)
      /\ e.chunk < ip.num_chunks /\ cursors[s].pending # <<>>
      /\ Describes(ip, Head(cursors[s].pending))
  <2>1. StreamState(cursors[s], EventsOf(s), {e}, Flying(s), Known(s))
    BY <1>1 DEF LoopInv, StreamOK
  <2>2. PICK next : next = Event(0, s, e.chunk + 1)
    OBVIOUS
  <2>3. Behind(next, e) /\ ChunkAt(chunk, ip, e)
    BY <1>1, <2>2 DEF Event, Behind, ChunkAt
  <2> QED
    BY <1>2, <2>1, <2>3, AdmitState
<1>4. Head(cursors[s].pending) \in Entry
  <2>1. cursors[s].pending \in Seq(Entry)
    BY <1>2 DEF Cursor, Entry
  <2> QED
    BY <1>3, <2>1, HeadTailProperties
<1>5. PICK txn \in Txns : txn = Head(cursors[s].pending).txn
  BY <1>4 DEF Entry
<1>6. e.chunk \in 0 .. NumChunks(txn) - 1 /\ chunk.window = FirstWindow(txn) + e.chunk
  BY <1>1, <1>2, <1>3, <1>5, ChunkFacts DEF Describes
<1>7. \A ch \in Channels : chunk \notin channels[ch].queue
  BY <1>1, <1>3 DEF Flying
<1> QED
  BY <1>1, <1>3, <1>5, <1>6, <1>7

LEMMA AdmitLoop ==
  ASSUME LoopInv, Admit
  PROVE  LoopInv'
<1>1. PICK e \in HeapEvent, s \in DOMAIN cursors, chunk \in Chunk, ch \in Channels :
           /\ turn = e /\ e.stream = s /\ TurnsOf(s) = {e}
           /\ chunk = ChunkOf(turn) /\ ch = TurnChannel /\ ch = ChannelOf(chunk.window)
           /\ chunk.stream = s
           /\ chunk.window = cursors[s].in_progress.first_window + e.chunk
  BY TurnFacts DEF Admit
<1> DEFINE ip == cursors[s].in_progress
<1>2. PICK next, after :
        /\ next = Event(ip.issue_cycle, s, e.chunk + 1)
        /\ after = EventsBehind(next, ip, e)
  OBVIOUS
<1>3. /\ turn # NoTurn
      /\ heap' = heap \cup after
      /\ turn' = NoTurn
      /\ channels' = [channels EXCEPT ![ch].queue = @ \cup {chunk},
                                      ![ch].last_ready = Later(@, chunk.ready)]
      /\ UNCHANGED <<segments, cursors, port_free, results, finished, running, calls>>
  BY <1>1, <1>2 DEF Admit, AdmitTurn, EventsBehind
<1>4. /\ cursors[s] \in Cursor /\ s \in Streams /\ e.chunk \in Nat /\ ip \in InProgress
      /\ Flying(s) \in SUBSET Chunk
  BY StreamFacts DEF Cursor, HeapEvent
<1>5. /\ next \in HeapEvent /\ next.stream = s /\ next.chunk = e.chunk + 1
      /\ after \subseteq {next}
  BY <1>2, <1>4 DEF Event, HeapEvent, InProgress, EventsBehind
<1>6. /\ channels' \in [Channels -> ChannelState]
      /\ channels'[ch].queue = channels[ch].queue \cup {chunk}
      /\ \A k \in Channels : k # ch => channels'[k] = channels[k]
  <2>1. channels \in [Channels -> ChannelState]
    BY DEF LoopInv, LoopTypeOK
  <2>2. Later(channels[ch].last_ready, chunk.ready) \in Nat
    BY <2>1 DEF ChannelState, Chunk, Later
  <2> QED
    BY <1>3, <2>1, <2>2 DEF ChannelState
<1>7. LoopTypeOK'
  BY <1>3, <1>5, <1>6 DEF LoopInv, LoopTypeOK
<1>8. Placed'
  <2>1. \A k \in Channels : \A x \in channels'[k].queue :
          x.stream \in DOMAIN cursors /\ k = ChannelOf(x.window)
    BY <1>1, <1>6 DEF LoopInv, Placed
  <2>2. \A x \in heap' : x.stream \in DOMAIN cursors
    BY <1>3, <1>5 DEF LoopInv, Placed
  <2> QED
    BY <1>3, <2>1, <2>2 DEF LoopInv, Placed
<1>9. AtRest'
  BY <1>3 DEF LoopInv, AtRest
<1>10. Flying(s)' = Flying(s) \cup {chunk}
  BY <1>1, <1>6 DEF Flying
<1>11. \A t : t # s => Flying(t)' = Flying(t)
  BY <1>1, <1>6 DEF Flying
<1>12. \A t : TurnsOf(t)' = {}
  BY <1>3 DEF TurnsOf
<1>13. ASSUME NEW t \in DOMAIN cursors PROVE StreamOK(t)'
  <2>1. cursors'[t] = cursors[t] /\ Known(t)' = Known(t)
    BY <1>3 DEF Known
  <2>2. CASE t # s
    <3>1. EventsOf(t)' = EventsOf(t)
      BY <1>3, <1>5, <2>2 DEF EventsOf
    <3>2. TurnsOf(t) = {}
      BY <1>1, <2>2 DEF TurnsOf
    <3> QED
      BY <1>11, <1>12, <2>1, <2>2, <3>1, <3>2, StreamFrame DEF LoopInv
  <2>3. CASE t = s
    <3>1. StreamState(cursors[s], EventsOf(s), {e}, Flying(s), Known(s))
      BY <1>1 DEF LoopInv, StreamOK
    <3>2. /\ EventsOf(s) = {}
          /\ StreamState(cursors[s], after, {},
                         Flying(s) \cup {chunk}, Known(s))
      <4>1. Behind(next, e) /\ ChunkAt(chunk, ip, e)
        BY <1>1, <1>5 DEF Behind, ChunkAt
      <4>2. cursors[s] \in Cursor /\ Flying(s) \in SUBSET Chunk
        BY <1>4
      <4>3. /\ EventsOf(s) = {}
            /\ StreamState(cursors[s], EventsBehind(next, ip, e), {},
                           Flying(s) \cup {chunk}, Known(s))
        BY <3>1, <4>1, <4>2, AdmitState
      <4> QED
        BY <1>2, <4>3
    <3>3. EventsOf(s)' = after
      BY <1>3, <1>5, <3>2 DEF EventsOf
    <3> QED
      BY <1>10, <1>12, <2>1, <2>3, <3>2, <3>3 DEF StreamOK
  <2> QED
    BY <2>2, <2>3
<1> QED
  BY <1>3, <1>7, <1>8, <1>9, <1>13 DEF LoopInv

-----------------------------------------------------------------------------
(***************************************************************************)
(* A chunk comes back.                                                     *)
(***************************************************************************)
(* Stream s loses chunk from the channels and nothing else changes there. *)
Lands(s, chunk) ==
  /\ channels' \in [Channels -> ChannelState]
  /\ Flying(s)' = Flying(s) \ {chunk}
  /\ \A t : t # s => Flying(t)' = Flying(t)
  /\ \A ch \in Channels : channels'[ch].queue \subseteq channels[ch].queue

LEMMA DrainFacts ==
  ASSUME LoopInv, NEW ch \in Channels, DrainOne(ch)
  PROVE  \E s \in DOMAIN cursors, chunk \in Chunk, complete \in Nat :
           /\ chunk \in Flying(s) /\ chunk.stream = s
           /\ Lands(s, chunk) /\ Route(chunk, complete)
           /\ channels[ch].queue # {}
<1>1. channels \in [Channels -> ChannelState]
  BY DEF LoopInv, LoopTypeOK
<1>a. PICK chunk \in channels[ch].queue, delay \in Delays(ch) : \E complete :
        /\ complete = Later(channels[ch].bus_free, chunk.ready) + delay
        /\ channels' = [channels EXCEPT
                      ![ch].queue = @ \ {chunk}, ![ch].bus_free = complete,
                      ![ch].served = Append(@, [stream |-> chunk.stream, txn_id |-> chunk.txn_id,
                                                window |-> chunk.window, complete |-> complete])]
        /\ Route(chunk, complete)
  BY DEF DrainOne
<1>2. PICK complete :
        /\ complete = Later(channels[ch].bus_free, chunk.ready) + delay
        /\ channels' = [channels EXCEPT
                      ![ch].queue = @ \ {chunk}, ![ch].bus_free = complete,
                      ![ch].served = Append(@, [stream |-> chunk.stream, txn_id |-> chunk.txn_id,
                                                window |-> chunk.window, complete |-> complete])]
        /\ Route(chunk, complete)
  BY <1>a
<1>3. chunk \in Chunk /\ chunk.stream \in DOMAIN cursors
  BY <1>1 DEF LoopInv, Placed, ChannelState
<1>4. PICK s \in DOMAIN cursors : s = chunk.stream
  BY <1>3
<1>5. complete \in Nat
  <2>1. delay \in Nat
    BY ChannelAssumption
  <2>2. channels[ch].bus_free \in Nat /\ chunk.ready \in Nat
    BY <1>1, <1>3 DEF ChannelState, Chunk
  <2> QED
    BY <1>2, <2>1, <2>2 DEF Later
<1>6. chunk \in Flying(s)
  BY <1>4 DEF Flying
<1> DEFINE serving == [stream |-> chunk.stream, txn_id |-> chunk.txn_id,
                       window |-> chunk.window, complete |-> complete]
<1>7. serving \in [stream : Streams, txn_id : Nat, window : Nat, complete : Nat]
  BY <1>3, <1>5 DEF Chunk
<1> HIDE DEF serving
<1>8. /\ channels' \in [Channels -> ChannelState]
      /\ channels'[ch].queue = channels[ch].queue \ {chunk}
      /\ \A k \in Channels : k # ch => channels'[k] = channels[k]
  <2>1. Append(channels[ch].served, serving)
          \in Seq([stream : Streams, txn_id : Nat, window : Nat, complete : Nat])
    BY <1>1, <1>7, AppendProperties DEF ChannelState
  <2>2. channels' = [channels EXCEPT
                      ![ch].queue = @ \ {chunk}, ![ch].bus_free = complete,
                      ![ch].served = Append(@, serving)]
    BY <1>2 DEF serving
  <2> QED
    BY <1>1, <1>5, <2>1, <2>2 DEF ChannelState
<1>9. Flying(s)' = Flying(s) \ {chunk}
  <2>1. \A k \in Channels : k # ch => chunk \notin channels[k].queue
    BY DEF LoopInv, Placed
  <2> QED
    BY <1>8, <2>1 DEF Flying
<1>10. \A t : t # s => Flying(t)' = Flying(t)
  BY <1>4, <1>8 DEF Flying
<1>11. \A k \in Channels : channels'[k].queue \subseteq channels[k].queue
  BY <1>8
<1> QED
  BY <1>2, <1>3, <1>4, <1>5, <1>6, <1>8, <1>9, <1>10, <1>11 DEF Lands

LEMMA ProgressedTyped ==
  ASSUME NEW ip \in InProgress, NEW complete \in Nat
  PROVE  /\ Progressed(ip, complete) \in InProgress
         /\ Progressed(ip, complete).txn_id = ip.txn_id
         /\ Progressed(ip, complete).issue_cycle = ip.issue_cycle
         /\ Progressed(ip, complete).outstanding_wait_cycles = ip.outstanding_wait_cycles
         /\ Progressed(ip, complete).num_chunks = ip.num_chunks
         /\ ip.max_complete <= Progressed(ip, complete).max_complete
<1>1. ip.max_complete \in Nat /\ ip.chunks_dispatched + 1 \in Nat
  BY DEF InProgress
<1>2. Later(ip.max_complete, complete) \in Nat
      /\ ip.max_complete <= Later(ip.max_complete, complete)
  BY <1>1 DEF Later
<1>3. Progressed(ip, complete)
        = [ip EXCEPT !.chunks_dispatched = ip.chunks_dispatched + 1,
                     !.max_complete = Later(ip.max_complete, complete)]
  BY DEF Progressed
<1> QED
  BY <1>1, <1>2, <1>3 DEF InProgress

LEMMA LandsPlaced ==
  ASSUME LoopInv, NEW s \in DOMAIN cursors, NEW chunk, Lands(s, chunk),
         DOMAIN cursors' = DOMAIN cursors, UNCHANGED <<turn, running>>
  PROVE  /\ AtRest'
         /\ \A ch \in Channels : \A x \in channels'[ch].queue :
              x.stream \in DOMAIN cursors' /\ ch = ChannelOf(x.window)
BY DEF LoopInv, AtRest, Placed, Lands

(* A chunk that is not its transaction's last leaves its mark in the cursor. *)
LEMMA ProgressLoop ==
  ASSUME LoopInv, NEW s \in DOMAIN cursors, NEW chunk \in Chunk, NEW complete \in Nat,
         chunk \in Flying(s), Lands(s, chunk),
         NEW ip, ip = Progressed(cursors[s].in_progress, complete),
         ip.chunks_dispatched # ip.num_chunks,
         cursors' = [cursors EXCEPT ![s].in_progress = ip],
         UNCHANGED <<segments, port_free, heap, results, finished, running, turn, calls>>
  PROVE  LoopInv'
<1>1. /\ cursors[s] \in Cursor /\ cursors[s].in_progress \in InProgress
      /\ Flying(s) \in SUBSET Chunk
  BY StreamFacts DEF Cursor
<1>2. PICK d : d = [cursors[s] EXCEPT !.in_progress = ip]
  OBVIOUS
<1>3. /\ d \in Cursor /\ d.queued = cursors[s].queued /\ d.pending = cursors[s].pending
      /\ d.in_progress = ip
  BY <1>1, <1>2, ProgressedTyped DEF Cursor
<1>4. /\ DOMAIN cursors' = DOMAIN cursors /\ cursors'[s] = d
      /\ \A t \in DOMAIN cursors : t # s => cursors'[t] = cursors[t]
  BY <1>2
<1>5. LoopTypeOK'
  BY <1>3, <1>4 DEF LoopInv, LoopTypeOK, Lands
<1>6. Placed' /\ AtRest'
  BY <1>4, LandsPlaced DEF LoopInv, Placed
<1>7. ASSUME NEW t \in DOMAIN cursors PROVE StreamOK(t)'
  <2>1. EventsOf(t)' = EventsOf(t) /\ TurnsOf(t)' = TurnsOf(t) /\ Known(t)' = Known(t)
    BY DEF EventsOf, TurnsOf, Known
  <2>2. CASE t # s
    BY <1>4, <2>1, <2>2, StreamFrame DEF LoopInv, Lands
  <2>3. CASE t = s
    <3>1. StreamState(cursors[s], EventsOf(s), TurnsOf(s), Flying(s), Known(s))
      BY DEF LoopInv, StreamOK
    <3>2. StreamState(d, EventsOf(s), TurnsOf(s), Flying(s) \ {chunk}, Known(s))
      BY <1>1, <1>3, <3>1, ProgressState
    <3> QED
      BY <1>4, <2>1, <2>3, <3>2 DEF StreamOK, Lands
  <2> QED
    BY <2>2, <2>3
<1> QED
  BY <1>4, <1>5, <1>6, <1>7 DEF LoopInv

(* The last chunk of a transaction: what finalize_in_progress_txn does. *)
Woken(s, opened) ==
  {t \in DOMAIN cursors :
     CoreOf(t) = CoreOf(s) /\ SegmentOf(t) \in opened /\ NeedsEvent(cursors[t], TRUE)}

(* The cursor of s after its first transaction, in ip, is over at `complete`. *)
Finished(c, ip, complete) ==
  [c EXCEPT !.pending = Tail(c.pending), !.queued = More(c),
            !.outstanding = c.outstanding \cup {[txn_id |-> ip.txn_id, complete |-> complete]},
            !.last_complete_cycle = complete, !.in_progress = ip]

LEMMA FinishedTyped ==
  ASSUME NEW c \in Cursor, c.pending # <<>>, NEW ip \in InProgress, NEW complete \in Nat
  PROVE  /\ Finished(c, ip, complete) \in Cursor
         /\ Finished(c, ip, complete).pending = Tail(c.pending)
         /\ Finished(c, ip, complete).queued = More(c)
         /\ Finished(c, ip, complete).outstanding
              = c.outstanding \cup {[txn_id |-> ip.txn_id, complete |-> complete]}
         /\ Finished(c, ip, complete).last_complete_cycle = complete
         /\ Finished(c, ip, complete).in_progress = ip
<1>1. c.pending \in Seq(Entry) /\ c.outstanding \in SUBSET [txn_id : Nat, complete : Nat]
  BY DEF Cursor, Entry
<1>2. Tail(c.pending) \in Seq(Entry)
  BY <1>1, HeadTailProperties
<1>3. [txn_id |-> ip.txn_id, complete |-> complete] \in [txn_id : Nat, complete : Nat]
  BY DEF InProgress
<1>4. More(c) \in BOOLEAN
  BY DEF More
<1> QED
  BY <1>1, <1>2, <1>3, <1>4 DEF Finished, Cursor, Entry

(* All that is known of a stream whose last chunk came back. *)
LEMMA LastChunk ==
  ASSUME LoopInv, NEW s \in DOMAIN cursors, NEW chunk \in Flying(s), NEW complete \in Nat,
         NEW ip, ip = Progressed(cursors[s].in_progress, complete),
         ip.chunks_dispatched = ip.num_chunks
  PROVE  /\ ip \in InProgress
         /\ ip.issue_cycle = cursors[s].in_progress.issue_cycle
         /\ cursors[s].in_progress.max_complete <= ip.max_complete
         /\ EventsOf(s) = {} /\ TurnsOf(s) = {} /\ Known(s)
         /\ cursors[s].queued /\ cursors[s].pending # <<>>
         /\ Head(cursors[s].pending) \in Entry
         /\ ip.txn_id = Head(cursors[s].pending).txn_id
         /\ Completion(cursors[s], ip) \in Nat
         /\ ip.max_complete <= Completion(cursors[s], ip)
         /\ cursors[s].last_complete_cycle <= Completion(cursors[s], ip)
         /\ GateAfter(s, Completion(cursors[s], ip)) \in Nat
         /\ \A e : e.chunk = 0 =>
              StreamState(Finished(cursors[s], ip, Completion(cursors[s], ip)),
                          NextEvents(cursors[s], e), {}, Flying(s) \ {chunk}, Known(s))
<1> DEFINE c == cursors[s]
<1>1. /\ c \in Cursor /\ c.in_progress \in InProgress /\ Flying(s) \in SUBSET Chunk
      /\ c.last_complete_cycle \in Nat
      /\ segments[CoreOf(s)][SegmentOf(s)] \in Segment
  BY StreamFacts DEF Cursor
<1>2. /\ ip \in InProgress /\ ip.issue_cycle = c.in_progress.issue_cycle
      /\ c.in_progress.max_complete <= ip.max_complete
      /\ ip.txn_id = c.in_progress.txn_id
  BY <1>1, ProgressedTyped
<1>3. StreamState(c, EventsOf(s), TurnsOf(s), Flying(s), Known(s))
  BY DEF LoopInv, StreamOK
<1>4. /\ Completion(c, ip) \in Nat /\ ip.max_complete <= Completion(c, ip)
      /\ c.last_complete_cycle <= Completion(c, ip)
  BY <1>1, <1>2 DEF Completion, Later, InProgress
<1>5. GateAfter(s, Completion(c, ip)) \in Nat
  BY <1>1, <1>4 DEF GateAfter, Later, Segment
<1>6. ASSUME NEW d, NEW e, Popped(d, c), Starts(e)
      PROVE
         /\ EventsOf(s) = {} /\ TurnsOf(s) = {} /\ Known(s) /\ c.queued /\ c.pending # <<>>
         /\ Describes(c.in_progress, Head(c.pending))
         /\ StreamState(d, NextEvents(c, e), {}, Flying(s) \ {chunk}, Known(s))
  <2>1. Complete(Progressed(c.in_progress, complete))
    BY DEF Complete
  <2>2. c \in Cursor /\ Flying(s) \in SUBSET Chunk
    BY <1>1
  <2>3. PICK known : known = Known(s) /\ known \in BOOLEAN
    BY StreamFacts
  <2>4. StreamState(c, EventsOf(s), TurnsOf(s), Flying(s), known)
    BY <1>3, <2>3
  <2> HIDE DEF c
  <2>5. /\ EventsOf(s) = {} /\ TurnsOf(s) = {} /\ known /\ c.queued /\ c.pending # <<>>
        /\ Describes(c.in_progress, Head(c.pending))
        /\ StreamState(d, NextEvents(c, e), {}, Flying(s) \ {chunk}, known)
    BY <1>6, <2>1, <2>2, <2>4, FinalState, Zenon
  <2> QED
    BY <2>3, <2>5
<1>7. /\ EventsOf(s) = {} /\ TurnsOf(s) = {} /\ Known(s) /\ c.queued /\ c.pending # <<>>
      /\ Describes(c.in_progress, Head(c.pending))
  <2>1. PICK d, e : d = [pending |-> Tail(c.pending), queued |-> More(c)] /\ e = [chunk |-> 0]
    OBVIOUS
  <2>2. Popped(d, c) /\ Starts(e)
    BY <2>1 DEF Popped, Starts
  <2> QED
    BY <1>6, <2>2
<1>8. Head(c.pending) \in Entry
  <2>1. c.pending \in Seq(Entry)
    BY <1>1 DEF Cursor, Entry
  <2> QED
    BY <1>7, <2>1, HeadTailProperties
<1>9. ip.txn_id = Head(c.pending).txn_id
  BY <1>2, <1>7 DEF Describes
<1>10. ASSUME NEW e, e.chunk = 0
       PROVE  StreamState(Finished(c, ip, Completion(c, ip)),
                          NextEvents(c, e), {}, Flying(s) \ {chunk}, Known(s))
  <2>1. PICK d : d = Finished(c, ip, Completion(c, ip))
    OBVIOUS
  <2>2. Popped(d, c)
    BY <1>1, <1>2, <1>4, <1>7, <2>1, FinishedTyped DEF Popped
  <2> QED
    BY <1>6, <1>10, <2>1, <2>2 DEF Starts
<1> QED
  BY <1>2, <1>4, <1>5, <1>7, <1>8, <1>9, <1>10

(* A reported transaction. *)
LEMMA ResultTyped ==
  ASSUME LoopInv, NEW s \in DOMAIN cursors, cursors[s].pending # <<>>,
         NEW ip \in InProgress, NEW complete \in Nat
  PROVE  ResultOf(s, ip, complete) \in Result
<1>1. /\ CoreOf(s) \in Cores /\ AxiOf(s) \in AxiIds /\ SegmentOf(s) \in Nat
      /\ cursors[s] \in Cursor
  BY StreamFacts
<1>2. cursors[s].pending \in Seq(Entry)
  BY <1>1 DEF Cursor, Entry
<1>3. PICK txn \in Txns : txn = Head(cursors[s].pending).txn
  <2>1. Head(cursors[s].pending) \in Entry
    BY <1>2, HeadTailProperties
  <2> QED
    BY <2>1 DEF Entry
<1>4. TotalBytes(txn) \in Nat /\ txn.type \in TxnTypes
  BY ChunkFacts, FrontEndAssumption DEF TxnTypes
<1>5. ip.num_chunks * ChunkBytes \in Nat
  BY ProductNat, FrontEndAssumption DEF InProgress
<1> QED
  BY <1>1, <1>3, <1>4, <1>5 DEF ResultOf, Result, InProgress

LEMMA FunctionIsSequence ==
  ASSUME NEW S, NEW n \in Nat, NEW f \in [1 .. n -> S]
  PROVE  f \in Seq(S) /\ Len(f) = n /\ DOMAIN f = 1 .. n
<1>1. f \in Seq(S)
  BY SeqDef
<1> QED
  BY <1>1, LenProperties

(* The segments of s's core once its transaction is over: what is complete in
   its own, and the gates of those that open. *)
SegmentsAfter(segs, k, gate, opened) ==
  [j \in DOMAIN segs |->
     IF j = k THEN [segs[j] EXCEPT !.max_complete = gate]
     ELSE IF j \in opened
     THEN [segs[j] EXCEPT !.gate_known = TRUE, !.gate_cycle = gate] ELSE segs[j]]

LEMMA SegmentAfterwards ==
  ASSUME NEW segs \in Seq(Segment), NEW k \in DOMAIN segs, NEW gate \in Nat,
         NEW opened, k \notin opened, NEW j \in DOMAIN segs,
         NEW x, x = SegmentsAfter(segs, k, gate, opened)[j]
  PROVE  /\ x \in Segment
         /\ x.closed = segs[j].closed
         /\ x.gate_known <=> segs[j].gate_known \/ j \in opened
         /\ x.max_complete = IF j = k THEN gate ELSE segs[j].max_complete
         /\ x.gate_cycle = IF j \in opened THEN gate ELSE segs[j].gate_cycle
<1>1. segs[j] \in Segment
  BY LenProperties, ElementOfSeq
<1>2. x = IF j = k THEN [segs[j] EXCEPT !.max_complete = gate]
          ELSE IF j \in opened
          THEN [segs[j] EXCEPT !.gate_known = TRUE, !.gate_cycle = gate] ELSE segs[j]
  BY DEF SegmentsAfter
<1>3. CASE j = k
  BY <1>1, <1>2, <1>3 DEF Segment
<1>4. CASE j # k /\ j \in opened
  BY <1>1, <1>2, <1>4 DEF Segment
<1>5. CASE j # k /\ j \notin opened
  BY <1>1, <1>2, <1>5 DEF Segment
<1> QED
  BY <1>3, <1>4, <1>5

LEMMA SegmentsAfterTyped ==
  ASSUME NEW segs \in Seq(Segment), NEW k \in DOMAIN segs, NEW gate \in Nat,
         NEW opened, k \notin opened
  PROVE  /\ SegmentsAfter(segs, k, gate, opened) \in Seq(Segment)
         /\ Len(SegmentsAfter(segs, k, gate, opened)) = Len(segs)
         /\ DOMAIN SegmentsAfter(segs, k, gate, opened) = DOMAIN segs
<1> DEFINE f == SegmentsAfter(segs, k, gate, opened)
<1>1. DOMAIN segs = 1 .. Len(segs) /\ Len(segs) \in Nat
  BY LenProperties
<1>2. \A j \in DOMAIN segs : f[j] \in Segment
  BY SegmentAfterwards
<1>3. f = [j \in DOMAIN segs |-> f[j]]
  BY DEF SegmentsAfter
<1> HIDE DEF f
<1>4. f \in [1 .. Len(segs) -> Segment]
  BY <1>1, <1>2, <1>3
<1>5. f \in Seq(Segment) /\ Len(f) = Len(segs) /\ DOMAIN f = DOMAIN segs
  BY <1>1, <1>4, FunctionIsSequence
<1> QED
  BY <1>5 DEF f

(* What finalize_in_progress_txn changes. *)
Ends(s, ip, complete, gate, opened) ==
  /\ ip.chunks_dispatched = ip.num_chunks
  /\ complete = Completion(cursors[s], ip) /\ gate = GateAfter(s, complete)
  /\ opened = IF ~ More(cursors[s]) /\ Opens(s) THEN {SegmentOf(s) + 1} ELSE {}
  /\ DOMAIN cursors' = DOMAIN cursors
  /\ cursors'[s] = Finished(cursors[s], ip, complete)
  /\ \A t \in Woken(s, opened) \ {s} : cursors'[t] = [cursors[t] EXCEPT !.queued = TRUE]
  /\ \A t \in DOMAIN cursors \ (Woken(s, opened) \cup {s}) : cursors'[t] = cursors[t]
  /\ heap' = heap \cup NextEvents(cursors[s], Event(IssueCycle(s, cursors'[s], GateOf(s)), s, 0))
                  \cup {Event(IssueCycle(t, cursors[t], gate), t, 0) : t \in Woken(s, opened)}
  /\ segments' = [segments EXCEPT ![CoreOf(s)] =
                    SegmentsAfter(segments[CoreOf(s)], SegmentOf(s), gate, opened)]
  /\ results' = Append(results, ResultOf(s, ip, complete))
  /\ finished' = Append(finished, ResultOf(s, ip, complete))
  /\ UNCHANGED <<port_free, running, turn, calls>>

LEMMA FinalizeEnds ==
  ASSUME NEW s \in DOMAIN cursors, CoreOf(s) \in Cores, segments \in [Cores -> Seq(Segment)],
         NEW ip, ip.chunks_dispatched = ip.num_chunks, Finalize(s, ip)
  PROVE  \E complete, gate, opened : Ends(s, ip, complete, gate, opened)
<1>1. PICK complete, gate, opened, more, done :
        /\ complete = Completion(cursors[s], ip) /\ gate = GateAfter(s, complete)
        /\ opened = IF ~ More(cursors[s]) /\ Opens(s) THEN {SegmentOf(s) + 1} ELSE {}
        /\ more = More(cursors[s]) /\ done = Finished(cursors[s], ip, complete)
  OBVIOUS
<1>2. /\ cursors' = [t \in DOMAIN cursors |->
                       IF t = s THEN done
                       ELSE IF t \in Woken(s, opened) THEN [cursors[t] EXCEPT !.queued = TRUE]
                       ELSE cursors[t]]
      /\ heap' = heap \cup (IF more THEN {Event(IssueCycle(s, done, GateOf(s)), s, 0)} ELSE {})
                      \cup {Event(IssueCycle(t, cursors[t], gate), t, 0) : t \in Woken(s, opened)}
      /\ segments' = [segments EXCEPT ![CoreOf(s)] =
                        SegmentsAfter(segments[CoreOf(s)], SegmentOf(s), gate, opened)]
      /\ results' = Append(results, ResultOf(s, ip, complete))
      /\ finished' = Append(finished, ResultOf(s, ip, complete))
      /\ UNCHANGED <<port_free, running, turn, calls>>
  <2>1. {t \in InSegment(CoreOf(s), SegmentOf(s) + 1) :
           (~ More(cursors[s]) /\ Opens(s)) /\ NeedsEvent(cursors[t], TRUE)} = Woken(s, opened)
    BY <1>1 DEF Woken, InSegment
  <2>2. segments' = [segments EXCEPT ![CoreOf(s)] =
           [j \in DOMAIN @ |->
              IF j = SegmentOf(s) THEN [@[j] EXCEPT !.max_complete = gate]
              ELSE IF (~ More(cursors[s]) /\ Opens(s)) /\ j = SegmentOf(s) + 1
              THEN [@[j] EXCEPT !.gate_known = TRUE, !.gate_cycle = gate] ELSE @[j]]]
    BY <1>1 DEF Finalize
  <2>3. segments' = [segments EXCEPT ![CoreOf(s)] =
                        SegmentsAfter(segments[CoreOf(s)], SegmentOf(s), gate, opened)]
    BY <1>1, <2>2 DEF SegmentsAfter
  <2> QED
    BY <1>1, <2>1, <2>3 DEF Finalize, Finished
<1>3. cursors'[s] = done /\ DOMAIN cursors' = DOMAIN cursors
  BY <1>2
<1>4. Woken(s, opened) \subseteq DOMAIN cursors
  BY DEF Woken, InSegment
<1>5. /\ \A t \in Woken(s, opened) \ {s} : cursors'[t] = [cursors[t] EXCEPT !.queued = TRUE]
      /\ \A t \in DOMAIN cursors \ (Woken(s, opened) \cup {s}) : cursors'[t] = cursors[t]
  BY <1>2, <1>4
<1>6. heap' = heap \cup NextEvents(cursors[s], Event(IssueCycle(s, cursors'[s], GateOf(s)), s, 0))
                  \cup {Event(IssueCycle(t, cursors[t], gate), t, 0) : t \in Woken(s, opened)}
  BY <1>1, <1>2, <1>3 DEF NextEvents
<1>7. cursors'[s] = Finished(cursors[s], ip, complete)
  BY <1>1, <1>3
<1>8. Ends(s, ip, complete, gate, opened)
  BY <1>1, <1>2, <1>3, <1>5, <1>6, <1>7 DEF Ends
<1> QED
  BY <1>8

(* The event of a stream that starts its next transaction. *)
LEMMA EventTyped ==
  ASSUME NEW s \in Streams, NEW ready \in Nat
  PROVE  /\ Event(ready, s, 0) \in HeapEvent /\ Event(ready, s, 0).stream = s
         /\ Starts(Event(ready, s, 0))
BY DEF Event, HeapEvent, Starts

LEMMA EndsLoop ==
  ASSUME LoopInv, NEW s \in DOMAIN cursors, NEW chunk \in Flying(s), NEW back \in Nat,
         Lands(s, chunk), NEW ip, ip = Progressed(cursors[s].in_progress, back),
         NEW complete, NEW gate, NEW opened, Ends(s, ip, complete, gate, opened)
  PROVE  LoopInv'
<1> DEFINE c == cursors[s]
           core == CoreOf(s)
           k == SegmentOf(s)
           W == Woken(s, opened)
           segs == segments[core]
<1>1. /\ s \in Streams /\ core \in Cores /\ k \in Nat \ {0} /\ c \in Cursor
      /\ segs \in Seq(Segment) /\ k \in DOMAIN segs /\ GateOf(s) \in Nat
      /\ port_free[core] \in Nat
  BY StreamFacts
<1>2. /\ ip \in InProgress /\ EventsOf(s) = {} /\ TurnsOf(s) = {} /\ Known(s) /\ c.pending # <<>>
      /\ complete \in Nat /\ gate \in Nat /\ Complete(ip)
      /\ \A e : e.chunk = 0 =>
           StreamState(Finished(c, ip, complete), NextEvents(c, e), {}, Flying(s) \ {chunk}, Known(s))
  <2>1. /\ ip.chunks_dispatched = ip.num_chunks /\ complete = Completion(c, ip)
        /\ gate = GateAfter(s, Completion(c, ip))
    BY DEF Ends
  <2>2. /\ ip \in InProgress /\ EventsOf(s) = {} /\ TurnsOf(s) = {} /\ Known(s)
        /\ c.pending # <<>> /\ Completion(c, ip) \in Nat /\ GateAfter(s, Completion(c, ip)) \in Nat
        /\ \A e : e.chunk = 0 =>
             StreamState(Finished(c, ip, Completion(c, ip)), NextEvents(c, e), {},
                         Flying(s) \ {chunk}, Known(s))
    BY <2>1, LastChunk
  <2> QED
    BY <2>1, <2>2 DEF Complete
<1>3. PICK done : done = Finished(c, ip, complete) /\ done \in Cursor
  BY <1>1, <1>2, FinishedTyped
<1>4. PICK e : /\ e = Event(IssueCycle(s, done, GateOf(s)), s, 0)
               /\ e \in HeapEvent /\ e.stream = s /\ Starts(e)
  <2>1. IssueCycle(s, done, GateOf(s)) \in Nat
    BY <1>1, <1>3, IssueCycleNat
  <2> QED
    BY <1>1, <2>1, EventTyped
<1>5. /\ \A j \in opened : j = k + 1 /\ Opens(s)
      /\ k \notin opened /\ W \subseteq DOMAIN cursors /\ s \notin W
  <2>1. \A j \in opened : j = k + 1 /\ Opens(s)
    BY DEF Ends
  <2>2. k # k + 1
    BY <1>1
  <2> QED
    BY <2>1, <2>2 DEF Woken
<1>6. /\ cursors'[s] = done /\ DOMAIN cursors' = DOMAIN cursors
      /\ \A t \in W : cursors'[t] = [cursors[t] EXCEPT !.queued = TRUE]
      /\ \A t \in DOMAIN cursors \ (W \cup {s}) : cursors'[t] = cursors[t]
      /\ heap' = heap \cup NextEvents(c, e)
                      \cup {Event(IssueCycle(t, cursors[t], gate), t, 0) : t \in W}
      /\ segments' = [segments EXCEPT ![core] = SegmentsAfter(segs, k, gate, opened)]
      /\ results' = Append(results, ResultOf(s, ip, complete))
      /\ finished' = Append(finished, ResultOf(s, ip, complete))
      /\ UNCHANGED <<port_free, running, turn, calls>>
  BY <1>3, <1>4, <1>5 DEF Ends
<1>7. NextEvents(c, e) \subseteq {e}
  BY DEF NextEvents
<1>8. \A t \in W : /\ Event(IssueCycle(t, cursors[t], gate), t, 0) \in HeapEvent
                   /\ Event(IssueCycle(t, cursors[t], gate), t, 0).stream = t
                   /\ Starts(Event(IssueCycle(t, cursors[t], gate), t, 0))
  <2> SUFFICES ASSUME NEW t \in W
               PROVE  /\ Event(IssueCycle(t, cursors[t], gate), t, 0) \in HeapEvent
                      /\ Event(IssueCycle(t, cursors[t], gate), t, 0).stream = t
                      /\ Starts(Event(IssueCycle(t, cursors[t], gate), t, 0))
    OBVIOUS
  <2>1. t \in Streams /\ port_free[CoreOf(t)] \in Nat /\ cursors[t] \in Cursor
    BY <1>5, StreamFacts
  <2>2. IssueCycle(t, cursors[t], gate) \in Nat
    BY <1>2, <2>1, IssueCycleNat
  <2> QED
    BY <2>1, <2>2, EventTyped
<1>9. /\ segments' \in [Cores -> Seq(Segment)]
      /\ segments'[core] = SegmentsAfter(segs, k, gate, opened)
      /\ \A x \in Cores : /\ Len(segments'[x]) = Len(segments[x])
                          /\ x # core => segments'[x] = segments[x]
  <2>1. segments \in [Cores -> Seq(Segment)]
    BY DEF LoopInv, LoopTypeOK
  <2> QED
    BY <1>1, <1>2, <1>5, <1>6, <2>1, SegmentsAfterTyped
<1> HIDE DEF W
<1>10. LoopTypeOK'
  <2>1. \A t \in DOMAIN cursors' : cursors'[t] \in Cursor
    <3> SUFFICES ASSUME NEW t \in DOMAIN cursors PROVE cursors'[t] \in Cursor
      BY <1>6
    <3>1. cursors[t] \in Cursor
      BY StreamFacts
    <3>2. CASE t = s
      BY <1>3, <1>6, <3>2
    <3>3. CASE t \in W
      BY <1>6, <3>1, <3>3 DEF Cursor
    <3>4. CASE t \notin W \cup {s}
      BY <1>6, <3>1, <3>4
    <3> QED
      BY <3>2, <3>3, <3>4
  <2>2. heap' \subseteq HeapEvent
    BY <1>4, <1>6, <1>7, <1>8 DEF LoopInv, LoopTypeOK
  <2>3. results' \in Seq(Result) /\ finished' \in Seq(Result)
    BY <1>2, <1>6, ResultTyped, AppendProperties DEF LoopInv, LoopTypeOK
  <2> QED
    BY <1>6, <1>9, <2>1, <2>2, <2>3 DEF LoopInv, LoopTypeOK, Lands
<1>11. Placed' /\ AtRest'
  <2>1. \A x \in heap' : x.stream \in DOMAIN cursors'
    BY <1>4, <1>5, <1>6, <1>7, <1>8 DEF LoopInv, Placed
  <2>2. \A t \in DOMAIN cursors' : SegmentOf(t) \in 1 .. Len(segments'[CoreOf(t)])
    BY <1>6, <1>9, StreamFacts DEF LoopInv, Placed
  <2>3. turn' # NoTurn => turn'.stream \in DOMAIN cursors'
    BY <1>6 DEF LoopInv, Placed
  <2> QED
    BY <1>6, <2>1, <2>2, <2>3, LandsPlaced DEF Placed
<1>12. \A t \in DOMAIN cursors :
         Known(t)' = (Known(t) \/ (CoreOf(t) = core /\ SegmentOf(t) \in opened))
  <2> SUFFICES ASSUME NEW t \in DOMAIN cursors
               PROVE  Known(t)' = (Known(t) \/ (CoreOf(t) = core /\ SegmentOf(t) \in opened))
    OBVIOUS
  <2>1. CoreOf(t) \in Cores /\ SegmentOf(t) \in DOMAIN segments[CoreOf(t)] /\ Known(t) \in BOOLEAN
    BY StreamFacts
  <2>2. CASE CoreOf(t) # core
    BY <1>9, <2>1, <2>2 DEF Known
  <2>3. CASE CoreOf(t) = core
    <3>1. PICK j \in DOMAIN segs : j = SegmentOf(t)
      BY <2>1, <2>3
    <3>2. PICK x : x = SegmentsAfter(segs, k, gate, opened)[j]
      OBVIOUS
    <3>3. Known(t) = segs[j].gate_known /\ Known(t)' = x.gate_known
      BY <1>9, <2>3, <3>1, <3>2 DEF Known
    <3>4. x \in Segment /\ (x.gate_known <=> segs[j].gate_known \/ j \in opened)
      <4>1. segs \in Seq(Segment) /\ k \in DOMAIN segs /\ gate \in Nat /\ k \notin opened
        BY <1>1, <1>2, <1>5
      <4> HIDE DEF segs, k
      <4>2. x \in Segment
        BY <3>2, <4>1, SegmentAfterwards
      <4>3. x.gate_known <=> segs[j].gate_known \/ j \in opened
        BY <3>2, <4>1, SegmentAfterwards
      <4> QED
        BY <4>2, <4>3
    <3>5. x.gate_known \in BOOLEAN
      BY <3>4 DEF Segment
    <3> QED
      BY <2>1, <2>3, <3>1, <3>3, <3>4, <3>5
  <2> QED
    BY <2>2, <2>3
<1>13. ASSUME NEW t \in DOMAIN cursors PROVE StreamOK(t)'
  <2>1. TurnsOf(t)' = TurnsOf(t)
    BY <1>6 DEF TurnsOf
  <2>2. StreamState(cursors[t], EventsOf(t), TurnsOf(t), Flying(t), Known(t))
    BY DEF LoopInv, StreamOK
  <2>3. CASE t = s
    <3>1. EventsOf(s)' = NextEvents(c, e)
      BY <1>2, <1>4, <1>5, <1>6, <1>7, <1>8 DEF EventsOf
    <3>2. Known(s)' = Known(s)
      BY <1>1, <1>2, <1>12, StreamFacts
    <3>3. StreamState(done, NextEvents(c, e), {}, Flying(s) \ {chunk}, Known(s))
      BY <1>2, <1>3, <1>4 DEF Starts
    <3> QED
      BY <1>2, <1>6, <2>1, <2>3, <3>1, <3>2, <3>3 DEF StreamOK, Lands
  <2>4. CASE t \in W
    <3>1. CoreOf(t) = core /\ SegmentOf(t) \in opened /\ t # s
      BY <1>5, <2>4 DEF W, Woken
    <3>2. SegmentOf(t) = k + 1 /\ ~ segments[core][k + 1].gate_known
      BY <1>5, <3>1 DEF Opens
    <3>3. Known(t) = FALSE
      BY <3>1, <3>2, StreamFacts DEF Known
    <3>4. PICK f : f = Event(IssueCycle(t, cursors[t], gate), t, 0)
      OBVIOUS
    <3>5. cursors[t] \in Cursor /\ f.chunk = 0
      BY <1>8, <2>4, <3>4, StreamFacts DEF Starts
    <3>6. /\ EventsOf(t) = {}
          /\ StreamState([cursors[t] EXCEPT !.queued = TRUE], {f}, TurnsOf(t), Flying(t), TRUE)
      BY <2>2, <3>3, <3>5, WokenState
    <3>7. EventsOf(t)' = {f}
      <4>1. \A x \in heap : x.stream # t
        BY <3>6 DEF EventsOf
      <4>2. f \in heap' /\ f.stream = t
        BY <1>6, <1>8, <2>4, <3>4
      <4>3. \A x \in heap' : x.stream = t => x = f
        BY <1>4, <1>6, <1>7, <1>8, <3>1, <3>4, <4>1
      <4> QED
        BY <4>2, <4>3 DEF EventsOf
    <3>8. Known(t)' = TRUE
      BY <1>12, <3>1
    <3> QED
      BY <1>6, <2>1, <2>4, <3>1, <3>6, <3>7, <3>8 DEF StreamOK, Lands
  <2>5. CASE t # s /\ t \notin W
    <3>1. EventsOf(t)' = EventsOf(t)
      BY <1>4, <1>6, <1>7, <1>8, <2>5 DEF EventsOf
    <3>2. ~ (CoreOf(t) = core /\ SegmentOf(t) \in opened)
      <4>1. SUFFICES ASSUME CoreOf(t) = core, SegmentOf(t) \in opened PROVE FALSE
        OBVIOUS
      <4>2. SegmentOf(t) = k + 1 /\ ~ segments[core][k + 1].gate_known
        BY <1>5, <4>1 DEF Opens
      <4>3. Known(t) = FALSE
        BY <4>1, <4>2, StreamFacts DEF Known
      <4>4. cursors[t] \in Cursor
        BY StreamFacts
      <4>5. PICK f : f = [chunk |-> 0]
        OBVIOUS
      <4>6. f.chunk = 0
        BY <4>5
      <4>7. NeedsEvent(cursors[t], TRUE)
        BY <2>2, <4>3, <4>4, <4>6, WokenState
      <4> QED
        BY <2>5, <4>1, <4>7 DEF W, Woken
    <3>3. Known(t)' = Known(t)
      BY <1>12, <3>2, StreamFacts
    <3> QED
      BY <1>6, <2>1, <2>5, <3>1, <3>3, StreamFrame DEF LoopInv, Lands
  <2> QED
    BY <2>3, <2>4, <2>5
<1> QED
  BY <1>6, <1>10, <1>11, <1>13 DEF LoopInv

-----------------------------------------------------------------------------
(***************************************************************************)
(* The calls between runs.                                                 *)
(***************************************************************************)
(* The segments a push finds: the first one is made if there is none. *)
OpenSegments(core) ==
  IF segments[core] = <<>> THEN <<NewSegment(TRUE, 0)>> ELSE segments[core]

CursorBefore(s) == IF s \in DOMAIN cursors THEN cursors[s] ELSE NewCursor

(* What push_txn changes, for a transaction that is the given entry of stream s. *)
Pushes(s, entry, new) ==
  LET c == PushedTo(CursorBefore(s), entry)
      known == OpenSegments(CoreOf(s))[SegmentOf(s)].gate_known
      gate == OpenSegments(CoreOf(s))[SegmentOf(s)].gate_cycle IN
  /\ ~ running
  /\ SegmentOf(s) = Len(OpenSegments(CoreOf(s)))
  /\ entry.txn_id = Cardinality(Pushed) + 1
  /\ new = NewEvents(c, known, Event(IssueCycle(s, c, gate), s, 0))
  /\ calls' = Append(calls, [kind |-> "txn", core |-> CoreOf(s), axi |-> AxiOf(s),
                             txn_id |-> entry.txn_id, txn |-> entry.txn])
  /\ segments' = [segments EXCEPT ![CoreOf(s)] = OpenSegments(CoreOf(s))]
  /\ DOMAIN cursors' = DOMAIN cursors \cup {s}
  /\ cursors'[s] = QueuedBy(c, new)
  /\ \A t \in DOMAIN cursors \ {s} : cursors'[t] = cursors[t]
  /\ heap' = heap \cup new
  /\ UNCHANGED <<port_free, results, finished, running, turn>>

LEMMA OpenSegmentsTyped ==
  ASSUME NEW core \in Cores, segments \in [Cores -> Seq(Segment)]
  PROVE  /\ OpenSegments(core) \in Seq(Segment)
         /\ Len(OpenSegments(core)) \in DOMAIN OpenSegments(core)
         /\ Len(OpenSegments(core)) \in Nat \ {0}
         /\ Len(segments[core]) <= Len(OpenSegments(core))
         /\ \A k \in DOMAIN segments[core] : OpenSegments(core)[k] = segments[core][k]
<1>1. NewSegment(TRUE, 0) \in Segment
  BY DEF NewSegment, Segment
<1>2. CASE segments[core] = <<>>
  <2>1. PICK new \in Segment : OpenSegments(core) = <<new>>
    BY <1>1, <1>2 DEF OpenSegments
  <2>2. <<new>> \in Seq(Segment) /\ Len(<<new>>) = 1 /\ DOMAIN <<new>> = 1 .. 1
    OBVIOUS
  <2>3. Len(segments[core]) = 0 /\ DOMAIN segments[core] = {}
    BY <1>2
  <2> QED
    BY <2>1, <2>2, <2>3
<1>3. CASE segments[core] # <<>>
  <2>1. segments[core] \in Seq(Segment)
    OBVIOUS
  <2>2. /\ Len(segments[core]) \in Nat /\ Len(segments[core]) # 0
        /\ DOMAIN segments[core] = 1 .. Len(segments[core])
    BY <1>3, <2>1, LenProperties, EmptySeq
  <2> QED
    BY <1>3, <2>1, <2>2 DEF OpenSegments
<1> QED
  BY <1>2, <1>3

LEMMA PushTxnPushes ==
  ASSUME NEW core \in Cores, NEW axi \in AxiIds, NEW txn \in Txns, PushTxn(core, axi, txn),
         LoopInv
  PROVE  \E s \in Streams, entry \in Entry : \E new :
            CoreOf(s) = core /\ AxiOf(s) = axi /\ Pushes(s, entry, new)
<1>1. PICK s : s = <<core, Len(OpenSegments(core)), axi>>
  OBVIOUS
<1>2. Len(OpenSegments(core)) \in Nat \ {0}
  BY OpenSegmentsTyped DEF LoopInv, LoopTypeOK
<1>3. /\ s \in Streams /\ CoreOf(s) = core /\ AxiOf(s) = axi
      /\ SegmentOf(s) = Len(OpenSegments(core))
  BY <1>1, <1>2 DEF Streams, CoreOf, SegmentOf, AxiOf
<1>4. IsFiniteSet(Pushed) /\ Cardinality(Pushed) \in Nat
  <2>1. DOMAIN calls = 1 .. Len(calls) /\ Len(calls) \in Nat
    BY LenProperties DEF LoopInv, LoopTypeOK
  <2>2. Pushed \subseteq 1 .. Len(calls)
    BY <2>1 DEF Pushed
  <2>3. IsFiniteSet(1 .. Len(calls))
    BY <2>1, FS_Interval
  <2>4. IsFiniteSet(Pushed)
    BY <2>2, <2>3, FS_Subset
  <2> QED
    BY <2>4, FS_CardinalityType
<1>5. PICK entry : entry = [txn_id |-> Cardinality(Pushed) + 1, txn |-> txn]
  OBVIOUS
<1>6. entry \in Entry /\ entry.txn = txn /\ entry.txn_id = Cardinality(Pushed) + 1
  BY <1>4, <1>5 DEF Entry
<1>7. PICK c, known, gate, new :
        /\ c = PushedTo(CursorBefore(s), entry)
        /\ known = OpenSegments(core)[SegmentOf(s)].gate_known
        /\ gate = OpenSegments(core)[SegmentOf(s)].gate_cycle
        /\ new = NewEvents(c, known, Event(IssueCycle(s, c, gate), s, 0))
  OBVIOUS
<1>8. /\ ~ running
      /\ calls' = Append(calls, [kind |-> "txn", core |-> core, axi |-> axi,
                                 txn_id |-> entry.txn_id, txn |-> entry.txn])
      /\ segments' = [segments EXCEPT ![core] = OpenSegments(core)]
      /\ cursors' = [t \in DOMAIN cursors \cup {s} |->
                       IF t = s THEN [c EXCEPT !.queued = @ \/ NeedsEvent(c, known)] ELSE cursors[t]]
      /\ heap' = IF NeedsEvent(c, known)
                 THEN heap \cup {Event(IssueCycle(s, c, gate), s, 0)} ELSE heap
      /\ UNCHANGED <<port_free, results, finished, running, turn>>
  <2>1. PICK segs, old : segs = OpenSegments(core) /\ old = CursorBefore(s)
    OBVIOUS
  <2>2. /\ segs = (IF segments[core] = <<>> THEN <<NewSegment(TRUE, 0)>> ELSE segments[core])
        /\ old = (IF s \in DOMAIN cursors THEN cursors[s] ELSE NewCursor)
        /\ s = <<core, Len(segs), axi>>
    BY <1>1, <2>1 DEF OpenSegments, CursorBefore
  <2>3. entry = [txn_id |-> Cardinality({i \in DOMAIN calls : calls[i].kind = "txn"}) + 1, txn |-> txn]
    BY <1>5 DEF Pushed
  <2>4. /\ c = [old EXCEPT !.pending = Append(@, entry)]
        /\ known = segs[Len(segs)].gate_known /\ gate = segs[Len(segs)].gate_cycle
    BY <1>3, <1>7, <2>1 DEF PushedTo
  <2>5. /\ ~ running
        /\ calls' = Append(calls, [kind |-> "txn", core |-> core, axi |-> axi,
                                   txn_id |-> entry.txn_id, txn |-> txn])
        /\ segments' = [segments EXCEPT ![core] = segs]
        /\ UNCHANGED <<port_free, results, finished, running, turn>>
    BY <2>2, <2>3 DEF PushTxn
  <2>6. cursors' = [t \in DOMAIN cursors \cup {s} |->
                      IF t = s THEN [c EXCEPT !.queued = @ \/ NeedsEvent(c, known)] ELSE cursors[t]]
    BY <2>2, <2>3, <2>4 DEF PushTxn
  <2>7. heap' = IF NeedsEvent(c, known)
                THEN heap \cup {Event(IssueCycle(s, c, gate), s, 0)} ELSE heap
    BY <2>2, <2>3, <2>4 DEF PushTxn
  <2> QED
    BY <1>6, <2>1, <2>5, <2>6, <2>7
<1>9. /\ DOMAIN cursors' = DOMAIN cursors \cup {s}
      /\ cursors'[s] = [c EXCEPT !.queued = @ \/ NeedsEvent(c, known)]
      /\ \A t \in DOMAIN cursors \ {s} : cursors'[t] = cursors[t]
  BY <1>8
<1>10. (new # {} <=> NeedsEvent(c, known)) /\ heap' = heap \cup new
  BY <1>7, <1>8 DEF NewEvents
<1>11. cursors'[s] = QueuedBy(c, new)
  BY <1>9, <1>10 DEF QueuedBy, NeedsEvent
<1>12. Pushes(s, entry, new)
  BY <1>3, <1>6, <1>7, <1>8, <1>9, <1>10, <1>11 DEF Pushes
<1> QED
  BY <1>3, <1>6, <1>12

LEMMA PushLoop ==
  ASSUME LoopInv, NEW s \in Streams, NEW entry \in Entry, NEW new,
         Pushes(s, entry, new), UNCHANGED channels
  PROVE  LoopInv'
<1> DEFINE core == CoreOf(s)
           segs == OpenSegments(core)
           k == SegmentOf(s)
<1>1. PICK b : b = CursorBefore(s)
  OBVIOUS
<1>2. PICK c : c = PushedTo(b, entry)
  OBVIOUS
<1>3. PICK known, gate : known = segs[k].gate_known /\ gate = segs[k].gate_cycle
  OBVIOUS
<1>4. PICK e : e = Event(IssueCycle(s, c, gate), s, 0)
  OBVIOUS
<1>5. PICK d : d = QueuedBy(c, new)
  OBVIOUS
<1>6. /\ ~ running /\ k = Len(segs) /\ new = NewEvents(c, known, e)
      /\ calls' = Append(calls, [kind |-> "txn", core |-> core, axi |-> AxiOf(s),
                                 txn_id |-> entry.txn_id, txn |-> entry.txn])
      /\ segments' = [segments EXCEPT ![core] = segs]
      /\ DOMAIN cursors' = DOMAIN cursors \cup {s} /\ cursors'[s] = d
      /\ \A t \in DOMAIN cursors \ {s} : cursors'[t] = cursors[t]
      /\ heap' = heap \cup new
      /\ UNCHANGED <<port_free, results, finished, running, turn>>
  BY <1>1, <1>2, <1>3, <1>4, <1>5 DEF Pushes
<1>7. core \in Cores /\ AxiOf(s) \in AxiIds
  BY DEF Streams, CoreOf, AxiOf
<1>8. /\ segs \in Seq(Segment) /\ k \in DOMAIN segs /\ k \in Nat \ {0}
      /\ Len(segments[core]) <= Len(segs)
      /\ \A j \in DOMAIN segments[core] : segs[j] = segments[core][j]
  BY <1>6, <1>7, OpenSegmentsTyped DEF LoopInv, LoopTypeOK
<1>9. known \in BOOLEAN /\ gate \in Nat
  <2>1. segs[k] \in Segment
    BY <1>8, ElementOfSeq, LenProperties
  <2> QED
    BY <1>3, <2>1 DEF Segment
<1>10. /\ segments' \in [Cores -> Seq(Segment)] /\ segments'[core] = segs
       /\ \A x \in Cores : x # core => segments'[x] = segments[x]
  <2>1. segments \in [Cores -> Seq(Segment)]
    BY DEF LoopInv, LoopTypeOK
  <2> QED
    BY <1>6, <1>7, <1>8, <2>1
<1>11. b \in Cursor
  BY <1>1, StreamFacts, NewCursorTyped DEF CursorBefore
<1>12. \A x \in heap : x.stream \in DOMAIN cursors
  BY DEF LoopInv, Placed
<1>13. s \notin DOMAIN cursors =>
         b = NewCursor /\ EventsOf(s) = {} /\ TurnsOf(s) = {} /\ Flying(s) = {}
  BY <1>1, <1>12 DEF CursorBefore, EventsOf, TurnsOf, Flying, LoopInv, Placed
<1>14. s \in DOMAIN cursors => StreamState(b, EventsOf(s), TurnsOf(s), Flying(s), known)
  <2> SUFFICES ASSUME s \in DOMAIN cursors
               PROVE  StreamState(b, EventsOf(s), TurnsOf(s), Flying(s), known)
    OBVIOUS
  <2>1. Known(s) = known
    BY <1>3, <1>8, StreamFacts DEF Known
  <2> QED
    BY <1>1, <2>1 DEF LoopInv, StreamOK, CursorBefore
<1>15. PICK events, turns, flying :
         events = EventsOf(s) /\ turns = TurnsOf(s) /\ flying = Flying(s)
  OBVIOUS
<1>16. Starts(e) /\ e.stream = s
  BY <1>4 DEF Event, Starts
<1>17. \/ StreamState(b, events, turns, flying, known)
       \/ Unbegun(b, events, turns, flying)
  BY <1>13, <1>14, <1>15 DEF Unbegun
<1> HIDE DEF segs, core, k
<1>18. /\ d \in Cursor
       /\ StreamState(d, events \cup new, turns, flying, known)
  <2>1. b \in Cursor /\ entry \in Entry /\ Starts(e)
    BY <1>11, <1>16
  <2>2. c = PushedTo(b, entry) /\ d = QueuedBy(c, new)
    BY <1>2, <1>5
  <2>3. new = NewEvents(c, known, e)
    BY <1>6
  <2> QED
    BY <1>17, <2>1, <2>2, <2>3, PushState
<1>19. c \in Cursor /\ IssueCycle(s, c, gate) \in Nat
  <2>1. b.pending \in Seq(Entry)
    BY <1>11 DEF Cursor, Entry
  <2>2. Append(b.pending, entry) \in Seq(Entry)
    BY <2>1, AppendProperties
  <2>3. c \in Cursor
    BY <1>2, <1>11, <2>2 DEF Cursor, Entry, PushedTo
  <2>4. port_free[CoreOf(s)] \in Nat
    BY <1>7 DEF LoopInv, LoopTypeOK, core
  <2> QED
    BY <1>9, <2>3, <2>4, IssueCycleNat
<1>20. e \in HeapEvent /\ new \subseteq {e}
  BY <1>4, <1>6, <1>19, EventTyped DEF NewEvents
<1>21. LoopTypeOK'
  <2>1. calls' \in Seq(CallRecord)
    <3>1. [kind |-> "txn", core |-> core, axi |-> AxiOf(s),
           txn_id |-> entry.txn_id, txn |-> entry.txn] \in CallRecord
      BY <1>7 DEF CallRecord, Entry
    <3>2. calls \in Seq(CallRecord)
      BY DEF LoopInv, LoopTypeOK
    <3> QED
      BY <1>6, <3>1, <3>2, AppendProperties
  <2>2. /\ DOMAIN cursors' \subseteq Streams
        /\ \A t \in DOMAIN cursors' : cursors'[t] \in Cursor
    BY <1>6, <1>18 DEF LoopInv, LoopTypeOK
  <2>3. heap' \subseteq HeapEvent
    BY <1>6, <1>20 DEF LoopInv, LoopTypeOK
  <2> QED
    BY <1>6, <1>10, <2>1, <2>2, <2>3 DEF LoopInv, LoopTypeOK
<1>22. Placed'
  <2>1. \A t \in DOMAIN cursors' : SegmentOf(t) \in 1 .. Len(segments'[CoreOf(t)])
    <3> SUFFICES ASSUME NEW t \in DOMAIN cursors'
                 PROVE  SegmentOf(t) \in 1 .. Len(segments'[CoreOf(t)])
      OBVIOUS
    <3>1. CASE t = s
      <4>1. DOMAIN segs = 1 .. Len(segs)
        BY <1>8, LenProperties
      <4> QED
        BY <1>8, <1>10, <3>1, <4>1 DEF k, core
    <3>2. CASE t \in DOMAIN cursors
      <4>1. SegmentOf(t) \in DOMAIN segments[CoreOf(t)] /\ CoreOf(t) \in Cores
            /\ segments[CoreOf(t)] \in Seq(Segment)
        BY <3>2, StreamFacts
      <4>2. SegmentOf(t) \in 1 .. Len(segments[CoreOf(t)]) /\ Len(segments[CoreOf(t)]) \in Nat
        BY <4>1, LenProperties
      <4>3. Len(segs) \in Nat
        BY <1>8, LenProperties
      <4>4. CASE CoreOf(t) = core
        BY <1>8, <1>10, <4>2, <4>3, <4>4
      <4>5. CASE CoreOf(t) # core
        BY <1>10, <4>1, <4>2, <4>5
      <4> QED
        BY <4>4, <4>5
    <3> QED
      BY <1>6, <3>1, <3>2
  <2>2. \A x \in heap' : x.stream \in DOMAIN cursors'
    BY <1>6, <1>12, <1>16, <1>20
  <2>3. turn' # NoTurn => turn'.stream \in DOMAIN cursors'
    BY <1>6 DEF LoopInv, Placed
  <2>4. \A ch \in Channels : \A x \in channels'[ch].queue :
          x.stream \in DOMAIN cursors' /\ ch = ChannelOf(x.window)
    BY <1>6 DEF LoopInv, Placed
  <2> QED
    BY <2>1, <2>2, <2>3, <2>4 DEF Placed
<1>23. AtRest'
  BY <1>6 DEF LoopInv, AtRest
<1>24. ASSUME NEW t \in DOMAIN cursors' PROVE StreamOK(t)'
  <2>1. TurnsOf(t)' = TurnsOf(t) /\ Flying(t)' = Flying(t)
    BY <1>6 DEF TurnsOf, Flying
  <2>2. CASE t = s
    <3>1. EventsOf(s)' = events \cup new
      BY <1>6, <1>15, <1>16, <1>20 DEF EventsOf
    <3>2. Known(s)' = known
      BY <1>3, <1>10 DEF Known, core, k, segs
    <3> QED
      BY <1>6, <1>15, <1>18, <2>1, <2>2, <3>1, <3>2 DEF StreamOK
  <2>3. CASE t # s
    <3>1. t \in DOMAIN cursors /\ cursors'[t] = cursors[t]
      BY <1>6, <2>3
    <3>2. EventsOf(t)' = EventsOf(t)
      BY <1>6, <1>16, <1>20, <2>3 DEF EventsOf
    <3>3. Known(t)' = Known(t)
      <4>1. SegmentOf(t) \in DOMAIN segments[CoreOf(t)] /\ CoreOf(t) \in Cores
        BY <3>1, StreamFacts
      <4>2. segments'[CoreOf(t)][SegmentOf(t)] = segments[CoreOf(t)][SegmentOf(t)]
        BY <1>8, <1>10, <4>1
      <4> QED
        BY <4>2 DEF Known
    <3> QED
      BY <2>1, <3>1, <3>2, <3>3, StreamFrame DEF LoopInv
  <2> QED
    BY <2>2, <2>3
<1> QED
  BY <1>21, <1>22, <1>23, <1>24 DEF LoopInv

(* A barrier leaves every segment there was its gate. *)
LEMMA BarrierSegments ==
  ASSUME LoopInv, NEW core \in Cores, PushBarrier(core)
  PROVE  /\ segments' \in [Cores -> Seq(Segment)]
         /\ Len(segments[core]) \in Nat \ {0}
         /\ Len(segments'[core]) = Len(segments[core]) + 1
         /\ \A x \in Cores : x # core => segments'[x] = segments[x]
         /\ \A j \in DOMAIN segments[core] :
              /\ j \in DOMAIN segments'[core]
              /\ segments'[core][j].gate_known = segments[core][j].gate_known
              /\ segments'[core][j].gate_cycle = segments[core][j].gate_cycle
              /\ segments'[core][j].max_complete = segments[core][j].max_complete
              /\ segments'[core][j].closed = (segments[core][j].closed \/ j = Len(segments[core]))
         /\ segments'[core][Len(segments[core]) + 1] = SegmentAfter(core, Len(segments[core]))
<1> DEFINE segs == segments[core]
           k == Len(segs)
           new == SegmentAfter(core, k)
           closed == [segs EXCEPT ![k].closed = TRUE]
<1>1. segments \in [Cores -> Seq(Segment)] /\ segs \in Seq(Segment)
  BY DEF LoopInv, LoopTypeOK
<1>2. /\ k > 0 /\ segments' = [segments EXCEPT ![core] = Append(closed, new)]
  BY DEF PushBarrier
<1>3. k \in Nat \ {0} /\ DOMAIN segs = 1 .. k /\ k \in DOMAIN segs
  BY <1>1, <1>2, LenProperties
<1>4. segs[k] \in Segment
  BY <1>1, <1>3, ElementOfSeq
<1>5. new \in Segment
  BY <1>4 DEF SegmentAfter, NewSegment, Segment
<1>6. [segs[k] EXCEPT !.closed = TRUE] \in Segment
  BY <1>4 DEF Segment
<1>7. /\ closed \in Seq(Segment) /\ Len(closed) = k
      /\ \A j \in 1 .. k : closed[j] = IF j = k THEN [segs[k] EXCEPT !.closed = TRUE] ELSE segs[j]
  BY <1>1, <1>3, <1>6, ExceptSeq
<1> HIDE DEF closed, new
<1>8. /\ Append(closed, new) \in Seq(Segment) /\ Len(Append(closed, new)) = k + 1
      /\ Append(closed, new)[k + 1] = new
      /\ \A j \in 1 .. k : Append(closed, new)[j] = closed[j]
  BY <1>5, <1>7, AppendProperties
<1>9. /\ segments' \in [Cores -> Seq(Segment)] /\ segments'[core] = Append(closed, new)
      /\ \A x \in Cores : x # core => segments'[x] = segments[x]
  BY <1>1, <1>2, <1>8
<1>10. DOMAIN segments'[core] = 1 .. k + 1
  BY <1>8, <1>9, LenProperties
<1>11. ASSUME NEW j \in DOMAIN segs
       PROVE  /\ j \in DOMAIN segments'[core]
              /\ segments'[core][j].gate_known = segs[j].gate_known
              /\ segments'[core][j].gate_cycle = segs[j].gate_cycle
              /\ segments'[core][j].max_complete = segs[j].max_complete
              /\ segments'[core][j].closed = (segs[j].closed \/ j = k)
  <2>1. j \in 1 .. k /\ segs[j] \in Segment
    BY <1>1, <1>3, ElementOfSeq
  <2>2. segments'[core][j] = IF j = k THEN [segs[k] EXCEPT !.closed = TRUE] ELSE segs[j]
    BY <1>7, <1>8, <1>9, <2>1
  <2>3. j \in DOMAIN segments'[core]
    BY <1>3, <1>10, <2>1
  <2>4. CASE j = k
    BY <2>1, <2>2, <2>3, <2>4 DEF Segment
  <2>5. CASE j # k
    BY <2>1, <2>2, <2>3, <2>5 DEF Segment
  <2> QED
    BY <2>4, <2>5
<1> QED
  BY <1>3, <1>8, <1>9, <1>11 DEF new

LEMMA PushBarrierLoop ==
  ASSUME LoopInv, NEW core \in Cores, PushBarrier(core), UNCHANGED channels
  PROVE  LoopInv'
<1>1. /\ calls' = Append(calls, [kind |-> "barrier", core |-> core])
      /\ UNCHANGED <<cursors, port_free, heap, results, finished, running, turn, channels>>
  BY DEF PushBarrier
<1>2. calls' \in Seq(CallRecord)
  <2>1. [kind |-> "barrier", core |-> core] \in CallRecord
    BY DEF CallRecord
  <2>2. calls \in Seq(CallRecord)
    BY DEF LoopInv, LoopTypeOK
  <2> QED
    BY <1>1, <2>1, <2>2, AppendProperties
<1>3. LoopTypeOK'
  BY <1>1, <1>2, BarrierSegments DEF LoopInv, LoopTypeOK
<1>4. \A x \in Cores : Len(segments[x]) <= Len(segments'[x]) /\ Len(segments'[x]) \in Nat
  <2> SUFFICES ASSUME NEW x \in Cores
               PROVE  Len(segments[x]) <= Len(segments'[x]) /\ Len(segments'[x]) \in Nat
    OBVIOUS
  <2>1. segments'[x] \in Seq(Segment)
    BY BarrierSegments
  <2>2. Len(segments'[x]) \in Nat
    BY <2>1, LenProperties
  <2>3. CASE x = core
    BY <2>2, <2>3, BarrierSegments
  <2>4. CASE x # core
    BY <2>2, <2>4, BarrierSegments
  <2> QED
    BY <2>3, <2>4
<1>5. Placed'
  <2>1. ASSUME NEW t \in DOMAIN cursors
        PROVE  SegmentOf(t) \in 1 .. Len(segments'[CoreOf(t)])
    <3>1. CoreOf(t) \in Cores /\ SegmentOf(t) \in 1 .. Len(segments[CoreOf(t)])
          /\ segments[CoreOf(t)] \in Seq(Segment)
      BY StreamFacts DEF LoopInv, Placed
    <3>2. Len(segments[CoreOf(t)]) \in Nat
      BY <3>1, LenProperties
    <3> QED
      BY <1>4, <3>1, <3>2
  <2> QED
    BY <1>1, <2>1 DEF LoopInv, Placed
<1>6. AtRest'
  BY <1>1 DEF LoopInv, AtRest
<1>7. ASSUME NEW t \in DOMAIN cursors PROVE StreamOK(t)'
  <2>1. /\ EventsOf(t)' = EventsOf(t) /\ TurnsOf(t)' = TurnsOf(t) /\ Flying(t)' = Flying(t)
        /\ cursors'[t] = cursors[t]
    BY <1>1 DEF EventsOf, TurnsOf, Flying
  <2>2. CoreOf(t) \in Cores /\ SegmentOf(t) \in DOMAIN segments[CoreOf(t)]
    BY StreamFacts
  <2>3. Known(t)' = Known(t)
    <3>1. CASE CoreOf(t) = core
      BY <2>2, <3>1, BarrierSegments DEF Known
    <3>2. CASE CoreOf(t) # core
      BY <2>2, <3>2, BarrierSegments DEF Known
    <3> QED
      BY <3>1, <3>2
  <2> QED
    BY <2>1, <2>3, StreamFrame DEF LoopInv
<1> QED
  BY <1>1, <1>3, <1>5, <1>6, <1>7 DEF LoopInv

(* A step that changes nothing the loop works on: a run begins or returns, results
   are pruned, or nothing happens. *)
Quiet ==
  /\ calls' = calls \/ \E id \in Nat : calls' = Append(calls, [kind |-> "prune", txn_id |-> id])
  /\ running' \in BOOLEAN /\ results' \in Seq(Result)
  /\ running' = FALSE => turn = NoTurn /\ \A ch \in Channels : channels[ch].queue = {}
  /\ UNCHANGED <<segments, cursors, port_free, heap, finished, turn, channels>>

LEMMA QuietLoop ==
  ASSUME LoopInv, Quiet
  PROVE  LoopInv'
<1>0. calls' \in Seq(CallRecord)
  <2>1. calls \in Seq(CallRecord)
    BY DEF LoopInv, LoopTypeOK
  <2>2. \A id \in Nat : [kind |-> "prune", txn_id |-> id] \in CallRecord
    BY DEF CallRecord
  <2>3. \A x \in CallRecord : Append(calls, x) \in Seq(CallRecord)
    BY <2>1, AppendProperties
  <2> QED
    BY <2>1, <2>2, <2>3 DEF Quiet
<1>1. LoopTypeOK' /\ Placed' /\ AtRest'
  BY <1>0 DEF LoopInv, LoopTypeOK, Placed, AtRest, Quiet
<1>2. \A t \in DOMAIN cursors : StreamOK(t)' <=> StreamOK(t)
  BY DEF StreamOK, EventsOf, TurnsOf, Flying, Known, Quiet
<1> QED
  BY <1>1, <1>2 DEF LoopInv, Quiet

LEMMA InitLoop ==
  ASSUME Init
  PROVE  LoopInv
<1>1. DOMAIN cursors = {}
  BY DEF Init, FrontInit
<1>2. LoopTypeOK
  <2>1. <<>> \in Seq(Segment) /\ <<>> \in Seq(Result) /\ <<>> \in Seq(CallRecord)
        /\ <<>> \in Seq([stream : Streams, txn_id : Nat, window : Nat, complete : Nat])
    BY EmptySeq
  <2>2. [queue |-> {}, bus_free |-> 0, last_ready |-> 0, served |-> <<>>] \in ChannelState
    BY <2>1 DEF ChannelState
  <2> QED
    BY <1>1, <2>1, <2>2 DEF LoopTypeOK, Init, FrontInit
<1>3. Placed /\ AtRest
  BY <1>1 DEF Placed, AtRest, Init, FrontInit
<1> QED
  BY <1>1, <1>2, <1>3 DEF LoopInv

-----------------------------------------------------------------------------
(***************************************************************************)
(* Every step is one of these.                                             *)
(***************************************************************************)
(* A chunk of the transaction that s has in progress comes back, and ip is what
   the cursor makes of it. *)
Returns(s, ip) ==
  \E chunk \in Flying(s), back \in Nat :
    chunk \in Chunk /\ Lands(s, chunk) /\ ip = Progressed(cursors[s].in_progress, back)

Progresses(s, ip) ==
  /\ Returns(s, ip) /\ ip.chunks_dispatched # ip.num_chunks
  /\ cursors' = [cursors EXCEPT ![s].in_progress = ip]
  /\ UNCHANGED <<segments, port_free, heap, results, finished, running, turn, calls>>

Finishes(s, ip, complete, gate, opened) ==
  Returns(s, ip) /\ Ends(s, ip, complete, gate, opened)

LEMMA DrainCases ==
  ASSUME LoopInv, NEW ch \in Channels, DrainOne(ch)
  PROVE  \/ \E s \in DOMAIN cursors : \E ip : Progresses(s, ip)
         \/ \E s \in DOMAIN cursors : \E ip, complete, gate, opened :
              Finishes(s, ip, complete, gate, opened)
<1>1. PICK s \in DOMAIN cursors, chunk \in Chunk, back \in Nat :
           /\ chunk \in Flying(s) /\ chunk.stream = s
           /\ Lands(s, chunk) /\ Route(chunk, back)
  BY DrainFacts
<1>2. PICK ip : ip = Progressed(cursors[s].in_progress, back)
  OBVIOUS
<1>3. Returns(s, ip)
  BY <1>1, <1>2 DEF Returns
<1>4. CASE ip.chunks_dispatched = ip.num_chunks
  <2>1. Finalize(s, ip)
    BY <1>1, <1>2, <1>4 DEF Route
  <2>2. CoreOf(s) \in Cores /\ segments \in [Cores -> Seq(Segment)]
    BY StreamFacts DEF LoopInv, LoopTypeOK
  <2>3. PICK complete, gate, opened : Ends(s, ip, complete, gate, opened)
    BY <1>4, <2>1, <2>2, FinalizeEnds
  <2> QED
    BY <1>3, <2>3 DEF Finishes
<1>5. CASE ip.chunks_dispatched # ip.num_chunks
  <2>1. /\ cursors' = [cursors EXCEPT ![s].in_progress = ip]
        /\ UNCHANGED <<segments, port_free, heap, results, finished, bursts, running, turn, calls>>
    BY <1>1, <1>2, <1>5 DEF Route
  <2> QED
    BY <1>3, <1>5, <2>1 DEF Progresses
<1> QED
  BY <1>4, <1>5

(* What is kept of a sequence of results is one. *)
LEMMA PrunedTyped ==
  ASSUME LoopInv, NEW id, PruneResultsBefore(id)
  PROVE  results' \in Seq(Result)
<1>1. results \in Seq(Result)
  BY DEF LoopInv, LoopTypeOK
<1>2. DOMAIN results = 1 .. Len(results) /\ Len(results) \in Nat
  BY <1>1, LenProperties
<1>3. Kept(id) \subseteq 1 .. Len(results)
  BY <1>2 DEF Kept
<1>4. IsFiniteSet(1 .. Len(results))
  BY <1>2, FS_Interval
<1>5. IsFiniteSet(Kept(id))
  BY <1>3, <1>4, FS_Subset
<1>6. PICK n \in Nat : n = Cardinality(Kept(id))
  BY <1>5, FS_CardinalityType
<1>7. PICK place \in Bijection(1 .. n, Kept(id)) :
        results' = [p \in DOMAIN place |-> results[place[p]]]
  BY <1>6 DEF PruneResultsBefore
<1>8. place \in [1 .. n -> Kept(id)]
  BY <1>7 DEF Bijection, Injection
<1>9. \A p \in 1 .. n : results[place[p]] \in Result
  BY <1>1, <1>2, <1>3, <1>8, ElementOfSeq
<1>10. results' \in [1 .. n -> Result]
  BY <1>7, <1>8, <1>9
<1> QED
  BY <1>10, FunctionIsSequence

LEMMA LoopCases ==
  ASSUME LoopInv, [Next]_vars
  PROVE  \/ \E s \in Streams, entry \in Entry : \E new : Pushes(s, entry, new) /\ UNCHANGED channels
         \/ \E core \in Cores : PushBarrier(core) /\ UNCHANGED channels
         \/ (Reschedule \/ Issue \/ Resume) /\ UNCHANGED channels
         \/ Admit
         \/ \E ch \in Channels : DrainOne(ch)
         \/ Quiet
<1>1. CASE Call /\ UNCHANGED channels
  <2>1. ASSUME NEW core \in Cores, NEW axi \in AxiIds, NEW txn \in Txns, PushTxn(core, axi, txn)
        PROVE  \E s \in Streams, entry \in Entry : \E new : Pushes(s, entry, new)
    BY <2>1, PushTxnPushes
  <2>2. ASSUME NEW i \in DOMAIN results, PruneResultsBefore(results[i].txn_id)
        PROVE  Quiet
    <3>1. results[i].txn_id \in Nat
      <4>1. results \in Seq(Result)
        BY DEF LoopInv, LoopTypeOK
      <4>2. results[i] \in Result
        BY <4>1, LenProperties, ElementOfSeq
      <4> QED
        BY <4>2 DEF Result
    <3>2. results' \in Seq(Result)
      BY <2>2, PrunedTyped
    <3> QED
      BY <1>1, <2>2, <3>1, <3>2 DEF PruneResultsBefore, Quiet, LoopInv, AtRest, LoopTypeOK
  <2>3. ASSUME BeginRun PROVE Quiet
    BY <1>1, <2>3 DEF BeginRun, Quiet, LoopInv, LoopTypeOK
  <2> QED
    BY <1>1, <2>1, <2>2, <2>3 DEF Call
<1>2. CASE Loop
  <2>1. CASE (Reschedule \/ Issue \/ Resume) /\ UNCHANGED channels
    BY <2>1
  <2>2. CASE MakeRoom
    <3>1. TurnChannel \in Channels
      BY <2>2, TurnFacts DEF MakeRoom
    <3> QED
      BY <2>2, <3>1 DEF MakeRoom
  <2>3. CASE DrainIdle
    <3>1. Busy \in SUBSET Nat /\ Busy # {}
      BY <2>3, ChannelAssumption DEF DrainIdle, Busy
    <3>2. Min(Busy) \in Channels
      BY <3>1, NatMin DEF Busy
    <3> QED
      BY <2>3, <3>2 DEF DrainIdle
  <2>4. CASE Return
    BY <2>4 DEF Return, ReturnFromRun, Busy, Quiet, LoopInv, LoopTypeOK
  <2> QED
    BY <1>2, <2>1, <2>2, <2>3, <2>4 DEF Loop
<1>3. CASE UNCHANGED vars
  BY <1>3 DEF vars, frontVars, controlVars, Quiet, LoopInv, LoopTypeOK, AtRest
<1> QED
  BY <1>1, <1>2, <1>3 DEF Next

LEMMA StepCases ==
  ASSUME LoopInv, [Next]_vars
  PROVE  \/ \E s \in Streams, entry \in Entry : \E new : Pushes(s, entry, new) /\ UNCHANGED channels
         \/ \E core \in Cores : PushBarrier(core) /\ UNCHANGED channels
         \/ (Reschedule \/ Issue \/ Resume) /\ UNCHANGED channels
         \/ Admit
         \/ \E s \in DOMAIN cursors : \E ip : Progresses(s, ip)
         \/ \E s \in DOMAIN cursors : \E ip, complete, gate, opened :
              Finishes(s, ip, complete, gate, opened)
         \/ Quiet
BY LoopCases, DrainCases

LEMMA LoopStep ==
  ASSUME LoopInv, [Next]_vars
  PROVE  LoopInv'
<1>1. ASSUME NEW s \in DOMAIN cursors, NEW ip, Progresses(s, ip)
      PROVE  LoopInv'
  <2>1. PICK chunk \in Flying(s), back \in Nat :
          chunk \in Chunk /\ Lands(s, chunk) /\ ip = Progressed(cursors[s].in_progress, back)
    BY <1>1 DEF Progresses, Returns
  <2> QED
    BY <1>1, <2>1, ProgressLoop DEF Progresses
<1>2. ASSUME NEW s \in DOMAIN cursors, NEW ip, NEW complete, NEW gate, NEW opened,
             Finishes(s, ip, complete, gate, opened)
      PROVE  LoopInv'
  <2>1. PICK chunk \in Flying(s), back \in Nat :
          chunk \in Chunk /\ Lands(s, chunk) /\ ip = Progressed(cursors[s].in_progress, back)
    BY <1>2 DEF Finishes, Returns
  <2> QED
    BY <1>2, <2>1, EndsLoop DEF Finishes
<1> QED
  BY <1>1, <1>2, StepCases, PushLoop, PushBarrierLoop, RescheduleLoop, IssueLoop, ResumeLoop,
     AdmitLoop, QuietLoop

LEMMA AlwaysLoop == Spec => []LoopInv
<1>1. Init => LoopInv
  BY InitLoop
<1>2. LoopInv /\ [Next]_vars => LoopInv'
  BY LoopStep
<1> QED
  BY <1>1, <1>2, PTL DEF Spec

(* Every stream has at most one event, and a stream with work whose barrier is
   passed has a source for its next step: no wake-up is lost, whatever order
   the channels return chunks in. *)
THEOREM StreamsKeepTheirEvents == Spec => []EventsHaveWork
<1>1. LoopInv => EventsHaveWork
  <2> SUFFICES ASSUME LoopInv, NEW s \in DOMAIN cursors
               PROVE  /\ Cardinality(Sources(s)) <= 1
                      /\ cursors[s].queued <=> Sources(s) # {} \/ Flying(s) # {}
                      /\ NeedsEvent(cursors[s], Known(s)) => Sources(s) = {}
                      /\ cursors[s].queued => cursors[s].pending # <<>>
                      /\ Known(s) => cursors[s].queued = (cursors[s].pending # <<>>)
    BY DEF EventsHaveWork, Known
  <2>1. Sources(s) = EventsOf(s) \cup TurnsOf(s)
    BY DEF Sources, EventsOf, TurnsOf
  <2>2. PICK c, events, turns, flying, known :
          /\ c = cursors[s] /\ events = EventsOf(s) /\ turns = TurnsOf(s)
          /\ flying = Flying(s) /\ known = Known(s)
    OBVIOUS
  <2>3. c \in Cursor /\ known \in BOOLEAN /\ StreamState(c, events, turns, flying, known)
    BY <2>2, StreamFacts DEF LoopInv, StreamOK
  <2>4. /\ events = {} \/ turns = {}
        /\ \A e, f \in events : e = f
        /\ c.queued => known /\ c.pending # <<>>
        /\ known => c.queued = (c.pending # <<>>)
        /\ c.queued <=> events # {} \/ turns # {} \/ flying # {}
    BY <2>3, StateHasWork
  <2>5. Cardinality(Sources(s)) <= 1
    <3>1. \A x, y \in Sources(s) : x = y
      BY <2>1, <2>2, <2>4 DEF TurnsOf
    <3>2. CASE Sources(s) = {}
      BY <3>2, FS_EmptySet
    <3>3. CASE Sources(s) # {}
      <4>1. PICK x : Sources(s) = {x}
        BY <3>1, <3>3
      <4> QED
        BY <4>1, FS_Singleton
    <3> QED
      BY <3>2, <3>3
  <2>6. NeedsEvent(c, known) => Sources(s) = {}
    BY <2>1, <2>2, <2>4 DEF NeedsEvent
  <2> QED
    BY <2>1, <2>2, <2>4, <2>5, <2>6
<1> QED
  BY <1>1, AlwaysLoop, PTL

-----------------------------------------------------------------------------
(***************************************************************************)
(* What a step does to the transactions.  For the order of what is         *)
(* pending, in service and finished, a step pushes a transaction, or       *)
(* pushes a barrier, or issues a transaction, or finishes one, or is       *)
(* steady.                                                                 *)
(***************************************************************************)
(* The streams with a transaction issued and not over. *)
Serving == {s \in DOMAIN cursors : cursors[s].queued /\ \A e \in EventsOf(s) : e.chunk # 0}

(* What a push or a wake-up leaves of a cursor. *)
SameTimes(c, d) ==
  /\ d.outstanding = c.outstanding /\ d.last_complete_cycle = c.last_complete_cycle
  /\ d.in_progress = c.in_progress

StepPushes(s, entry) ==
  /\ entry.txn_id = Cardinality(Pushed) + 1
  /\ calls' = Append(calls, [kind |-> "txn", core |-> CoreOf(s), axi |-> AxiOf(s),
                             txn_id |-> entry.txn_id, txn |-> entry.txn])
  /\ SegmentOf(s) = Len(OpenSegments(CoreOf(s)))
  /\ segments' = [segments EXCEPT ![CoreOf(s)] = OpenSegments(CoreOf(s))]
  /\ DOMAIN cursors' = DOMAIN cursors \cup {s}
  /\ cursors'[s].pending = Append(CursorBefore(s).pending, entry)
  /\ SameTimes(CursorBefore(s), cursors'[s])
  /\ \A t \in DOMAIN cursors \ {s} : cursors'[t] = cursors[t]
  /\ Serving' = Serving
  /\ UNCHANGED <<port_free, finished>>

StepBars(core) ==
  /\ PushBarrier(core)
  /\ Serving' = Serving

StepIssues(s, issue) ==
  /\ s \notin Serving /\ Known(s) /\ cursors[s].pending # <<>>
  /\ port_free[CoreOf(s)] <= issue /\ IdGate(cursors[s]) <= issue /\ GateOf(s) <= issue
  /\ DOMAIN cursors' = DOMAIN cursors
  /\ cursors'[s].pending = cursors[s].pending
  /\ cursors'[s].outstanding = StillOutstanding(cursors[s].outstanding, issue)
  /\ cursors'[s].last_complete_cycle = cursors[s].last_complete_cycle
  /\ cursors'[s].in_progress.issue_cycle = issue /\ cursors'[s].in_progress.max_complete = issue
  /\ issue = IssueCycle(s, cursors[s], GateOf(s))
  /\ cursors'[s].in_progress.outstanding_wait_cycles = OutstandingWait(s, cursors[s])
  /\ cursors'[s].in_progress.txn_id = Head(cursors[s].pending).txn_id
  /\ cursors'[s].in_progress.chunks_dispatched = 0
  /\ \A t \in DOMAIN cursors \ {s} : cursors'[t] = cursors[t]
  /\ port_free' = [port_free EXCEPT ![CoreOf(s)] = issue + 1]
  /\ Serving' = Serving \cup {s}
  /\ UNCHANGED <<segments, finished, calls>>

StepFinishes(s, ip, complete, gate, opened) ==
  /\ s \in Serving /\ Known(s) /\ cursors[s].pending # <<>>
  /\ ip \in InProgress /\ ip.txn_id = Head(cursors[s].pending).txn_id
  /\ ip.issue_cycle = cursors[s].in_progress.issue_cycle
  /\ ip.outstanding_wait_cycles = cursors[s].in_progress.outstanding_wait_cycles
  /\ cursors[s].in_progress.max_complete <= complete
  /\ cursors[s].last_complete_cycle <= complete
  /\ gate = GateAfter(s, complete)
  /\ opened = IF ~ More(cursors[s]) /\ Opens(s) THEN {SegmentOf(s) + 1} ELSE {}
  /\ DOMAIN cursors' = DOMAIN cursors
  /\ cursors'[s] = Finished(cursors[s], ip, complete)
  /\ \A t \in DOMAIN cursors \ {s} :
       cursors'[t].pending = cursors[t].pending /\ SameTimes(cursors[t], cursors'[t])
  /\ segments' = [segments EXCEPT ![CoreOf(s)] =
                    SegmentsAfter(segments[CoreOf(s)], SegmentOf(s), gate, opened)]
  /\ finished' = Append(finished, ResultOf(s, ip, complete))
  /\ Serving' = Serving \ {s}
  /\ UNCHANGED <<port_free, calls>>

(* Its progress is all that may change of a cursor. *)
Advances(c, d) ==
  /\ d.pending = c.pending /\ d.outstanding = c.outstanding
  /\ d.last_complete_cycle = c.last_complete_cycle
  /\ d.in_progress.issue_cycle = c.in_progress.issue_cycle
  /\ d.in_progress.outstanding_wait_cycles = c.in_progress.outstanding_wait_cycles
  /\ c.in_progress.max_complete <= d.in_progress.max_complete

StepSteady ==
  /\ DOMAIN cursors' = DOMAIN cursors
  /\ \A s \in DOMAIN cursors : Advances(cursors[s], cursors'[s])
  /\ calls' = calls \/ \E id \in Nat : calls' = Append(calls, [kind |-> "prune", txn_id |-> id])
  /\ Serving' = Serving
  /\ UNCHANGED <<segments, port_free, finished>>

LEMMA AdvancesReflexive ==
  ASSUME NEW c \in Cursor
  PROVE  Advances(c, c)
BY DEF Advances, Cursor, InProgress

LEMMA ServingFrame ==
  ASSUME DOMAIN cursors' = DOMAIN cursors, \A s \in DOMAIN cursors : cursors'[s].queued = cursors[s].queued,
         \A s \in DOMAIN cursors : {e \in heap' : e.stream = s /\ e.chunk = 0} = {e \in heap : e.stream = s /\ e.chunk = 0}
  PROVE  Serving' = Serving
<1>1. \A s \in DOMAIN cursors : (\A e \in EventsOf(s) : e.chunk # 0) <=> {e \in heap : e.stream = s /\ e.chunk = 0} = {}
  BY DEF EventsOf
<1>2. \A s \in DOMAIN cursors : (\A e \in EventsOf(s)' : e.chunk # 0) <=> {e \in heap' : e.stream = s /\ e.chunk = 0} = {}
  BY DEF EventsOf
<1> QED
  BY <1>1, <1>2 DEF Serving

(* A stream in service has passed its barriers and has a transaction. *)
LEMMA ServingFacts ==
  ASSUME LoopInv, NEW s \in Serving
  PROVE  s \in DOMAIN cursors /\ Known(s) /\ cursors[s].pending # <<>>
<1>1. s \in DOMAIN cursors /\ cursors[s].queued
  BY DEF Serving
<1>2. StreamState(cursors[s], EventsOf(s), TurnsOf(s), Flying(s), Known(s))
  BY <1>1 DEF LoopInv, StreamOK
<1> QED
  BY <1>1, <1>2 DEF StreamState, Idle, Waiting, Issued

(* A stream behind a barrier has a transaction. *)
LEMMA UnknownHasWork ==
  ASSUME LoopInv, NEW s \in DOMAIN cursors, ~ Known(s)
  PROVE  cursors[s].pending # <<>> /\ ~ cursors[s].queued
<1>1. StreamState(cursors[s], EventsOf(s), TurnsOf(s), Flying(s), Known(s))
  BY DEF LoopInv, StreamOK
<1> QED
  BY <1>1, StreamFacts DEF StreamState, Idle, Waiting, Issued

LEMMA PushKind ==
  ASSUME LoopInv, NEW s \in Streams, NEW entry \in Entry, NEW new, Pushes(s, entry, new)
  PROVE  StepPushes(s, entry)
<1>1. PICK b, c : b = CursorBefore(s) /\ c = PushedTo(b, entry)
  OBVIOUS
<1>2. PICK known, e : new = NewEvents(c, known, e) /\ Starts(e) /\ e.stream = s
  BY <1>1 DEF Pushes, Event, Starts
<1>3. b \in Cursor
  BY <1>1, StreamFacts, NewCursorTyped DEF CursorBefore
<1>4. /\ c.pending = Append(b.pending, entry) /\ c.queued = b.queued /\ SameTimes(b, c)
      /\ c.queued \in BOOLEAN
  BY <1>1, <1>3 DEF PushedTo, Cursor, SameTimes
<1>5. c = [b EXCEPT !.pending = Append(b.pending, entry)]
  BY <1>1 DEF PushedTo
<1>6. cursors'[s] = QueuedBy(c, new)
  BY <1>1 DEF Pushes
<1>7. /\ cursors'[s].pending = c.pending /\ SameTimes(c, cursors'[s])
      /\ cursors'[s].queued = (c.queued \/ new # {})
  BY <1>3, <1>5, <1>6 DEF QueuedBy, Cursor, SameTimes
<1>8. /\ DOMAIN cursors' = DOMAIN cursors \cup {s}
      /\ \A t \in DOMAIN cursors \ {s} : cursors'[t] = cursors[t]
      /\ heap' = heap \cup new
  BY DEF Pushes
<1>9. new \subseteq {e} /\ (new # {} => ~ c.queued)
  BY <1>2 DEF NewEvents, NeedsEvent
<1>10. \A t \in DOMAIN cursors \ {s} : t \in Serving' <=> t \in Serving
  <2> SUFFICES ASSUME NEW t \in DOMAIN cursors \ {s} PROVE t \in Serving' <=> t \in Serving
    OBVIOUS
  <2>1. EventsOf(t)' = EventsOf(t)
    BY <1>2, <1>8, <1>9 DEF EventsOf
  <2> QED
    BY <1>8, <2>1 DEF Serving
<1>11. s \in Serving' <=> s \in Serving
  <2>1. CASE new = {}
    <3>1. EventsOf(s)' = EventsOf(s)
      BY <1>8, <2>1 DEF EventsOf
    <3>2. CASE s \in DOMAIN cursors
      BY <1>1, <1>4, <1>7, <1>8, <2>1, <3>1, <3>2 DEF Serving, CursorBefore
    <3>3. CASE s \notin DOMAIN cursors
      BY <1>1, <1>4, <1>7, <2>1, <3>3 DEF Serving, CursorBefore, NewCursor
    <3> QED
      BY <3>2, <3>3
  <2>2. CASE new # {}
    <3>1. e \in EventsOf(s)'
      BY <1>2, <1>8, <1>9, <2>2 DEF EventsOf
    <3>2. s \in DOMAIN cursors => ~ cursors[s].queued
      BY <1>1, <1>4, <1>9, <2>2 DEF CursorBefore
    <3> QED
      BY <1>2, <3>1, <3>2 DEF Serving, Starts
  <2> QED
    BY <2>1, <2>2
<1>12. Serving' = Serving
  <2>1. Serving \subseteq DOMAIN cursors /\ Serving' \subseteq DOMAIN cursors \cup {s}
    BY <1>8 DEF Serving
  <2> QED
    BY <1>10, <1>11, <2>1
<1>13. cursors'[s].pending = Append(b.pending, entry) /\ SameTimes(b, cursors'[s])
  BY <1>4, <1>7 DEF SameTimes
<1> QED
  BY <1>1, <1>8, <1>12, <1>13 DEF Pushes, StepPushes

LEMMA BarKind ==
  ASSUME LoopInv, NEW core \in Cores, PushBarrier(core)
  PROVE  StepBars(core)
<1>1. UNCHANGED <<cursors, heap>>
  BY DEF PushBarrier
<1>2. Serving' = Serving
  BY <1>1 DEF Serving, EventsOf
<1> QED
  BY <1>2 DEF StepBars

LEMMA IssueKind ==
  ASSUME LoopInv, Issue
  PROVE  \E s \in DOMAIN cursors, issue \in Nat : StepIssues(s, issue)
<1>1. PICK e \in HeapEvent, s \in DOMAIN cursors :
        /\ e = Top /\ e \in heap /\ e.stream = s /\ EventsOf(s) = {e}
        /\ \A t : TurnsOf(t) = {}
  BY PopTop DEF Issue
<1>2. PICK c, issue : c = cursors[s] /\ issue = e.ready
  OBVIOUS
<1>3. /\ e.chunk = 0
      /\ issue = IssueCycle(s, c, GateOf(s))
      /\ cursors' = [cursors EXCEPT ![s] =
           [c EXCEPT !.outstanding = StillOutstanding(@, issue),
                     !.in_progress = Started(Head(c.pending), issue, OutstandingWait(s, c))]]
      /\ port_free' = [port_free EXCEPT ![CoreOf(s)] = issue + 1]
      /\ heap' = heap \ {e}
      /\ UNCHANGED <<segments, finished, calls>>
  BY <1>1, <1>2 DEF Issue, PortFreeAfter
<1>4. /\ c \in Cursor /\ GateOf(s) \in Nat /\ port_free[CoreOf(s)] \in Nat /\ issue \in Nat
  BY <1>2, StreamFacts DEF HeapEvent
<1>5. port_free[CoreOf(s)] <= issue /\ IdGate(c) <= issue /\ GateOf(s) <= issue
  BY <1>3, <1>4, IssueCycleNat
<1>6. Waiting(c, {e}, {}, Flying(s), Known(s))
  <2>1. StreamState(c, {e}, {}, Flying(s), Known(s))
    BY <1>1, <1>2 DEF LoopInv, StreamOK
  <2> QED
    BY <1>3, <2>1 DEF StreamState, Idle, Issued, Admitted
<1>7. s \notin Serving
  BY <1>1, <1>3 DEF Serving
<1>8. /\ DOMAIN cursors' = DOMAIN cursors
      /\ \A t \in DOMAIN cursors \ {s} : cursors'[t] = cursors[t]
  BY <1>3
<1>9. PICK wait : wait = OutstandingWait(s, c)
  OBVIOUS
<1>10. cursors'[s] = [c EXCEPT !.outstanding = StillOutstanding(c.outstanding, issue),
                              !.in_progress = Started(Head(c.pending), issue, wait)]
  BY <1>3, <1>9
<1>11. /\ cursors'[s].pending = c.pending /\ cursors'[s].queued = c.queued
       /\ cursors'[s].last_complete_cycle = c.last_complete_cycle
       /\ cursors'[s].outstanding = StillOutstanding(c.outstanding, issue)
       /\ cursors'[s].in_progress = Started(Head(c.pending), issue, wait)
  BY <1>4, <1>10 DEF Cursor
<1>12. /\ cursors'[s].in_progress.issue_cycle = issue /\ cursors'[s].in_progress.max_complete = issue
       /\ cursors'[s].in_progress.outstanding_wait_cycles = OutstandingWait(s, c)
       /\ cursors'[s].in_progress.txn_id = Head(c.pending).txn_id
       /\ cursors'[s].in_progress.chunks_dispatched = 0
  BY <1>9, <1>11 DEF Started
<1>13. EventsOf(s)' = {} /\ \A t : t # s => EventsOf(t)' = EventsOf(t)
  BY <1>1, <1>3 DEF EventsOf
<1>14. Serving' = Serving \cup {s}
  <2>1. s \in Serving'
    BY <1>6, <1>8, <1>11, <1>13 DEF Serving, Waiting
  <2>2. \A t \in DOMAIN cursors \ {s} : t \in Serving' <=> t \in Serving
    BY <1>8, <1>13 DEF Serving
  <2>3. Serving \subseteq DOMAIN cursors /\ Serving' \subseteq DOMAIN cursors
    BY <1>8 DEF Serving
  <2> QED
    BY <2>1, <2>2, <2>3
<1>15. Known(s) /\ c.pending # <<>>
  BY <1>6 DEF Waiting
<1>16. StepIssues(s, issue)
  BY <1>2, <1>3, <1>5, <1>7, <1>8, <1>11, <1>12, <1>14, <1>15 DEF StepIssues
<1> QED
  BY <1>4, <1>16

LEMMA FinishKind ==
  ASSUME LoopInv, NEW s \in DOMAIN cursors, NEW ip, NEW complete, NEW gate, NEW opened,
         Finishes(s, ip, complete, gate, opened)
  PROVE  complete \in Nat /\ gate \in Nat /\ StepFinishes(s, ip, complete, gate, opened)
<1>1. PICK chunk \in Flying(s), back \in Nat : ip = Progressed(cursors[s].in_progress, back)
  BY DEF Finishes, Returns
<1>2. /\ ip.chunks_dispatched = ip.num_chunks
      /\ complete = Completion(cursors[s], ip) /\ gate = GateAfter(s, complete)
      /\ opened = IF ~ More(cursors[s]) /\ Opens(s) THEN {SegmentOf(s) + 1} ELSE {}
      /\ DOMAIN cursors' = DOMAIN cursors
      /\ cursors'[s] = Finished(cursors[s], ip, complete)
      /\ \A t \in Woken(s, opened) \ {s} : cursors'[t] = [cursors[t] EXCEPT !.queued = TRUE]
      /\ \A t \in DOMAIN cursors \ (Woken(s, opened) \cup {s}) : cursors'[t] = cursors[t]
      /\ heap' = heap \cup NextEvents(cursors[s], Event(IssueCycle(s, cursors'[s], GateOf(s)), s, 0))
                      \cup {Event(IssueCycle(t, cursors[t], gate), t, 0) : t \in Woken(s, opened)}
      /\ segments' = [segments EXCEPT ![CoreOf(s)] =
                        SegmentsAfter(segments[CoreOf(s)], SegmentOf(s), gate, opened)]
      /\ finished' = Append(finished, ResultOf(s, ip, complete))
      /\ UNCHANGED <<port_free, running, turn, calls>>
  BY DEF Finishes, Ends
<1>3. /\ ip \in InProgress
      /\ ip.issue_cycle = cursors[s].in_progress.issue_cycle
      /\ cursors[s].in_progress.max_complete <= ip.max_complete
      /\ EventsOf(s) = {} /\ Known(s) /\ cursors[s].queued /\ cursors[s].pending # <<>>
      /\ ip.txn_id = Head(cursors[s].pending).txn_id
      /\ complete \in Nat /\ ip.max_complete <= complete
      /\ cursors[s].last_complete_cycle <= complete
      /\ gate \in Nat
  <2>a. ip.chunks_dispatched = ip.num_chunks
    BY <1>2
  <2>1. /\ ip \in InProgress
        /\ ip.issue_cycle = cursors[s].in_progress.issue_cycle
        /\ cursors[s].in_progress.max_complete <= ip.max_complete
        /\ EventsOf(s) = {} /\ Known(s) /\ cursors[s].queued /\ cursors[s].pending # <<>>
        /\ ip.txn_id = Head(cursors[s].pending).txn_id
        /\ Completion(cursors[s], ip) \in Nat
        /\ ip.max_complete <= Completion(cursors[s], ip)
        /\ cursors[s].last_complete_cycle <= Completion(cursors[s], ip)
        /\ GateAfter(s, Completion(cursors[s], ip)) \in Nat
    BY <1>1, <2>a, LastChunk, Zenon
  <2> QED
    BY <1>2, <2>1
<1>4. cursors[s] \in Cursor /\ cursors[s].in_progress \in InProgress
  BY StreamFacts DEF Cursor
<1>5. cursors[s].in_progress.max_complete <= complete
  <2>1. PICK before, after :
          before = cursors[s].in_progress.max_complete /\ after = ip.max_complete
    OBVIOUS
  <2>2. before \in Nat /\ after \in Nat
    BY <1>3, <1>4, <2>1 DEF InProgress
  <2>3. before <= after /\ after <= complete /\ complete \in Nat
    BY <1>3, <2>1
  <2> QED
    BY <2>1, <2>2, <2>3
<1>6. s \in Serving
  BY <1>3 DEF Serving
<1>7. ASSUME NEW t \in DOMAIN cursors \ {s}
      PROVE  cursors'[t].pending = cursors[t].pending /\ SameTimes(cursors[t], cursors'[t])
  <2>1. PICK c \in Cursor : c = cursors[t]
    BY StreamFacts
  <2>2. cursors'[t] = c \/ cursors'[t] = [c EXCEPT !.queued = TRUE]
    BY <1>2, <2>1
  <2>3. /\ [c EXCEPT !.queued = TRUE].pending = c.pending
        /\ SameTimes(c, [c EXCEPT !.queued = TRUE]) /\ SameTimes(c, c)
    BY DEF Cursor, SameTimes
  <2> QED
    BY <2>1, <2>2, <2>3
<1>8. PICK e : /\ Starts(e) /\ e.stream = s
               /\ heap' = heap \cup NextEvents(cursors[s], e)
                      \cup {Event(IssueCycle(t, cursors[t], gate), t, 0) : t \in Woken(s, opened)}
  BY <1>2 DEF Event, Starts
<1>9. s \notin Serving'
  <2>1. cursors'[s].queued = More(cursors[s])
    BY <1>2, <1>3, <1>4, FinishedTyped
  <2>2. CASE More(cursors[s])
    <3>1. e \in EventsOf(s)'
      BY <1>8, <2>2 DEF NextEvents, EventsOf
    <3> QED
      BY <1>8, <3>1 DEF Serving, Starts
  <2>3. CASE ~ More(cursors[s])
    BY <2>1, <2>3 DEF Serving
  <2> QED
    BY <2>2, <2>3
<1>10. \A t \in DOMAIN cursors \ {s} : t \in Serving' <=> t \in Serving
  <2> SUFFICES ASSUME NEW t \in DOMAIN cursors \ {s} PROVE t \in Serving' <=> t \in Serving
    OBVIOUS
  <2>1. CASE t \in Woken(s, opened)
    <3>1. t \notin Serving
      BY <2>1 DEF Woken, NeedsEvent, Serving
    <3>2. PICK f : f = Event(IssueCycle(t, cursors[t], gate), t, 0)
      OBVIOUS
    <3>3. f \in EventsOf(t)' /\ f.chunk = 0
      BY <1>2, <2>1, <3>2 DEF EventsOf, Event
    <3> QED
      BY <3>1, <3>3 DEF Serving
  <2>2. CASE t \notin Woken(s, opened)
    <3>1. NextEvents(cursors[s], e) \subseteq {e}
      BY DEF NextEvents
    <3>2. \A u \in Woken(s, opened) : Event(IssueCycle(u, cursors[u], gate), u, 0).stream = u
      BY DEF Event
    <3>3. EventsOf(t)' = EventsOf(t)
      BY <1>8, <2>2, <3>1, <3>2 DEF EventsOf
    <3> QED
      BY <1>2, <2>2, <3>3 DEF Serving
  <2> QED
    BY <2>1, <2>2
<1>11. Serving' = Serving \ {s}
  <2>1. Serving \subseteq DOMAIN cursors /\ Serving' \subseteq DOMAIN cursors
    BY <1>2 DEF Serving
  <2> QED
    BY <1>9, <1>10, <2>1
<1>12. ip.outstanding_wait_cycles = cursors[s].in_progress.outstanding_wait_cycles
  BY <1>1, <1>4, ProgressedTyped
<1> QED
  BY <1>2, <1>3, <1>5, <1>6, <1>7, <1>11, <1>12 DEF StepFinishes

LEMMA SteadyLoop ==
  ASSUME LoopInv,
         \/ (Reschedule \/ Resume) /\ UNCHANGED channels
         \/ Admit \/ Quiet
  PROVE  StepSteady
<1>1. UNCHANGED <<segments, cursors, port_free, finished>>
  BY DEF Reschedule, Resume, Admit, AdmitTurn, Quiet
<1>2. calls' = calls \/ \E id \in Nat : calls' = Append(calls, [kind |-> "prune", txn_id |-> id])
  BY DEF Reschedule, Resume, Admit, AdmitTurn, Quiet
<1>3. \A s \in DOMAIN cursors : Advances(cursors[s], cursors'[s])
  BY <1>1, StreamFacts, AdvancesReflexive
<1>4. Serving' = Serving
  <2> SUFFICES ASSUME NEW s \in DOMAIN cursors
               PROVE  {e \in heap' : e.stream = s /\ e.chunk = 0}
                        = {e \in heap : e.stream = s /\ e.chunk = 0} \/ (s \notin Serving /\ s \notin Serving')
    BY <1>1 DEF Serving, EventsOf
  <2>1. CASE Reschedule
    <3>1. PICK e \in HeapEvent, t \in DOMAIN cursors :
            /\ e = Top /\ e \in heap /\ e.stream = t /\ EventsOf(t) = {e}
            /\ \A u : TurnsOf(u) = {}
      BY <2>1, PopTop DEF Reschedule
    <3>2. PICK f : f = RefreshedEvent(e)
      OBVIOUS
    <3>3. f.stream = t /\ f.chunk = 0 /\ e.chunk = 0 /\ heap' = (heap \ {e}) \cup {f}
      BY <2>1, <3>1, <3>2 DEF RefreshedEvent, HeapEvent, Reschedule
    <3>4. CASE s = t
      <4>1. s \notin Serving /\ s \notin Serving'
        BY <3>1, <3>3, <3>4 DEF Serving, EventsOf
      <4> QED
        BY <4>1
    <3>5. CASE s # t
      BY <3>1, <3>3, <3>5
    <3> QED
      BY <3>4, <3>5
  <2>2. CASE Resume
    <3>1. PICK e \in HeapEvent, t \in DOMAIN cursors :
            /\ e = Top /\ e \in heap /\ e.stream = t /\ EventsOf(t) = {e}
            /\ \A u : TurnsOf(u) = {}
      BY <2>2, PopTop DEF Resume
    <3>2. e.chunk # 0 /\ heap' = heap \ {e}
      BY <2>2, <3>1 DEF Resume
    <3> QED
      BY <3>2
  <2>3. CASE Admit
    <3>1. PICK e \in HeapEvent : turn = e
      BY <2>3 DEF Admit, LoopInv, LoopTypeOK
    <3>2. PICK next : next = Event(cursors[turn.stream].in_progress.issue_cycle, turn.stream, turn.chunk + 1)
      OBVIOUS
    <3>3. next.chunk # 0
      BY <3>1, <3>2 DEF Event, HeapEvent
    <3>4. heap' = heap \/ heap' = heap \cup {next}
      BY <2>3, <3>2 DEF Admit, AdmitTurn
    <3> QED
      BY <3>3, <3>4
  <2>4. CASE Quiet
    BY <2>4 DEF Quiet
  <2> QED
    BY <2>1, <2>2, <2>3, <2>4
<1> QED
  BY <1>1, <1>2, <1>3, <1>4 DEF StepSteady

LEMMA SteadyProgress ==
  ASSUME LoopInv, NEW s \in DOMAIN cursors, NEW ip, Progresses(s, ip)
  PROVE  StepSteady
<1>1. PICK chunk \in Flying(s), back \in Nat : ip = Progressed(cursors[s].in_progress, back)
  BY DEF Progresses, Returns
<1>2. /\ cursors' = [cursors EXCEPT ![s].in_progress = ip]
      /\ UNCHANGED <<segments, port_free, heap, finished, calls>>
  BY DEF Progresses
<1>3. cursors[s] \in Cursor /\ cursors[s].in_progress \in InProgress
  BY StreamFacts DEF Cursor
<1>4. /\ ip.issue_cycle = cursors[s].in_progress.issue_cycle
      /\ ip.outstanding_wait_cycles = cursors[s].in_progress.outstanding_wait_cycles
      /\ cursors[s].in_progress.max_complete <= ip.max_complete
  BY <1>1, <1>3, ProgressedTyped
<1>5. PICK d : d = [cursors[s] EXCEPT !.in_progress = ip]
  OBVIOUS
<1>6. /\ d.pending = cursors[s].pending /\ d.outstanding = cursors[s].outstanding
      /\ d.last_complete_cycle = cursors[s].last_complete_cycle
      /\ d.in_progress = ip /\ d.queued = cursors[s].queued
  BY <1>3, <1>5 DEF Cursor
<1>7. /\ DOMAIN cursors' = DOMAIN cursors /\ cursors'[s] = d
      /\ \A t \in DOMAIN cursors : t # s => cursors'[t] = cursors[t]
  BY <1>2, <1>5
<1>8. \A t \in DOMAIN cursors : Advances(cursors[t], cursors'[t])
  <2> SUFFICES ASSUME NEW t \in DOMAIN cursors PROVE Advances(cursors[t], cursors'[t])
    OBVIOUS
  <2>1. CASE t = s
    BY <1>4, <1>6, <1>7, <2>1 DEF Advances
  <2>2. CASE t # s
    BY <1>7, <2>2, StreamFacts, AdvancesReflexive
  <2> QED
    BY <2>1, <2>2
<1>9. Serving' = Serving
  <2>1. \A t \in DOMAIN cursors : cursors'[t].queued = cursors[t].queued
    BY <1>6, <1>7
  <2> QED
    BY <1>2, <1>7, <2>1, ServingFrame
<1> QED
  BY <1>2, <1>7, <1>8, <1>9 DEF StepSteady

LEMMA StepKinds ==
  ASSUME LoopInv, [Next]_vars
  PROVE  \/ \E s \in Streams, entry \in Entry : StepPushes(s, entry)
         \/ \E core \in Cores : StepBars(core)
         \/ \E s \in DOMAIN cursors, issue \in Nat : StepIssues(s, issue)
         \/ \E s \in DOMAIN cursors, complete \in Nat, gate \in Nat : \E ip, opened :
              StepFinishes(s, ip, complete, gate, opened)
         \/ StepSteady
<1>1. ASSUME NEW s \in DOMAIN cursors, NEW ip, NEW complete, NEW gate, NEW opened,
             Finishes(s, ip, complete, gate, opened)
      PROVE  \E x \in DOMAIN cursors, c \in Nat, g \in Nat : \E p, o : StepFinishes(x, p, c, g, o)
  BY <1>1, FinishKind
<1> QED
  BY <1>1, StepCases, PushKind, BarKind, IssueKind, SteadyLoop, SteadyProgress

-----------------------------------------------------------------------------
(***************************************************************************)
(* Segments between barriers are worked off in order.                      *)
(***************************************************************************)
(* Nothing is left to do in segment k of a core. *)
Done(core, k) == \A t \in InSegment(core, k) : cursors[t].pending = <<>>

(* A segment is closed by the barrier that opens the next, and its gate is known
   once all in front of it is done: so a segment that is done opens the next. *)
SegmentsOrdered(core) ==
  LET segs == segments[core] IN
  /\ segs # <<>> => segs[1].gate_known
  /\ \A k \in DOMAIN segs : segs[k].closed <=> k < Len(segs)
  /\ \A k \in DOMAIN segs : k < Len(segs) =>
       /\ InSegment(core, k) # {}
       /\ segs[k].gate_known /\ Done(core, k) => segs[k + 1].gate_known
  /\ \A j, k \in DOMAIN segs : j < k /\ segs[k].gate_known => segs[j].gate_known /\ Done(core, j)

SegInv == \A core \in Cores : SegmentsOrdered(core)

LEMMA OrderedFrame ==
  ASSUME NEW core, segments'[core] = segments[core],
         \A k : InSegment(core, k)' = InSegment(core, k),
         \A k : \A t \in InSegment(core, k) : cursors'[t].pending = cursors[t].pending,
         SegmentsOrdered(core)
  PROVE  SegmentsOrdered(core)'
<1>1. \A k : Done(core, k)' <=> Done(core, k)
  BY DEF Done
<1> QED
  BY <1>1 DEF SegmentsOrdered

LEMMA SegInvPushes ==
  ASSUME LoopInv, SegInv, NEW s \in Streams, NEW entry \in Entry, StepPushes(s, entry)
  PROVE  SegInv'
<1> DEFINE core == CoreOf(s)
           old == segments[core]
           segs == OpenSegments(core)
           k == SegmentOf(s)
<1>1. core \in Cores /\ segments \in [Cores -> Seq(Segment)]
  BY DEF LoopInv, LoopTypeOK, Streams, CoreOf
<1>2. /\ segments'[core] = segs /\ k = Len(segs)
      /\ \A x \in Cores : x # core => segments'[x] = segments[x]
      /\ DOMAIN cursors' = DOMAIN cursors \cup {s}
      /\ \A t \in DOMAIN cursors \ {s} : cursors'[t] = cursors[t]
  BY <1>1 DEF StepPushes
<1>3. \A x \in Cores : \A j : x # core \/ j # k =>
        /\ InSegment(x, j)' = InSegment(x, j)
        /\ \A t \in InSegment(x, j) : cursors'[t].pending = cursors[t].pending
  BY <1>2 DEF InSegment
<1>4. ASSUME NEW x \in Cores, x # core PROVE SegmentsOrdered(x)'
  BY <1>2, <1>3, <1>4, OrderedFrame DEF SegInv
<1>5. SegmentsOrdered(core)'
  <2>1. CASE old = <<>>
    <3>1. PICK new : new = NewSegment(TRUE, 0)
      OBVIOUS
    <3>2. segs = <<new>> /\ new.gate_known /\ ~ new.closed
      BY <2>1, <3>1 DEF OpenSegments, NewSegment
    <3>3. DOMAIN segs = {1} /\ Len(segs) = 1 /\ segs[1] = new
      BY <3>2
    <3> QED
      BY <1>2, <3>2, <3>3 DEF SegmentsOrdered
  <2>2. CASE old # <<>>
    <3>1. segs = old
      BY <2>2 DEF OpenSegments
    <3>2. DOMAIN segs = 1 .. k /\ k \in Nat
      BY <1>1, <1>2, <3>1, LenProperties
    <3>3. \A j \in DOMAIN segs : j < k => (Done(core, j)' <=> Done(core, j)) /\ InSegment(core, j)' = InSegment(core, j)
      BY <1>1, <1>3, <3>2 DEF Done
    <3>4. SegmentsOrdered(core)
      BY <1>1 DEF SegInv
    <3> HIDE DEF core, old, segs, k
    <3>5. \A i, j \in DOMAIN segs : i < j => i < k
      BY <3>2
    <3> QED
      BY <1>2, <3>1, <3>3, <3>4, <3>5 DEF SegmentsOrdered, old
  <2> QED
    BY <2>1, <2>2
<1> QED
  BY <1>4, <1>5 DEF SegInv

LEMMA SegInvBars ==
  ASSUME LoopInv, SegInv, NEW core \in Cores, StepBars(core)
  PROVE  SegInv'
<1> DEFINE segs == segments[core]
           k == Len(segs)
<1>1. /\ PushBarrier(core) /\ cursors' = cursors /\ InSegment(core, k) # {}
      /\ \A x, j : InSegment(x, j)' = InSegment(x, j)
  BY DEF StepBars, PushBarrier, InSegment
<1>2. \A x, j : Done(x, j)' <=> Done(x, j)
  BY <1>1 DEF Done
<1>3. ASSUME NEW x \in Cores, x # core PROVE SegmentsOrdered(x)'
  <2>1. segments'[x] = segments[x]
    BY <1>1, <1>3, BarrierSegments
  <2> QED
    BY <1>1, <2>1, OrderedFrame DEF SegInv
<1>4. SegmentsOrdered(core)'
  <2>1. PICK segs2, new : segs2 = segments'[core] /\ new = SegmentAfter(core, k)
    OBVIOUS
  <2>2. /\ k \in Nat \ {0} /\ Len(segs2) = k + 1 /\ segs2[k + 1] = new
        /\ \A j \in DOMAIN segs : /\ j \in DOMAIN segs2
                                  /\ segs2[j].gate_known = segs[j].gate_known
                                  /\ segs2[j].closed = (segs[j].closed \/ j = k)
    BY <1>1, <2>1, BarrierSegments
  <2>3. /\ segs \in Seq(Segment) /\ segs2 \in Seq(Segment)
        /\ DOMAIN segs = 1 .. k /\ DOMAIN segs2 = 1 .. k + 1
    <3>1. segs \in Seq(Segment) /\ segs2 \in Seq(Segment)
      BY <1>1, <2>1, BarrierSegments DEF LoopInv, LoopTypeOK
    <3> QED
      BY <2>2, <3>1, LenProperties
  <2>4. /\ new.gate_known <=> Done(core, k)
        /\ ~ new.closed
    BY <2>1 DEF SegmentAfter, NewSegment, Done
  <2>5. Done(core, k) => segs[k].gate_known
    <3> SUFFICES ASSUME Done(core, k) PROVE segs[k].gate_known
      OBVIOUS
    <3>1. PICK t \in InSegment(core, k) : cursors[t].pending = <<>>
      BY <1>1 DEF Done
    <3>2. t \in DOMAIN cursors /\ CoreOf(t) = core /\ SegmentOf(t) = k
      BY DEF InSegment
    <3>3. Known(t)
      BY <3>1, <3>2, UnknownHasWork
    <3> QED
      BY <3>2, <3>3 DEF Known
  <2>6. SegmentsOrdered(core)
    BY DEF SegInv
  <2>7. /\ segs # <<>> /\ segs2 # <<>> /\ 1 \in DOMAIN segs
    BY <2>2, <2>3
  <2> HIDE DEF k
  <2>8. segs2[1].gate_known
    BY <2>2, <2>6, <2>7 DEF SegmentsOrdered
  <2>9. \A j \in DOMAIN segs2 : segs2[j].closed <=> j < Len(segs2)
    <3> SUFFICES ASSUME NEW j \in DOMAIN segs2 PROVE segs2[j].closed <=> j < k + 1
      BY <2>2
    <3>1. CASE j = k + 1
      BY <2>2, <2>4, <3>1
    <3>2. CASE j \in DOMAIN segs
      <4>1. j \in 1 .. k /\ j < k + 1
        BY <2>2, <2>3, <3>2
      <4>2. segs2[j].closed = (segs[j].closed \/ j = k)
        BY <2>2, <3>2
      <4>3. segs[j].closed <=> j < k
        BY <2>6, <3>2 DEF SegmentsOrdered, k
      <4>4. j < k \/ j = k
        BY <2>2, <4>1
      <4> QED
        BY <4>1, <4>2, <4>3, <4>4
    <3> QED
      BY <2>2, <2>3, <3>1, <3>2
  <2>10. \A j \in DOMAIN segs2 : j < Len(segs2) =>
           /\ InSegment(core, j) # {}
           /\ segs2[j].gate_known /\ Done(core, j) => segs2[j + 1].gate_known
    <3> SUFFICES ASSUME NEW j \in DOMAIN segs2, j < k + 1
                 PROVE  /\ InSegment(core, j) # {}
                        /\ segs2[j].gate_known /\ Done(core, j) => segs2[j + 1].gate_known
      BY <2>2
    <3>1. CASE j = k
      BY <1>1, <2>2, <2>4, <3>1 DEF k
    <3>2. CASE j # k
      <4>1. j \in DOMAIN segs /\ j + 1 \in DOMAIN segs /\ j < k
        BY <2>2, <2>3, <3>2
      <4> QED
        BY <2>2, <2>6, <4>1 DEF SegmentsOrdered, k
    <3> QED
      BY <3>1, <3>2
  <2>11. \A i, j \in DOMAIN segs2 : i < j /\ segs2[j].gate_known => segs2[i].gate_known /\ Done(core, i)
    <3> SUFFICES ASSUME NEW i \in DOMAIN segs2, NEW j \in DOMAIN segs2, i < j, segs2[j].gate_known
                 PROVE  segs2[i].gate_known /\ Done(core, i)
      OBVIOUS
    <3>1. i \in DOMAIN segs /\ k \in DOMAIN segs
      BY <2>2, <2>3
    <3>2. CASE j = k + 1
      <4>1. Done(core, k) /\ segs[k].gate_known
        BY <2>2, <2>4, <2>5, <3>2
      <4>2. CASE i = k
        BY <2>2, <3>1, <4>1, <4>2
      <4>3. CASE i < k
        BY <2>2, <2>6, <3>1, <4>1, <4>3 DEF SegmentsOrdered
      <4> QED
        BY <2>2, <2>3, <3>1, <4>2, <4>3
    <3>3. CASE j \in DOMAIN segs
      BY <2>2, <2>6, <3>1, <3>3 DEF SegmentsOrdered
    <3> QED
      BY <2>2, <2>3, <3>2, <3>3
  <2>12. \A j : (InSegment(core, j)' = InSegment(core, j)) /\ (Done(core, j)' <=> Done(core, j))
    BY <1>1, <1>2
  <2> QED
    BY <2>1, <2>8, <2>9, <2>10, <2>11, <2>12 DEF SegmentsOrdered
<1> QED
  BY <1>3, <1>4 DEF SegInv

LEMMA SegInvFinishes ==
  ASSUME LoopInv, SegInv, NEW s \in DOMAIN cursors, NEW complete \in Nat, NEW gate \in Nat,
         NEW ip, NEW opened, StepFinishes(s, ip, complete, gate, opened)
  PROVE  SegInv'
<1> DEFINE core == CoreOf(s)
           segs == segments[core]
           k == SegmentOf(s)
<1>1. /\ core \in Cores /\ segs \in Seq(Segment) /\ k \in DOMAIN segs /\ k \in Nat \ {0}
      /\ cursors[s] \in Cursor /\ segments \in [Cores -> Seq(Segment)]
  BY StreamFacts DEF LoopInv, LoopTypeOK
<1>2. /\ segs[k].gate_known /\ ip \in InProgress /\ cursors[s].pending # <<>>
      /\ DOMAIN cursors' = DOMAIN cursors /\ cursors'[s] = Finished(cursors[s], ip, complete)
      /\ \A t \in DOMAIN cursors \ {s} : cursors'[t].pending = cursors[t].pending
      /\ segments' = [segments EXCEPT ![core] = SegmentsAfter(segs, k, gate, opened)]
      /\ opened = IF ~ More(cursors[s]) /\ Opens(s) THEN {k + 1} ELSE {}
  BY DEF StepFinishes, Known
<1>3. cursors'[s].pending = Tail(cursors[s].pending)
  <2>1. /\ cursors[s] \in Cursor /\ cursors[s].pending # <<>> /\ ip \in InProgress
    BY <1>1, <1>2
  <2>2. Finished(cursors[s], ip, complete).pending = Tail(cursors[s].pending)
    BY <2>1, FinishedTyped
  <2> QED
    BY <1>2, <2>2
<1>4. cursors'[s].pending = <<>> <=> ~ More(cursors[s])
  <2>1. cursors[s].pending \in Seq(Entry)
    BY <1>1 DEF Cursor, Entry
  <2>2. PICK p \in Seq(Entry) : p = cursors[s].pending /\ p # <<>>
    BY <1>2, <2>1
  <2>3. Tail(p) \in Seq(Entry) /\ Len(Tail(p)) = Len(p) - 1 /\ Len(p) \in Nat /\ Len(p) # 0
    BY <2>2, HeadTailProperties, EmptySeq
  <2>4. Tail(p) = <<>> <=> Len(Tail(p)) = 0
    BY <2>3, EmptySeq
  <2>5. PICK m, n : m = Len(Tail(p)) /\ n = Len(p) /\ m = n - 1 /\ n \in Nat /\ n # 0
    BY <2>3
  <2>a. m = n - 1 /\ n \in Nat /\ n # 0
    BY <2>5
  <2>6. m = 0 <=> ~ (n > 1)
    BY <2>a
  <2> QED
    BY <1>3, <2>2, <2>4, <2>5, <2>6 DEF More
<1>5. \A x, j : InSegment(x, j)' = InSegment(x, j)
  BY <1>2 DEF InSegment
<1>6. s \in InSegment(core, k) /\ \A x, j : s \in InSegment(x, j) => x = core /\ j = k
  BY DEF InSegment
<1>7. \A x, j : x # core \/ j # k => (Done(x, j)' <=> Done(x, j))
  <2> SUFFICES ASSUME NEW x, NEW j, x # core \/ j # k
               PROVE  Done(x, j)' <=> Done(x, j)
    OBVIOUS
  <2>1. \A t \in InSegment(x, j) : t \in DOMAIN cursors \ {s}
    BY <1>6 DEF InSegment
  <2>2. \A t \in InSegment(x, j) : cursors'[t].pending = cursors[t].pending
    BY <1>2, <2>1
  <2>3. Done(x, j)' <=> \A t \in InSegment(x, j) : cursors'[t].pending = <<>>
    BY <1>5 DEF Done
  <2> QED
    BY <2>2, <2>3 DEF Done
<1>8. /\ ~ Done(core, k)
      /\ Done(core, k)' <=> /\ ~ More(cursors[s])
                            /\ \A t \in InSegment(core, k) \ {s} : cursors[t].pending = <<>>
  <2>1. ~ Done(core, k)
    BY <1>2, <1>6 DEF Done
  <2>2. InSegment(core, k) \subseteq DOMAIN cursors
    BY DEF InSegment
  <2>3. Done(core, k)' <=> \A t \in InSegment(core, k) : cursors'[t].pending = <<>>
    BY <1>5 DEF Done
  <2> QED
    BY <1>2, <1>4, <1>6, <2>1, <2>2, <2>3
<1>9. \A j \in opened : j = k + 1 /\ ~ segs[j].gate_known /\ k < Len(segs) /\ Done(core, k)'
  BY <1>2, <1>8 DEF Opens
<1>10. k \notin opened
  <2>1. k # k + 1
    BY <1>1
  <2> QED
    BY <1>9, <2>1
<1>11. ASSUME NEW x \in Cores, x # core PROVE SegmentsOrdered(x)'
  <2>1. segments'[x] = segments[x]
    BY <1>1, <1>2, <1>11
  <2>2. \A j : \A t \in InSegment(x, j) : cursors'[t].pending = cursors[t].pending
    BY <1>2, <1>6, <1>11 DEF InSegment
  <2>3. SegmentsOrdered(x)
    BY DEF SegInv
  <2> QED
    BY <1>5, <2>1, <2>2, <2>3, OrderedFrame
<1>12. SegmentsOrdered(core)'
  <2>1. PICK segs2 : segs2 = SegmentsAfter(segs, k, gate, opened)
    OBVIOUS
  <2>2. segments'[core] = segs2 /\ Len(segs2) = Len(segs) /\ DOMAIN segs2 = DOMAIN segs
    BY <1>1, <1>2, <1>10, <2>1, SegmentsAfterTyped
  <2>3. \A j \in DOMAIN segs : /\ segs2[j].closed = segs[j].closed
                               /\ segs2[j].gate_known <=> segs[j].gate_known \/ j \in opened
    <3> SUFFICES ASSUME NEW j \in DOMAIN segs
                 PROVE  /\ segs2[j].closed = segs[j].closed
                        /\ segs2[j].gate_known <=> segs[j].gate_known \/ j \in opened
      OBVIOUS
    <3>1. PICK y : y = SegmentsAfter(segs, k, gate, opened)[j]
      OBVIOUS
    <3>2. y.closed = segs[j].closed /\ (y.gate_known <=> segs[j].gate_known \/ j \in opened)
      BY <1>1, <1>10, <3>1, SegmentAfterwards
    <3> QED
      BY <2>1, <3>1, <3>2
  <2>4. SegmentsOrdered(core)
    BY <1>1 DEF SegInv
  <2>5. PICK n \in Nat : n = Len(segs) /\ DOMAIN segs = 1 .. n
    BY <1>1, LenProperties
  <2>6. segs2 # <<>> => segs2[1].gate_known
    BY <1>1, <2>3, <2>4, <2>5 DEF SegmentsOrdered
  <2>7. \A j \in DOMAIN segs : segs2[j].closed <=> j < n
    BY <2>3, <2>4, <2>5 DEF SegmentsOrdered
  <2>8. ASSUME NEW j \in DOMAIN segs, j < n
        PROVE  /\ InSegment(core, j) # {}
               /\ segs2[j].gate_known /\ Done(core, j)' => segs2[j + 1].gate_known
    <3>1. /\ j + 1 \in DOMAIN segs /\ InSegment(core, j) # {}
          /\ segs[j].gate_known /\ Done(core, j) => segs[j + 1].gate_known
      BY <2>4, <2>5, <2>8 DEF SegmentsOrdered
    <3>2. CASE j = k
      <4> SUFFICES ASSUME Done(core, k)', ~ segs[k + 1].gate_known PROVE k + 1 \in opened
        BY <2>3, <3>1, <3>2
      <4>1. segs[k].closed /\ k < Len(segs)
        BY <2>4, <2>5, <2>8, <3>2 DEF SegmentsOrdered
      <4>2. Opens(s)
        BY <1>8, <4>1 DEF Opens
      <4> QED
        BY <1>2, <1>8, <4>2
    <3>3. CASE j # k
      <4>1. Done(core, j)' <=> Done(core, j)
        BY <1>7, <3>3
      <4>2. j \in opened => ~ Done(core, j)
        <5> SUFFICES ASSUME j \in opened PROVE ~ Done(core, j)
          OBVIOUS
        <5>1. PICK t \in InSegment(core, j) : t \in DOMAIN cursors /\ CoreOf(t) = core /\ SegmentOf(t) = j
          BY <3>1 DEF InSegment
        <5>2. ~ Known(t)
          BY <1>9, <5>1 DEF Known
        <5> QED
          BY <5>1, <5>2, UnknownHasWork DEF Done
      <4> QED
        BY <2>3, <3>1, <4>1, <4>2
    <3> QED
      BY <3>1, <3>2, <3>3
  <2>9. ASSUME NEW i \in DOMAIN segs, NEW j \in DOMAIN segs, i < j, segs2[j].gate_known
        PROVE  segs2[i].gate_known /\ Done(core, i)'
    <3>1. CASE segs[j].gate_known
      <4>1. segs[i].gate_known /\ Done(core, i)
        BY <2>4, <2>9, <3>1 DEF SegmentsOrdered
      <4>2. i # k
        BY <1>8, <4>1
      <4> QED
        BY <1>7, <2>3, <4>1, <4>2
    <3>2. CASE j \in opened
      <4>1. j = k + 1 /\ Done(core, k)'
        BY <1>9, <3>2
      <4>2. CASE i = k
        BY <1>2, <2>3, <4>1, <4>2
      <4>3. CASE i < k
        <5>1. segs[i].gate_known /\ Done(core, i)
          BY <1>1, <1>2, <2>4, <4>3 DEF SegmentsOrdered
        <5> QED
          BY <1>1, <1>7, <2>3, <2>5, <4>3, <5>1
      <4> QED
        BY <1>1, <2>5, <2>9, <4>1, <4>2, <4>3
    <3> QED
      BY <2>3, <2>9, <3>1, <3>2
  <2> QED
    BY <1>5, <2>2, <2>5, <2>6, <2>7, <2>8, <2>9 DEF SegmentsOrdered
<1> QED
  BY <1>11, <1>12 DEF SegInv

LEMMA SegInvStep ==
  ASSUME LoopInv, SegInv, [Next]_vars
  PROVE  SegInv'
<1>1. ASSUME segments' = segments, DOMAIN cursors' = DOMAIN cursors,
             \A t \in DOMAIN cursors : cursors'[t].pending = cursors[t].pending
      PROVE  SegInv'
  <2>1. \A x, j : InSegment(x, j)' = InSegment(x, j)
    BY <1>1 DEF InSegment
  <2>2. \A x, j : \A t \in InSegment(x, j) : cursors'[t].pending = cursors[t].pending
    BY <1>1 DEF InSegment
  <2> QED
    BY <1>1, <2>1, <2>2, OrderedFrame DEF SegInv
<1>2. ASSUME NEW s \in DOMAIN cursors, NEW issue \in Nat, StepIssues(s, issue)
      PROVE  SegInv'
  BY <1>1, <1>2 DEF StepIssues
<1>3. ASSUME StepSteady PROVE SegInv'
  BY <1>1, <1>3 DEF StepSteady, Advances
<1> QED
  BY <1>2, <1>3, StepKinds, SegInvPushes, SegInvBars, SegInvFinishes

LEMMA InitOrdered == Init => SegInv
<1> SUFFICES ASSUME Init PROVE SegInv
  OBVIOUS
<1>1. \A core \in Cores : segments[core] = <<>>
  BY DEF Init, FrontInit
<1> QED
  BY <1>1 DEF SegInv, SegmentsOrdered

-----------------------------------------------------------------------------
(***************************************************************************)
(* Transactions are numbered as they are pushed, and each is pending in    *)
(* one stream or finished once.                                            *)
(***************************************************************************)
IdsOf(p) == {p[i].txn_id : i \in DOMAIN p}
Ascending(p) == \A i, j \in DOMAIN p : i < j => p[i].txn_id < p[j].txn_id

StreamOf(r) == <<r.core, r.segment, r.axi>>
OverIn(s) == {k \in DOMAIN finished : StreamOf(finished[k]) = s}

(* The transactions of a stream, those finished included. *)
HeldIds(s) == IdsOf(cursors[s].pending) \cup {finished[k].txn_id : k \in OverIn(s)}

NumPushed == Cardinality(Pushed)

(* What is pending is pushed after what is finished, a segment's transactions
   before those of the segments behind it, and no two share a number. *)
IdInv ==
  /\ \A k \in DOMAIN finished : StreamOf(finished[k]) \in DOMAIN cursors
  /\ \A s \in DOMAIN cursors :
       /\ Ascending(cursors[s].pending)
       /\ HeldIds(s) \subseteq 1 .. NumPushed
       /\ \A k \in OverIn(s) : \A id \in IdsOf(cursors[s].pending) : finished[k].txn_id < id
       /\ \A j, k \in OverIn(s) : j < k => finished[j].txn_id < finished[k].txn_id
  /\ \A s, t \in DOMAIN cursors :
       /\ s # t => HeldIds(s) \cap HeldIds(t) = {}
       /\ CoreOf(s) = CoreOf(t) /\ SegmentOf(s) < SegmentOf(t) =>
            \A a \in HeldIds(s), b \in HeldIds(t) : a < b

LEMMA AppendIds ==
  ASSUME NEW p \in Seq(Entry), NEW e \in Entry, Ascending(p), \A id \in IdsOf(p) : id < e.txn_id
  PROVE  /\ IdsOf(Append(p, e)) = IdsOf(p) \cup {e.txn_id}
         /\ Ascending(Append(p, e))
<1>1. PICK n, q : n = Len(p) /\ q = Append(p, e)
  OBVIOUS
<1>2. /\ n \in Nat /\ DOMAIN p = 1 .. n /\ q \in Seq(Entry) /\ Len(q) = n + 1
      /\ \A i \in 1 .. n : q[i] = p[i]
      /\ q[n + 1] = e
  BY <1>1, AppendProperties, LenProperties
<1>3. DOMAIN q = 1 .. n + 1
  BY <1>2, LenProperties
<1>4. DOMAIN q = DOMAIN p \cup {n + 1} /\ n + 1 \notin DOMAIN p
  BY <1>2, <1>3
<1>5. IdsOf(q) = IdsOf(p) \cup {e.txn_id}
  BY <1>2, <1>4 DEF IdsOf
<1>6. Ascending(q)
  <2> SUFFICES ASSUME NEW i \in DOMAIN q, NEW j \in DOMAIN q, i < j
               PROVE  q[i].txn_id < q[j].txn_id
    BY DEF Ascending
  <2>1. i \in DOMAIN p
    BY <1>2, <1>3
  <2>2. CASE j \in DOMAIN p
    BY <1>2, <2>1, <2>2 DEF Ascending
  <2>3. CASE j = n + 1
    BY <1>2, <2>1, <2>3 DEF IdsOf
  <2> QED
    BY <1>4, <2>2, <2>3
<1> QED
  BY <1>1, <1>5, <1>6

LEMMA TailIds ==
  ASSUME NEW p \in Seq(Entry), p # <<>>, Ascending(p)
  PROVE  /\ Head(p) \in Entry /\ Head(p).txn_id \in IdsOf(p)
         /\ IdsOf(p) = IdsOf(Tail(p)) \cup {Head(p).txn_id}
         /\ \A id \in IdsOf(Tail(p)) : Head(p).txn_id < id
         /\ Ascending(Tail(p))
<1>1. PICK n, q, h : n = Len(p) /\ q = Tail(p) /\ h = Head(p)
  OBVIOUS
<1>2. /\ n \in Nat /\ n # 0 /\ DOMAIN p = 1 .. n /\ q \in Seq(Entry) /\ Len(q) = n - 1
      /\ \A i \in 1 .. n - 1 : q[i] = p[i + 1]
      /\ h = p[1] /\ h \in Entry
  BY <1>1, HeadTailProperties, LenProperties, EmptySeq
<1>3. DOMAIN q = 1 .. n - 1
  BY <1>2, LenProperties
<1>4. \A i \in DOMAIN p : i = 1 \/ \E j \in DOMAIN q : i = j + 1
  <2>1. \A i \in DOMAIN p : i # 1 => i - 1 \in DOMAIN q /\ i = (i - 1) + 1
    BY <1>2, <1>3
  <2> QED
    BY <2>1
<1>5. \A j \in DOMAIN q : j + 1 \in DOMAIN p /\ q[j] = p[j + 1] /\ 1 < j + 1 /\ 1 \in DOMAIN p
  BY <1>2, <1>3
<1>6. 1 \in DOMAIN p
  BY <1>2
<1>7. h.txn_id \in IdsOf(p)
  BY <1>2, <1>6 DEF IdsOf
<1>8. IdsOf(p) = IdsOf(q) \cup {h.txn_id}
  <2>1. IdsOf(p) \subseteq IdsOf(q) \cup {h.txn_id}
    BY <1>2, <1>4, <1>5 DEF IdsOf
  <2>2. IdsOf(q) \subseteq IdsOf(p)
    BY <1>5 DEF IdsOf
  <2> QED
    BY <1>7, <2>1, <2>2
<1>9. \A j \in DOMAIN q : p[1].txn_id < p[j + 1].txn_id
  BY <1>5 DEF Ascending
<1>10. \A id \in IdsOf(q) : h.txn_id < id
  BY <1>2, <1>5, <1>9 DEF IdsOf
<1>11. Ascending(q)
  <2> SUFFICES ASSUME NEW i \in DOMAIN q, NEW j \in DOMAIN q, i < j
               PROVE  q[i].txn_id < q[j].txn_id
    BY DEF Ascending
  <2>1. i + 1 \in DOMAIN p /\ j + 1 \in DOMAIN p /\ i + 1 < j + 1
    BY <1>3, <1>5
  <2> QED
    BY <1>5, <2>1 DEF Ascending
<1> QED
  BY <1>1, <1>2, <1>7, <1>8, <1>10, <1>11

(* One more call: a push has the next number. *)
LEMMA PushedAppend ==
  ASSUME LoopInv, NEW call \in CallRecord, calls' = Append(calls, call)
  PROVE  /\ DOMAIN calls' = DOMAIN calls \cup {Len(calls) + 1} /\ Len(calls) + 1 \notin DOMAIN calls
         /\ \A i \in DOMAIN calls : calls'[i] = calls[i] /\ i < Len(calls) + 1
         /\ calls'[Len(calls) + 1] = call
         /\ Pushed' = IF call.kind = "txn" THEN Pushed \cup {Len(calls) + 1} ELSE Pushed
         /\ NumPushed \in Nat
         /\ NumPushed' = IF call.kind = "txn" THEN NumPushed + 1 ELSE NumPushed
<1>1. PICK n : n = Len(calls)
  OBVIOUS
<1>2. calls \in Seq(CallRecord)
  BY DEF LoopInv, LoopTypeOK
<1>3. /\ n \in Nat /\ DOMAIN calls = 1 .. n /\ calls' \in Seq(CallRecord) /\ Len(calls') = n + 1
      /\ \A i \in 1 .. n : calls'[i] = calls[i]
      /\ calls'[n + 1] = call
  BY <1>1, <1>2, AppendProperties, LenProperties
<1>4. DOMAIN calls' = 1 .. n + 1
  BY <1>3, LenProperties
<1>5. /\ DOMAIN calls' = DOMAIN calls \cup {n + 1} /\ n + 1 \notin DOMAIN calls
      /\ \A i \in DOMAIN calls : calls'[i] = calls[i] /\ i < n + 1
  BY <1>3, <1>4
<1>6. Pushed' = IF call.kind = "txn" THEN Pushed \cup {n + 1} ELSE Pushed
  BY <1>3, <1>5 DEF Pushed
<1>7. IsFiniteSet(Pushed)
  <2>1. IsFiniteSet(DOMAIN calls) /\ Pushed \subseteq DOMAIN calls
    BY <1>3, FS_Interval DEF Pushed
  <2> QED
    BY <2>1, FS_Subset
<1>8. NumPushed \in Nat /\ NumPushed' = IF call.kind = "txn" THEN NumPushed + 1 ELSE NumPushed
  <2>1. n + 1 \notin Pushed
    BY <1>5 DEF Pushed
  <2>2. Cardinality(Pushed) \in Nat /\ Cardinality(Pushed \cup {n + 1}) = Cardinality(Pushed) + 1
    BY <1>7, <2>1, FS_AddElement, FS_CardinalityType
  <2>3. NumPushed' = Cardinality(Pushed')
    BY DEF NumPushed
  <2> QED
    BY <1>6, <2>2, <2>3 DEF NumPushed
<1> QED
  BY <1>1, <1>3, <1>5, <1>6, <1>8

(* A push gives its stream the next number. *)
LEMMA HeldPushes ==
  ASSUME LoopInv, IdInv, NEW s \in Streams, NEW entry \in Entry, StepPushes(s, entry)
  PROVE  /\ NumPushed \in Nat /\ NumPushed' = NumPushed + 1 /\ entry.txn_id = NumPushed + 1
         /\ \A t : OverIn(t)' = OverIn(t)
         /\ finished' = finished
         /\ DOMAIN cursors' = DOMAIN cursors \cup {s}
         /\ \A t \in DOMAIN cursors \ {s} : HeldIds(t)' = HeldIds(t) /\ cursors'[t] = cursors[t]
         /\ IdsOf(cursors'[s].pending)
              = IF s \in DOMAIN cursors THEN IdsOf(cursors[s].pending) \cup {NumPushed + 1} ELSE {NumPushed + 1}
         /\ HeldIds(s)'
              = IF s \in DOMAIN cursors THEN HeldIds(s) \cup {NumPushed + 1} ELSE {NumPushed + 1}
         /\ s \notin DOMAIN cursors => OverIn(s) = {}
         /\ Ascending(cursors'[s].pending)
<1> DEFINE call == [kind |-> "txn", core |-> CoreOf(s), axi |-> AxiOf(s),
                    txn_id |-> entry.txn_id, txn |-> entry.txn]
<1>1. call \in CallRecord /\ call.kind = "txn"
  BY DEF CallRecord, Entry, Streams, CoreOf, AxiOf
<1>2. calls' = Append(calls, call) /\ entry.txn_id = NumPushed + 1
  BY DEF StepPushes, NumPushed
<1> HIDE DEF call
<1>3. NumPushed \in Nat /\ NumPushed' = NumPushed + 1
  BY <1>1, <1>2, PushedAppend
<1>4. /\ finished' = finished
      /\ DOMAIN cursors' = DOMAIN cursors \cup {s}
      /\ \A t \in DOMAIN cursors \ {s} : cursors'[t] = cursors[t]
      /\ cursors'[s].pending = Append(CursorBefore(s).pending, entry)
  BY DEF StepPushes
<1>5. \A t : OverIn(t)' = OverIn(t)
  BY <1>4 DEF OverIn
<1>6. \A t \in DOMAIN cursors \ {s} : HeldIds(t)' = HeldIds(t)
  BY <1>4, <1>5 DEF HeldIds
<1>7. s \notin DOMAIN cursors => OverIn(s) = {}
  BY DEF IdInv, OverIn
<1>8. PICK p : p = CursorBefore(s).pending
  OBVIOUS
<1>9. /\ p \in Seq(Entry) /\ Ascending(p) /\ \A id \in IdsOf(p) : id < entry.txn_id
      /\ s \in DOMAIN cursors => p = cursors[s].pending
      /\ s \notin DOMAIN cursors => IdsOf(p) = {}
  <2>1. CASE s \in DOMAIN cursors
    <3>1. p = cursors[s].pending
      BY <1>8, <2>1 DEF CursorBefore
    <3>2. p \in Seq(Entry)
      BY <2>1, <3>1, StreamFacts DEF Cursor, Entry
    <3>3. Ascending(p) /\ IdsOf(p) \subseteq 1 .. NumPushed
      BY <2>1, <3>1 DEF IdInv, HeldIds
    <3> QED
      BY <1>2, <1>3, <2>1, <3>1, <3>2, <3>3
  <2>2. CASE s \notin DOMAIN cursors
    <3>1. p = <<>>
      BY <1>8, <2>2 DEF CursorBefore, NewCursor
    <3> QED
      BY <2>2, <3>1 DEF Ascending, IdsOf
  <2> QED
    BY <2>1, <2>2
<1>10. IdsOf(Append(p, entry)) = IdsOf(p) \cup {entry.txn_id} /\ Ascending(Append(p, entry))
  BY <1>9, AppendIds
<1>11. HeldIds(s)' = IdsOf(cursors'[s].pending) \cup {finished[k].txn_id : k \in OverIn(s)}
  BY <1>4, <1>5 DEF HeldIds
<1>12. /\ IdsOf(cursors'[s].pending)
              = IF s \in DOMAIN cursors THEN IdsOf(cursors[s].pending) \cup {NumPushed + 1} ELSE {NumPushed + 1}
       /\ Ascending(cursors'[s].pending)
  BY <1>2, <1>4, <1>8, <1>9, <1>10
<1>13. HeldIds(s)'
              = IF s \in DOMAIN cursors THEN HeldIds(s) \cup {NumPushed + 1} ELSE {NumPushed + 1}
  BY <1>7, <1>11, <1>12 DEF HeldIds
<1> QED
  BY <1>2, <1>3, <1>4, <1>5, <1>6, <1>7, <1>12, <1>13

LEMMA IdInvPushes ==
  ASSUME LoopInv, IdInv, NEW s \in Streams, NEW entry \in Entry, StepPushes(s, entry)
  PROVE  IdInv'
<1>1. PICK n \in Nat : n = NumPushed /\ NumPushed' = n + 1
  BY HeldPushes
<1>2. /\ \A t : OverIn(t)' = OverIn(t)
      /\ finished' = finished
      /\ DOMAIN cursors' = DOMAIN cursors \cup {s}
      /\ \A t \in DOMAIN cursors \ {s} : HeldIds(t)' = HeldIds(t) /\ cursors'[t] = cursors[t]
      /\ IdsOf(cursors'[s].pending)
           = IF s \in DOMAIN cursors THEN IdsOf(cursors[s].pending) \cup {n + 1} ELSE {n + 1}
      /\ HeldIds(s)' = IF s \in DOMAIN cursors THEN HeldIds(s) \cup {n + 1} ELSE {n + 1}
      /\ s \notin DOMAIN cursors => OverIn(s) = {}
      /\ Ascending(cursors'[s].pending)
  BY <1>1, HeldPushes
<1>3. \A t \in DOMAIN cursors : HeldIds(t) \subseteq 1 .. n
  BY <1>1 DEF IdInv
<1>4. \A k \in DOMAIN finished' : StreamOf(finished'[k]) \in DOMAIN cursors'
  BY <1>2 DEF IdInv
<1>5. ASSUME NEW t \in DOMAIN cursors'
      PROVE  /\ Ascending(cursors'[t].pending)
             /\ HeldIds(t)' \subseteq 1 .. n + 1
             /\ \A k \in OverIn(t) : \A id \in IdsOf(cursors'[t].pending) : finished[k].txn_id < id
             /\ \A j, k \in OverIn(t) : j < k => finished[j].txn_id < finished[k].txn_id
  <2>1. CASE t # s
    <3>1. /\ Ascending(cursors[t].pending) /\ HeldIds(t) \subseteq 1 .. n
          /\ \A k \in OverIn(t) : \A id \in IdsOf(cursors[t].pending) : finished[k].txn_id < id
          /\ \A j, k \in OverIn(t) : j < k => finished[j].txn_id < finished[k].txn_id
      BY <1>2, <1>3, <2>1 DEF IdInv
    <3> QED
      BY <1>2, <2>1, <3>1
  <2>2. CASE t = s
    <3>1. HeldIds(s)' \subseteq 1 .. n + 1
      BY <1>2, <1>3
    <3>2. ASSUME NEW k \in OverIn(s), NEW id \in IdsOf(cursors'[s].pending)
          PROVE  finished[k].txn_id < id
      <4>1. s \in DOMAIN cursors
        BY <1>2, <3>2
      <4>2. finished[k].txn_id \in 1 .. n
        BY <1>3, <4>1 DEF HeldIds
      <4>3. CASE id = n + 1
        BY <4>2, <4>3
      <4>4. CASE id \in IdsOf(cursors[s].pending)
        BY <4>1, <4>4 DEF IdInv
      <4> QED
        BY <1>2, <4>1, <4>3, <4>4
    <3>3. \A j, k \in OverIn(s) : j < k => finished[j].txn_id < finished[k].txn_id
      BY <1>2 DEF IdInv
    <3> QED
      BY <1>2, <2>2, <3>1, <3>2, <3>3
  <2> QED
    BY <2>1, <2>2
<1>6. ASSUME NEW t \in DOMAIN cursors', NEW u \in DOMAIN cursors'
      PROVE  /\ t # u => HeldIds(t)' \cap HeldIds(u)' = {}
             /\ CoreOf(t) = CoreOf(u) /\ SegmentOf(t) < SegmentOf(u) =>
                  \A a \in HeldIds(t)', b \in HeldIds(u)' : a < b
  <2>1. \A x \in DOMAIN cursors : n + 1 \notin HeldIds(x) /\ \A a \in HeldIds(x) : a < n + 1
    BY <1>3
  <2>2. \A x \in DOMAIN cursors : CoreOf(x) = CoreOf(s) => SegmentOf(x) <= SegmentOf(s)
    <3> SUFFICES ASSUME NEW x \in DOMAIN cursors, CoreOf(x) = CoreOf(s)
                 PROVE  SegmentOf(x) <= SegmentOf(s)
      OBVIOUS
    <3>1. CoreOf(s) \in Cores /\ segments \in [Cores -> Seq(Segment)]
      BY DEF Streams, CoreOf, LoopInv, LoopTypeOK
    <3>2. /\ SegmentOf(s) = Len(OpenSegments(CoreOf(s)))
          /\ Len(segments[CoreOf(s)]) <= Len(OpenSegments(CoreOf(s)))
          /\ Len(OpenSegments(CoreOf(s))) \in Nat
      BY <3>1, OpenSegmentsTyped DEF StepPushes
    <3>3. SegmentOf(x) \in 1 .. Len(segments[CoreOf(s)]) /\ Len(segments[CoreOf(s)]) \in Nat
      BY <3>1, LenProperties DEF LoopInv, Placed
    <3> QED
      BY <3>2, <3>3
  <2>3. CASE t # s /\ u # s
    BY <1>2, <2>3 DEF IdInv
  <2>4. CASE t = s /\ u # s
    <3>1. u \in DOMAIN cursors /\ HeldIds(u)' = HeldIds(u)
      BY <1>2, <2>4
    <3>2. ~ (CoreOf(t) = CoreOf(u) /\ SegmentOf(t) < SegmentOf(u))
      <4>1. SegmentOf(s) \in Nat /\ SegmentOf(u) \in Nat
        BY <3>1, StreamFacts DEF Streams, SegmentOf
      <4> QED
        BY <2>2, <2>4, <3>1, <4>1
    <3>3. s \in DOMAIN cursors => HeldIds(s) \cap HeldIds(u) = {}
      BY <2>4, <3>1 DEF IdInv
    <3> QED
      BY <1>2, <2>1, <2>4, <3>1, <3>2, <3>3
  <2>5. CASE t # s /\ u = s
    <3>1. t \in DOMAIN cursors /\ HeldIds(t)' = HeldIds(t)
      BY <1>2, <2>5
    <3>2. s \in DOMAIN cursors => /\ HeldIds(t) \cap HeldIds(s) = {}
                                  /\ CoreOf(t) = CoreOf(s) /\ SegmentOf(t) < SegmentOf(s) =>
                                       \A a \in HeldIds(t), b \in HeldIds(s) : a < b
      BY <2>5, <3>1 DEF IdInv
    <3> QED
      BY <1>2, <2>1, <2>5, <3>1, <3>2
  <2>6. CASE t = s /\ u = s
    <3>1. SegmentOf(s) \in Nat
      BY DEF Streams, SegmentOf
    <3>2. ~ (SegmentOf(t) < SegmentOf(u))
      BY <2>6, <3>1
    <3> QED
      BY <2>6, <3>2
  <2> QED
    BY <2>3, <2>4, <2>5, <2>6
<1> QED
  BY <1>1, <1>2, <1>4, <1>5, <1>6 DEF IdInv

(* r is the result number n + 1: that of the transaction in ip, which ends. *)
Reports(s, ip, complete, n, r) ==
  /\ DOMAIN finished = 1 .. n /\ DOMAIN finished' = DOMAIN finished \cup {n + 1}
  /\ n + 1 \notin DOMAIN finished
  /\ \A k \in DOMAIN finished : k < n + 1 /\ finished'[k] = finished[k] /\ finished[k] \in Result
  /\ finished'[n + 1] = r
  /\ StreamOf(r) = s /\ r.core = CoreOf(s) /\ r.segment = SegmentOf(s) /\ r.axi = AxiOf(s)
  /\ r.txn_id = ip.txn_id /\ r.issue = ip.issue_cycle /\ r.complete = complete
  /\ r.wait = ip.outstanding_wait_cycles
  /\ OverIn(s)' = OverIn(s) \cup {n + 1}
  /\ \A t : t # s => OverIn(t)' = OverIn(t)

LEMMA FinishedAppend ==
  ASSUME LoopInv, NEW s \in DOMAIN cursors, NEW complete \in Nat, NEW gate \in Nat,
         NEW ip, NEW opened, StepFinishes(s, ip, complete, gate, opened)
  PROVE  \E n \in Nat, r \in Result : Reports(s, ip, complete, n, r)
<1>1. PICK n, r : n = Len(finished) /\ r = ResultOf(s, ip, complete)
  OBVIOUS
<1>2. finished \in Seq(Result) /\ finished' = Append(finished, r)
  BY <1>1 DEF LoopInv, LoopTypeOK, StepFinishes
<1>3. r \in Result
  <2>1. ip \in InProgress /\ cursors[s].pending # <<>>
    BY DEF StepFinishes
  <2> QED
    BY <1>1, <2>1, ResultTyped
<1>4. /\ n \in Nat /\ DOMAIN finished = 1 .. n
      /\ finished' \in Seq(Result) /\ Len(finished') = n + 1
      /\ \A k \in 1 .. n : finished'[k] = finished[k] /\ finished[k] \in Result
      /\ finished'[n + 1] = r
  BY <1>1, <1>2, <1>3, AppendProperties, LenProperties, ElementOfSeq
<1>5. DOMAIN finished' = 1 .. n + 1
  BY <1>4, LenProperties
<1>6. DOMAIN finished' = DOMAIN finished \cup {n + 1} /\ n + 1 \notin DOMAIN finished
  BY <1>4, <1>5
<1>7. /\ r.core = CoreOf(s) /\ r.segment = SegmentOf(s) /\ r.axi = AxiOf(s)
      /\ r.txn_id = ip.txn_id /\ r.issue = ip.issue_cycle /\ r.complete = complete
      /\ r.wait = ip.outstanding_wait_cycles
  BY <1>1 DEF ResultOf
<1>8. StreamOf(r) = s
  BY <1>7, StreamFacts DEF StreamOf
<1>9. \A t : OverIn(t)' = {k \in DOMAIN finished' : StreamOf(finished'[k]) = t}
  BY DEF OverIn, StreamOf
<1>10. OverIn(s)' = OverIn(s) \cup {n + 1} /\ \A t : t # s => OverIn(t)' = OverIn(t)
  BY <1>4, <1>6, <1>8, <1>9 DEF OverIn
<1> QED
  BY <1>3, <1>4, <1>6, <1>7, <1>8, <1>10 DEF Reports

(* The segments of its core once a transaction is over. *)
LEMMA FinishedSegments ==
  ASSUME LoopInv, NEW s \in DOMAIN cursors, NEW complete \in Nat, NEW gate \in Nat,
         NEW ip, NEW opened, StepFinishes(s, ip, complete, gate, opened)
  PROVE  /\ DOMAIN segments[CoreOf(s)] = 1 .. Len(segments[CoreOf(s)])
         /\ \A j \in opened : j = SegmentOf(s) + 1 /\ ~ segments[CoreOf(s)][j].gate_known
         /\ \A x \in Cores : /\ Len(segments'[x]) = Len(segments[x])
                             /\ DOMAIN segments'[x] = DOMAIN segments[x]
                             /\ x # CoreOf(s) => segments'[x] = segments[x]
         /\ \A j \in DOMAIN segments[CoreOf(s)] :
              /\ segments'[CoreOf(s)][j].gate_known <=> segments[CoreOf(s)][j].gate_known \/ j \in opened
              /\ segments'[CoreOf(s)][j].max_complete
                   = IF j = SegmentOf(s) THEN gate ELSE segments[CoreOf(s)][j].max_complete
              /\ segments'[CoreOf(s)][j].gate_cycle
                   = IF j \in opened THEN gate ELSE segments[CoreOf(s)][j].gate_cycle
<1> DEFINE core == CoreOf(s)
           segs == segments[core]
           k == SegmentOf(s)
<1>1. /\ core \in Cores /\ segs \in Seq(Segment) /\ k \in DOMAIN segs /\ k \in Nat \ {0}
      /\ segments \in [Cores -> Seq(Segment)]
  BY StreamFacts DEF LoopInv, LoopTypeOK
<1>2. /\ segments' = [segments EXCEPT ![core] = SegmentsAfter(segs, k, gate, opened)]
      /\ opened = IF ~ More(cursors[s]) /\ Opens(s) THEN {k + 1} ELSE {}
  BY DEF StepFinishes
<1>3. \A j \in opened : j = k + 1 /\ ~ segs[j].gate_known
  BY <1>2 DEF Opens
<1>4. k \notin opened
  <2>1. k # k + 1
    BY <1>1
  <2> QED
    BY <1>3, <2>1
<1>5. PICK segs2 : segs2 = SegmentsAfter(segs, k, gate, opened)
  OBVIOUS
<1>6. Len(segs2) = Len(segs) /\ DOMAIN segs2 = DOMAIN segs
  BY <1>1, <1>4, <1>5, SegmentsAfterTyped
<1>7. segments'[core] = segs2 /\ \A x \in Cores : x # core => segments'[x] = segments[x]
  BY <1>1, <1>2, <1>5
<1>8. ASSUME NEW j \in DOMAIN segs
      PROVE  /\ segs2[j].gate_known <=> segs[j].gate_known \/ j \in opened
             /\ segs2[j].max_complete = IF j = k THEN gate ELSE segs[j].max_complete
             /\ segs2[j].gate_cycle = IF j \in opened THEN gate ELSE segs[j].gate_cycle
  <2>1. PICK y : y = SegmentsAfter(segs, k, gate, opened)[j]
    OBVIOUS
  <2>2. /\ y.gate_known <=> segs[j].gate_known \/ j \in opened
        /\ y.max_complete = IF j = k THEN gate ELSE segs[j].max_complete
        /\ y.gate_cycle = IF j \in opened THEN gate ELSE segs[j].gate_cycle
    BY <1>1, <1>4, <2>1, SegmentAfterwards
  <2> QED
    BY <1>5, <2>1, <2>2
<1>9. \A x \in Cores : Len(segments'[x]) = Len(segments[x]) /\ DOMAIN segments'[x] = DOMAIN segments[x]
  BY <1>6, <1>7
<1>10. DOMAIN segs = 1 .. Len(segs)
  BY <1>1, LenProperties
<1> QED
  BY <1>3, <1>7, <1>8, <1>9, <1>10

(* What its stream holds is then held by its results instead. *)
LEMMA HeldFinishes ==
  ASSUME LoopInv, IdInv, NEW s \in DOMAIN cursors, NEW complete \in Nat, NEW gate \in Nat,
         NEW ip, NEW opened, StepFinishes(s, ip, complete, gate, opened)
  PROVE  /\ IdsOf(cursors[s].pending) = IdsOf(cursors'[s].pending) \cup {ip.txn_id}
         /\ \A id \in IdsOf(cursors'[s].pending) : ip.txn_id < id
         /\ Ascending(cursors'[s].pending)
         /\ \A t \in DOMAIN cursors \ {s} : cursors'[t].pending = cursors[t].pending
         /\ DOMAIN cursors' = DOMAIN cursors
         /\ \A t \in DOMAIN cursors : HeldIds(t)' = HeldIds(t)
<1>1. /\ ip \in InProgress /\ cursors[s].pending # <<>> /\ ip.txn_id = Head(cursors[s].pending).txn_id
      /\ DOMAIN cursors' = DOMAIN cursors /\ cursors'[s] = Finished(cursors[s], ip, complete)
      /\ \A t \in DOMAIN cursors \ {s} : cursors'[t].pending = cursors[t].pending
  BY DEF StepFinishes
<1>2. cursors[s] \in Cursor
  BY StreamFacts
<1>3. cursors'[s].pending = Tail(cursors[s].pending)
  BY <1>1, <1>2, FinishedTyped
<1>4. cursors[s].pending \in Seq(Entry) /\ Ascending(cursors[s].pending)
  BY <1>2 DEF Cursor, Entry, IdInv
<1>5. /\ IdsOf(cursors[s].pending) = IdsOf(cursors'[s].pending) \cup {ip.txn_id}
      /\ \A id \in IdsOf(cursors'[s].pending) : ip.txn_id < id
      /\ Ascending(cursors'[s].pending)
  BY <1>1, <1>3, <1>4, TailIds
<1>a. PICK n \in Nat, r \in Result : Reports(s, ip, complete, n, r)
  BY FinishedAppend
<1>6. /\ n + 1 \notin DOMAIN finished
      /\ \A k \in DOMAIN finished : finished'[k] = finished[k]
      /\ finished'[n + 1] = r /\ r.txn_id = ip.txn_id
      /\ OverIn(s)' = OverIn(s) \cup {n + 1}
      /\ \A t : t # s => OverIn(t)' = OverIn(t)
  BY <1>a DEF Reports
<1>7. \A t : OverIn(t) \subseteq DOMAIN finished
  BY DEF OverIn
<1>8. \A t : HeldIds(t)' = IdsOf(cursors'[t].pending) \cup {finished'[k].txn_id : k \in OverIn(t)'}
  BY DEF HeldIds, IdsOf
<1>9. {finished'[k].txn_id : k \in OverIn(s)'} = {finished[k].txn_id : k \in OverIn(s)} \cup {ip.txn_id}
  BY <1>6, <1>7
<1>10. HeldIds(s)' = HeldIds(s)
  BY <1>5, <1>8, <1>9 DEF HeldIds
<1>11. \A t \in DOMAIN cursors \ {s} : HeldIds(t)' = HeldIds(t)
  BY <1>1, <1>6, <1>7, <1>8 DEF HeldIds
<1> QED
  BY <1>1, <1>5, <1>10, <1>11

LEMMA IdInvFinishes ==
  ASSUME LoopInv, IdInv, NEW s \in DOMAIN cursors, NEW complete \in Nat, NEW gate \in Nat,
         NEW ip, NEW opened, StepFinishes(s, ip, complete, gate, opened)
  PROVE  IdInv'
<1>1. /\ IdsOf(cursors[s].pending) = IdsOf(cursors'[s].pending) \cup {ip.txn_id}
      /\ \A id \in IdsOf(cursors'[s].pending) : ip.txn_id < id
      /\ Ascending(cursors'[s].pending)
      /\ \A t \in DOMAIN cursors \ {s} : cursors'[t].pending = cursors[t].pending
      /\ DOMAIN cursors' = DOMAIN cursors
      /\ \A t \in DOMAIN cursors : HeldIds(t)' = HeldIds(t)
  BY HeldFinishes
<1>2. PICK n \in Nat, r \in Result : Reports(s, ip, complete, n, r)
  BY FinishedAppend
<1>3. /\ DOMAIN finished' = DOMAIN finished \cup {n + 1} /\ n + 1 \notin DOMAIN finished
      /\ \A k \in DOMAIN finished : k < n + 1 /\ finished'[k] = finished[k] /\ k \in Nat
      /\ finished'[n + 1] = r /\ StreamOf(r) = s /\ r.txn_id = ip.txn_id
      /\ OverIn(s)' = OverIn(s) \cup {n + 1}
      /\ \A t : t # s => OverIn(t)' = OverIn(t)
  BY <1>2 DEF Reports
<1>4. \A t : OverIn(t) \subseteq DOMAIN finished
  BY DEF OverIn
<1>5. NumPushed' = NumPushed
  BY DEF StepFinishes, NumPushed, Pushed
<1>6. \A k \in DOMAIN finished' : StreamOf(finished'[k]) \in DOMAIN cursors'
  BY <1>1, <1>3 DEF IdInv
<1>7. ASSUME NEW t \in DOMAIN cursors
      PROVE  /\ Ascending(cursors'[t].pending)
             /\ HeldIds(t)' \subseteq 1 .. NumPushed
             /\ \A k \in OverIn(t)' : \A id \in IdsOf(cursors'[t].pending) : finished'[k].txn_id < id
             /\ \A j, k \in OverIn(t)' : j < k => finished'[j].txn_id < finished'[k].txn_id
  <2>1. /\ Ascending(cursors[t].pending) /\ HeldIds(t) \subseteq 1 .. NumPushed
        /\ \A k \in OverIn(t) : \A id \in IdsOf(cursors[t].pending) : finished[k].txn_id < id
        /\ \A j, k \in OverIn(t) : j < k => finished[j].txn_id < finished[k].txn_id
    BY DEF IdInv
  <2>2. CASE t # s
    BY <1>1, <1>3, <1>4, <2>1, <2>2
  <2>3. CASE t = s
    <3>1. \A k \in OverIn(s)' : \A id \in IdsOf(cursors'[s].pending) : finished'[k].txn_id < id
      BY <1>1, <1>3, <1>4, <2>1, <2>3
    <3>2. ASSUME NEW j \in OverIn(s)', NEW k \in OverIn(s)', j < k
          PROVE  finished'[j].txn_id < finished'[k].txn_id
      <4>1. j \in OverIn(s) /\ j \in DOMAIN finished
        BY <1>3, <1>4, <3>2
      <4>2. CASE k \in OverIn(s)
        BY <1>3, <1>4, <2>1, <2>3, <3>2, <4>1, <4>2
      <4>3. CASE k = n + 1
        BY <1>1, <1>3, <2>1, <2>3, <4>1, <4>3
      <4> QED
        BY <1>3, <4>2, <4>3
    <3> QED
      BY <1>1, <2>1, <2>3, <3>1, <3>2
  <2> QED
    BY <2>2, <2>3
<1>8. \A t, u \in DOMAIN cursors :
        /\ t # u => HeldIds(t)' \cap HeldIds(u)' = {}
        /\ CoreOf(t) = CoreOf(u) /\ SegmentOf(t) < SegmentOf(u) =>
             \A a \in HeldIds(t)', b \in HeldIds(u)' : a < b
  BY <1>1 DEF IdInv
<1> QED
  BY <1>1, <1>5, <1>6, <1>7, <1>8 DEF IdInv

(* A step that pushes and finishes nothing. *)
LEMMA IdFrame ==
  ASSUME IdInv, DOMAIN cursors' = DOMAIN cursors,
         \A s \in DOMAIN cursors : cursors'[s].pending = cursors[s].pending,
         finished' = finished, NumPushed' = NumPushed
  PROVE  IdInv'
<1>1. \A s : OverIn(s)' = OverIn(s)
  BY DEF OverIn
<1>2. \A s \in DOMAIN cursors : HeldIds(s)' = HeldIds(s)
  BY <1>1 DEF HeldIds
<1>3. \A s \in DOMAIN cursors :
       /\ Ascending(cursors'[s].pending)
       /\ HeldIds(s)' \subseteq 1 .. NumPushed
       /\ \A k \in OverIn(s)' : \A id \in IdsOf(cursors'[s].pending) : finished[k].txn_id < id
       /\ \A j, k \in OverIn(s)' : j < k => finished[j].txn_id < finished[k].txn_id
  BY <1>1, <1>2 DEF IdInv
<1>4. \A s, t \in DOMAIN cursors :
       /\ s # t => HeldIds(s)' \cap HeldIds(t)' = {}
       /\ CoreOf(s) = CoreOf(t) /\ SegmentOf(s) < SegmentOf(t) =>
            \A a \in HeldIds(s)', b \in HeldIds(t)' : a < b
  BY <1>2 DEF IdInv
<1> QED
  BY <1>3, <1>4 DEF IdInv

(* Neither a barrier nor a pruning is a push. *)
LEMMA NumPushedSame ==
  ASSUME LoopInv,
         \/ calls' = calls
         \/ \E id \in Nat : calls' = Append(calls, [kind |-> "prune", txn_id |-> id])
         \/ \E core \in Cores : calls' = Append(calls, [kind |-> "barrier", core |-> core])
  PROVE  NumPushed' = NumPushed
<1>1. ASSUME NEW call \in CallRecord, calls' = Append(calls, call), call.kind # "txn"
      PROVE  NumPushed' = NumPushed
  BY <1>1, PushedAppend
<1>2. \A id \in Nat : /\ [kind |-> "prune", txn_id |-> id] \in CallRecord
                      /\ [kind |-> "prune", txn_id |-> id].kind # "txn"
  BY DEF CallRecord
<1>3. \A core \in Cores : /\ [kind |-> "barrier", core |-> core] \in CallRecord
                          /\ [kind |-> "barrier", core |-> core].kind # "txn"
  BY DEF CallRecord
<1>4. calls' = calls => NumPushed' = NumPushed
  BY DEF NumPushed, Pushed
<1> QED
  BY <1>1, <1>2, <1>3, <1>4

LEMMA IdInvStep ==
  ASSUME LoopInv, IdInv, [Next]_vars
  PROVE  IdInv'
<1>1. ASSUME NEW core \in Cores, StepBars(core) PROVE IdInv'
  <2>1. cursors' = cursors /\ finished' = finished /\ calls' = Append(calls, [kind |-> "barrier", core |-> core])
    BY <1>1 DEF StepBars, PushBarrier
  <2>2. NumPushed' = NumPushed
    BY <2>1, NumPushedSame
  <2> QED
    BY <2>1, <2>2, IdFrame
<1>2. ASSUME NEW s \in DOMAIN cursors, NEW issue \in Nat, StepIssues(s, issue) PROVE IdInv'
  <2>1. /\ DOMAIN cursors' = DOMAIN cursors /\ finished' = finished /\ calls' = calls
        /\ \A t \in DOMAIN cursors : cursors'[t].pending = cursors[t].pending
    BY <1>2 DEF StepIssues
  <2>2. NumPushed' = NumPushed
    BY <2>1, NumPushedSame
  <2> QED
    BY <2>1, <2>2, IdFrame
<1>3. ASSUME StepSteady PROVE IdInv'
  <2>1. /\ DOMAIN cursors' = DOMAIN cursors /\ finished' = finished
        /\ \A t \in DOMAIN cursors : cursors'[t].pending = cursors[t].pending
        /\ calls' = calls \/ \E id \in Nat : calls' = Append(calls, [kind |-> "prune", txn_id |-> id])
    BY <1>3 DEF StepSteady, Advances
  <2>2. NumPushed' = NumPushed
    BY <2>1, NumPushedSame
  <2> QED
    BY <2>1, <2>2, IdFrame
<1> QED
  BY <1>1, <1>2, <1>3, StepKinds, IdInvPushes, IdInvFinishes

LEMMA InitIds == Init => IdInv
<1> SUFFICES ASSUME Init PROVE IdInv
  OBVIOUS
<1>1. DOMAIN finished = {} /\ DOMAIN cursors = {}
  BY DEF Init, FrontInit
<1> QED
  BY <1>1 DEF IdInv

-----------------------------------------------------------------------------
(***************************************************************************)
(* What is pushed is held by a stream of its core, and barriers between    *)
(* two pushes put their transactions into different segments.              *)
(***************************************************************************)
(* Stream s holds the transaction of call i; call b is a barrier of the core. *)
Holds(s, i) == CoreOf(s) = calls[i].core /\ calls[i].txn_id \in HeldIds(s)
Bars(b, core) == calls[b].kind = "barrier" /\ calls[b].core = core

PlaceInv ==
  /\ \A i \in Pushed : \E s \in DOMAIN cursors : Holds(s, i)
  /\ \A s \in DOMAIN cursors : \A i \in Pushed, b \in DOMAIN calls :
       Holds(s, i) /\ i < b /\ Bars(b, CoreOf(s)) => SegmentOf(s) < Len(segments[CoreOf(s)])
  /\ \A s, t \in DOMAIN cursors : \A i, j \in Pushed, b \in DOMAIN calls :
       /\ Holds(s, i) /\ Holds(t, j) /\ CoreOf(s) = CoreOf(t)
       /\ i < b /\ b < j /\ Bars(b, CoreOf(s))
       => SegmentOf(s) < SegmentOf(t)

LEMMA PlaceInvPushes ==
  ASSUME LoopInv, IdInv, PlaceInv, NEW s \in Streams, NEW entry \in Entry, StepPushes(s, entry)
  PROVE  PlaceInv'
<1> DEFINE call == [kind |-> "txn", core |-> CoreOf(s), axi |-> AxiOf(s),
                    txn_id |-> entry.txn_id, txn |-> entry.txn]
<1>1. /\ call \in CallRecord /\ call.kind = "txn" /\ call.core = CoreOf(s) /\ call.txn_id = entry.txn_id
      /\ calls' = Append(calls, call)
  BY DEF CallRecord, Entry, Streams, CoreOf, AxiOf, StepPushes
<1> HIDE DEF call
<1>2. PICK n \in Nat : n = NumPushed /\ entry.txn_id = n + 1
  BY HeldPushes
<1>3. /\ DOMAIN cursors' = DOMAIN cursors \cup {s}
      /\ \A t \in DOMAIN cursors \ {s} : HeldIds(t)' = HeldIds(t)
      /\ HeldIds(s)' = IF s \in DOMAIN cursors THEN HeldIds(s) \cup {n + 1} ELSE {n + 1}
  BY <1>2, HeldPushes
<1>4. PICK m : m = Len(calls) + 1
  OBVIOUS
<1>5. /\ DOMAIN calls' = DOMAIN calls \cup {m} /\ m \notin DOMAIN calls
      /\ \A i \in DOMAIN calls : calls'[i] = calls[i] /\ i < m
      /\ calls'[m] = call
      /\ Pushed' = Pushed \cup {m}
  BY <1>1, <1>4, PushedAppend
<1>6. DOMAIN calls \subseteq Nat /\ m \in Nat /\ Pushed \subseteq DOMAIN calls
  BY <1>4, LenProperties DEF LoopInv, LoopTypeOK, Pushed
<1>7. \A t \in DOMAIN cursors : HeldIds(t) \subseteq 1 .. n
  BY <1>2 DEF IdInv
<1>8. \A i \in Pushed : calls[i].txn_id \in 1 .. n
  BY <1>7 DEF PlaceInv, Holds
<1>9. \A t \in DOMAIN cursors', i \in Pushed : Holds(t, i)' <=> t \in DOMAIN cursors /\ Holds(t, i)
  <2> SUFFICES ASSUME NEW t \in DOMAIN cursors', NEW i \in Pushed
               PROVE  Holds(t, i)' <=> t \in DOMAIN cursors /\ Holds(t, i)
    OBVIOUS
  <2>1. calls'[i] = calls[i]
    BY <1>5, <1>6
  <2>2. CASE t # s
    BY <1>3, <2>1, <2>2 DEF Holds
  <2>3. CASE t = s
    <3>1. calls[i].txn_id # n + 1
      BY <1>8
    <3> QED
      BY <1>3, <2>1, <2>3, <3>1 DEF Holds
  <2> QED
    BY <2>2, <2>3
<1>10. \A t \in DOMAIN cursors' : Holds(t, m)' <=> t = s
  <2> SUFFICES ASSUME NEW t \in DOMAIN cursors' PROVE Holds(t, m)' <=> t = s
    OBVIOUS
  <2>1. Holds(t, m)' <=> CoreOf(t) = CoreOf(s) /\ n + 1 \in HeldIds(t)'
    BY <1>1, <1>2, <1>5 DEF Holds
  <2>2. t # s => n + 1 \notin HeldIds(t)'
    BY <1>3, <1>7
  <2>3. n + 1 \in HeldIds(s)'
    BY <1>3
  <2> QED
    BY <2>1, <2>2, <2>3
<1>11. \A core : \A b \in DOMAIN calls' : Bars(b, core)' <=> b \in DOMAIN calls /\ Bars(b, core)
  BY <1>1, <1>5 DEF Bars
<1>12. \A core \in Cores : Len(segments[core]) <= Len(segments'[core])
  <2> SUFFICES ASSUME NEW core \in Cores PROVE Len(segments[core]) <= Len(segments'[core])
    OBVIOUS
  <2>1. segments \in [Cores -> Seq(Segment)]
    BY DEF LoopInv, LoopTypeOK
  <2>2. Len(segments[core]) \in Nat /\ Len(segments[core]) <= Len(OpenSegments(core))
    BY <2>1, OpenSegmentsTyped, LenProperties
  <2>3. segments'[core] = segments[core] \/ segments'[core] = OpenSegments(core)
    BY <2>1 DEF StepPushes
  <2> QED
    BY <2>2, <2>3
<1>13. /\ segments'[CoreOf(s)] = OpenSegments(CoreOf(s)) /\ SegmentOf(s) = Len(OpenSegments(CoreOf(s)))
       /\ CoreOf(s) \in Cores /\ Len(OpenSegments(CoreOf(s))) \in Nat
  <2>1. segments \in [Cores -> Seq(Segment)] /\ CoreOf(s) \in Cores
    BY DEF LoopInv, LoopTypeOK, Streams, CoreOf
  <2> QED
    BY <2>1, OpenSegmentsTyped DEF StepPushes
<1>14. \A t \in DOMAIN cursors : SegmentOf(t) \in Nat /\ Len(segments[CoreOf(t)]) \in Nat /\ CoreOf(t) \in Cores
  BY StreamFacts, LenProperties
<1>15. \A i \in Pushed' : \E t \in DOMAIN cursors' : Holds(t, i)'
  BY <1>3, <1>5, <1>9, <1>10 DEF PlaceInv
<1>16. \A core \in Cores : Len(segments'[core]) \in Nat
  <2> SUFFICES ASSUME NEW core \in Cores PROVE Len(segments'[core]) \in Nat
    OBVIOUS
  <2>1. segments \in [Cores -> Seq(Segment)]
    BY DEF LoopInv, LoopTypeOK
  <2>2. OpenSegments(core) \in Seq(Segment) /\ segments[core] \in Seq(Segment)
    BY <2>1, OpenSegmentsTyped
  <2>3. segments'[core] = segments[core] \/ segments'[core] = OpenSegments(core)
    BY <2>1 DEF StepPushes
  <2> QED
    BY <2>2, <2>3, LenProperties
<1>17. ASSUME NEW t \in DOMAIN cursors', NEW i \in Pushed', NEW b \in DOMAIN calls',
              Holds(t, i)', i < b, Bars(b, CoreOf(t))'
       PROVE  SegmentOf(t) < Len(segments'[CoreOf(t)])
  <2>1. b \in DOMAIN calls /\ Bars(b, CoreOf(t))
    BY <1>11, <1>17
  <2>2. i \in Pushed
    BY <1>5, <1>6, <1>17, <2>1
  <2>3. t \in DOMAIN cursors /\ Holds(t, i)
    BY <1>9, <1>17, <2>2
  <2>4. SegmentOf(t) < Len(segments[CoreOf(t)])
    BY <1>17, <2>1, <2>2, <2>3 DEF PlaceInv
  <2> QED
    BY <1>12, <1>14, <1>16, <2>3, <2>4
<1>18. ASSUME NEW t \in DOMAIN cursors', NEW u \in DOMAIN cursors', NEW i \in Pushed', NEW j \in Pushed',
              NEW b \in DOMAIN calls', Holds(t, i)', Holds(u, j)', CoreOf(t) = CoreOf(u),
              i < b, b < j, Bars(b, CoreOf(t))'
       PROVE  SegmentOf(t) < SegmentOf(u)
  <2>1. b \in DOMAIN calls /\ Bars(b, CoreOf(t))
    BY <1>11, <1>18
  <2>2. i \in Pushed
    BY <1>5, <1>6, <1>18, <2>1
  <2>3. t \in DOMAIN cursors /\ Holds(t, i)
    BY <1>9, <1>18, <2>2
  <2>4. CASE j \in Pushed
    <3>1. u \in DOMAIN cursors /\ Holds(u, j)
      BY <1>9, <1>18, <2>4
    <3> QED
      BY <1>18, <2>1, <2>2, <2>3, <2>4, <3>1 DEF PlaceInv
  <2>5. CASE j = m
    <3>1. u = s
      BY <1>10, <1>18, <2>5
    <3>2. SegmentOf(t) < Len(segments[CoreOf(t)])
      BY <1>18, <2>1, <2>2, <2>3 DEF PlaceInv
    <3>3. Len(segments[CoreOf(t)]) <= SegmentOf(s) /\ SegmentOf(s) \in Nat
      BY <1>12, <1>13, <1>18, <3>1
    <3> QED
      BY <1>14, <2>3, <3>1, <3>2, <3>3
  <2> QED
    BY <1>5, <2>4, <2>5
<1> QED
  BY <1>15, <1>17, <1>18 DEF PlaceInv

(* A step that moves no transaction and calls no barrier. *)
LEMMA PlaceFrame ==
  ASSUME LoopInv, PlaceInv, DOMAIN cursors' = DOMAIN cursors,
         \A s \in DOMAIN cursors : HeldIds(s)' = HeldIds(s),
         calls' = calls \/ \E id \in Nat : calls' = Append(calls, [kind |-> "prune", txn_id |-> id]),
         \A s \in DOMAIN cursors : Len(segments'[CoreOf(s)]) = Len(segments[CoreOf(s)])
  PROVE  PlaceInv'
<1>1. /\ Pushed' = Pushed
      /\ \A i \in Pushed : calls'[i] = calls[i]
      /\ \A core : \A b \in DOMAIN calls' : Bars(b, core)' <=> b \in DOMAIN calls /\ Bars(b, core)
  <2>1. CASE calls' = calls
    BY <2>1 DEF Pushed, Bars
  <2>2. ASSUME NEW id \in Nat, calls' = Append(calls, [kind |-> "prune", txn_id |-> id])
        PROVE  /\ Pushed' = Pushed
               /\ \A i \in Pushed : calls'[i] = calls[i]
               /\ \A core : \A b \in DOMAIN calls' : Bars(b, core)' <=> b \in DOMAIN calls /\ Bars(b, core)
    <3>1. PICK call \in CallRecord : call = [kind |-> "prune", txn_id |-> id] /\ calls' = Append(calls, call)
      BY <2>2 DEF CallRecord
    <3>2. call.kind = "prune"
      BY <3>1
    <3>3. PICK m : m = Len(calls) + 1
      OBVIOUS
    <3>4. /\ DOMAIN calls' = DOMAIN calls \cup {m} /\ m \notin DOMAIN calls
          /\ \A i \in DOMAIN calls : calls'[i] = calls[i]
          /\ calls'[m] = call
          /\ Pushed' = Pushed
      BY <3>1, <3>2, <3>3, PushedAppend
    <3> QED
      BY <3>2, <3>4 DEF Pushed, Bars
  <2> QED
    BY <2>1, <2>2
<1>2. \A s \in DOMAIN cursors : \A i \in Pushed : Holds(s, i)' <=> Holds(s, i)
  BY <1>1 DEF Holds
<1>3. \A i \in Pushed' : \E s \in DOMAIN cursors' : Holds(s, i)'
  BY <1>1, <1>2 DEF PlaceInv
<1>4. \A s \in DOMAIN cursors' : \A i \in Pushed', b \in DOMAIN calls' :
       Holds(s, i)' /\ i < b /\ Bars(b, CoreOf(s))' => SegmentOf(s) < Len(segments'[CoreOf(s)])
  BY <1>1, <1>2 DEF PlaceInv
<1>5. \A s, t \in DOMAIN cursors' : \A i, j \in Pushed', b \in DOMAIN calls' :
       /\ Holds(s, i)' /\ Holds(t, j)' /\ CoreOf(s) = CoreOf(t)
       /\ i < b /\ b < j /\ Bars(b, CoreOf(s))'
       => SegmentOf(s) < SegmentOf(t)
  BY <1>1, <1>2 DEF PlaceInv
<1> QED
  BY <1>3, <1>4, <1>5 DEF PlaceInv

LEMMA PlaceInvBars ==
  ASSUME LoopInv, PlaceInv, NEW core \in Cores, StepBars(core)
  PROVE  PlaceInv'
<1>1. /\ PushBarrier(core) /\ cursors' = cursors /\ finished' = finished
  BY DEF StepBars, PushBarrier
<1>2. \A s \in DOMAIN cursors : HeldIds(s)' = HeldIds(s)
  BY <1>1 DEF HeldIds, OverIn
<1>3. PICK call \in CallRecord : /\ call = [kind |-> "barrier", core |-> core]
                                 /\ calls' = Append(calls, call)
  BY <1>1 DEF CallRecord, PushBarrier
<1>4. call.kind = "barrier" /\ call.core = core
  BY <1>3
<1>5. PICK m : m = Len(calls) + 1
  OBVIOUS
<1>6. /\ DOMAIN calls' = DOMAIN calls \cup {m} /\ m \notin DOMAIN calls
      /\ \A i \in DOMAIN calls : calls'[i] = calls[i] /\ i < m
      /\ calls'[m] = call
      /\ Pushed' = Pushed
  BY <1>3, <1>4, <1>5, PushedAppend
<1>7. DOMAIN calls \subseteq Nat /\ m \in Nat /\ Pushed \subseteq DOMAIN calls
  BY <1>5, LenProperties DEF LoopInv, LoopTypeOK, Pushed
<1>8. \A s \in DOMAIN cursors : \A i \in Pushed : Holds(s, i)' <=> Holds(s, i)
  BY <1>2, <1>6, <1>7 DEF Holds
<1>9. \A x : \A b \in DOMAIN calls : Bars(b, x)' <=> Bars(b, x)
  BY <1>6 DEF Bars
<1>10. \A x : Bars(m, x)' => x = core
  BY <1>4, <1>6 DEF Bars
<1>11. ASSUME NEW s \in DOMAIN cursors, NEW i \in Pushed, NEW b \in DOMAIN calls',
              Holds(s, i), i < b, Bars(b, CoreOf(s))'
       PROVE  SegmentOf(s) < Len(segments'[CoreOf(s)])
  <2>1. /\ SegmentOf(s) \in Nat /\ SegmentOf(s) \in 1 .. Len(segments[CoreOf(s)])
        /\ CoreOf(s) \in Cores /\ Len(segments[CoreOf(s)]) \in Nat
    BY StreamFacts, LenProperties
  <2>2. CASE b \in DOMAIN calls
    <3>1. SegmentOf(s) < Len(segments[CoreOf(s)])
      BY <1>9, <1>11, <2>2 DEF PlaceInv
    <3>2. /\ CoreOf(s) = core => Len(segments'[CoreOf(s)]) = Len(segments[CoreOf(s)]) + 1
          /\ CoreOf(s) # core => segments'[CoreOf(s)] = segments[CoreOf(s)]
      BY <1>1, <2>1, BarrierSegments
    <3> QED
      BY <2>1, <3>1, <3>2
  <2>3. CASE b = m
    <3>1. Len(segments'[CoreOf(s)]) = Len(segments[CoreOf(s)]) + 1
      BY <1>1, <1>10, <1>11, <2>3, BarrierSegments
    <3> QED
      BY <2>1, <3>1
  <2> QED
    BY <1>6, <2>2, <2>3
<1>12. ASSUME NEW s \in DOMAIN cursors, NEW t \in DOMAIN cursors, NEW i \in Pushed, NEW j \in Pushed,
              NEW b \in DOMAIN calls', Holds(s, i), Holds(t, j), CoreOf(s) = CoreOf(t),
              i < b, b < j, Bars(b, CoreOf(s))'
       PROVE  SegmentOf(s) < SegmentOf(t)
  <2>1. b # m
    BY <1>6, <1>7, <1>12
  <2>2. b \in DOMAIN calls /\ Bars(b, CoreOf(s))
    BY <1>6, <1>9, <1>12, <2>1
  <2> QED
    BY <1>12, <2>2 DEF PlaceInv
<1>13. \A i \in Pushed' : \E s \in DOMAIN cursors' : Holds(s, i)'
  BY <1>1, <1>6, <1>8 DEF PlaceInv
<1>14. \A s \in DOMAIN cursors' : \A i \in Pushed', b \in DOMAIN calls' :
       Holds(s, i)' /\ i < b /\ Bars(b, CoreOf(s))' => SegmentOf(s) < Len(segments'[CoreOf(s)])
  BY <1>1, <1>6, <1>8, <1>11
<1>15. \A s, t \in DOMAIN cursors' : \A i, j \in Pushed', b \in DOMAIN calls' :
       /\ Holds(s, i)' /\ Holds(t, j)' /\ CoreOf(s) = CoreOf(t)
       /\ i < b /\ b < j /\ Bars(b, CoreOf(s))'
       => SegmentOf(s) < SegmentOf(t)
  BY <1>1, <1>6, <1>8, <1>12
<1> QED
  BY <1>13, <1>14, <1>15 DEF PlaceInv

LEMMA PlaceInvFinishes ==
  ASSUME LoopInv, IdInv, PlaceInv, NEW s \in DOMAIN cursors, NEW complete \in Nat, NEW gate \in Nat,
         NEW ip, NEW opened, StepFinishes(s, ip, complete, gate, opened)
  PROVE  PlaceInv'
<1>1. DOMAIN cursors' = DOMAIN cursors /\ \A t \in DOMAIN cursors : HeldIds(t)' = HeldIds(t)
  BY HeldFinishes
<1>2. calls' = calls
  BY DEF StepFinishes
<1>3. \A t \in DOMAIN cursors : Len(segments'[CoreOf(t)]) = Len(segments[CoreOf(t)])
  BY FinishedSegments, StreamFacts
<1> QED
  BY <1>1, <1>2, <1>3, PlaceFrame

LEMMA PlaceInvStep ==
  ASSUME LoopInv, IdInv, PlaceInv, [Next]_vars
  PROVE  PlaceInv'
<1>1. ASSUME DOMAIN cursors' = DOMAIN cursors, segments' = segments, finished' = finished,
             calls' = calls \/ \E id \in Nat : calls' = Append(calls, [kind |-> "prune", txn_id |-> id]),
             \A s \in DOMAIN cursors : cursors'[s].pending = cursors[s].pending
      PROVE  PlaceInv'
  <2>1. \A s \in DOMAIN cursors : HeldIds(s)' = HeldIds(s)
    BY <1>1 DEF HeldIds, OverIn
  <2> QED
    BY <1>1, <2>1, PlaceFrame
<1>2. ASSUME NEW s \in DOMAIN cursors, NEW issue \in Nat, StepIssues(s, issue) PROVE PlaceInv'
  <2>1. \A t \in DOMAIN cursors : cursors'[t].pending = cursors[t].pending
    BY <1>2 DEF StepIssues
  <2>2. DOMAIN cursors' = DOMAIN cursors /\ segments' = segments /\ finished' = finished /\ calls' = calls
    BY <1>2 DEF StepIssues
  <2> QED
    BY <1>1, <2>1, <2>2
<1>3. ASSUME StepSteady PROVE PlaceInv'
  BY <1>1, <1>3 DEF StepSteady, Advances
<1> QED
  BY <1>2, <1>3, StepKinds, PlaceInvPushes, PlaceInvBars, PlaceInvFinishes

OrderInv == LoopInv /\ SegInv /\ IdInv /\ PlaceInv

LEMMA InitOrder == Init => OrderInv
<1> SUFFICES ASSUME Init PROVE OrderInv
  OBVIOUS
<1>1. DOMAIN calls = {} /\ DOMAIN cursors = {}
  BY DEF Init, FrontInit
<1>2. PlaceInv
  BY <1>1 DEF PlaceInv, Pushed
<1> QED
  BY <1>2, InitLoop, InitOrdered, InitIds DEF OrderInv

LEMMA AlwaysInPlace == Spec => []OrderInv
<1>1. OrderInv /\ [Next]_vars => OrderInv'
  BY LoopStep, SegInvStep, IdInvStep, PlaceInvStep DEF OrderInv
<1> QED
  BY <1>1, InitOrder, PTL DEF Spec

(* No number is finished twice. *)
LEMMA FinishedOnce ==
  ASSUME LoopInv, IdInv, NEW j \in DOMAIN finished, NEW k \in DOMAIN finished,
         finished[j].txn_id = finished[k].txn_id
  PROVE  j = k
<1>1. PICK s, t : s = StreamOf(finished[j]) /\ t = StreamOf(finished[k])
  OBVIOUS
<1>2. s \in DOMAIN cursors /\ t \in DOMAIN cursors /\ j \in OverIn(s) /\ k \in OverIn(t)
  BY <1>1 DEF IdInv, OverIn
<1>3. finished[j].txn_id \in HeldIds(s) /\ finished[k].txn_id \in HeldIds(t)
  BY <1>2 DEF HeldIds
<1>4. s = t
  BY <1>2, <1>3 DEF IdInv
<1>5. j \in Nat /\ k \in Nat /\ finished[j].txn_id \in Nat
  <2>1. finished \in Seq(Result)
    BY DEF LoopInv, LoopTypeOK
  <2>2. DOMAIN finished = 1 .. Len(finished) /\ Len(finished) \in Nat /\ finished[j] \in Result
    BY <2>1, LenProperties, ElementOfSeq
  <2> QED
    BY <2>2 DEF Result
<1>6. ~ (j < k) /\ ~ (k < j)
  <2>1. \A x, y \in OverIn(s) : x < y => finished[x].txn_id < finished[y].txn_id
    BY <1>2 DEF IdInv
  <2>2. \A x, y \in OverIn(s) : x < y /\ finished[x].txn_id = finished[y].txn_id /\ finished[x].txn_id \in Nat => FALSE
    BY <2>1
  <2> QED
    BY <1>2, <1>4, <1>5, <2>2
<1> QED
  BY <1>5, <1>6

(* With nothing left to do the gates of all segments are known. *)
LEMMA AllKnown ==
  ASSUME LoopInv, SegInv, \A s \in DOMAIN cursors : Known(s) => cursors[s].pending = <<>>,
         NEW core \in Cores, NEW k \in DOMAIN segments[core]
  PROVE  segments[core][k].gate_known
<1> DEFINE segs == segments[core]
           S == {j \in DOMAIN segs : ~ segs[j].gate_known}
<1>1. segs \in Seq(Segment) /\ DOMAIN segs = 1 .. Len(segs) /\ Len(segs) \in Nat
  BY LenProperties DEF LoopInv, LoopTypeOK
<1>2. SegmentsOrdered(core)
  BY DEF SegInv
<1>3. ASSUME S # {} PROVE FALSE
  <2>1. S \in SUBSET Nat
    BY <1>1
  <2>2. PICK m : m = Min(S) /\ m \in S /\ \A j \in S : m <= j
    BY <1>3, <2>1, NatMin
  <2>3. m \in DOMAIN segs /\ ~ segs[m].gate_known /\ m \in Nat \ {0} /\ m <= Len(segs)
    BY <1>1, <2>2
  <2>4. segs # <<>> => segs[1].gate_known
    BY <1>2 DEF SegmentsOrdered
  <2>5. segs # <<>>
    BY <1>1, <2>3
  <2>6. m # 1
    BY <2>3, <2>4, <2>5
  <2>7. PICK p \in Nat : m = p + 1 /\ p \in DOMAIN segs /\ p < Len(segs)
    <3>1. m - 1 \in Nat /\ m = (m - 1) + 1 /\ m - 1 \in DOMAIN segs /\ m - 1 < Len(segs)
      BY <1>1, <2>3, <2>6
    <3> QED
      BY <3>1
  <2>8. p \notin S
    <3>1. p \in Nat /\ m = p + 1
      BY <2>7
    <3>2. ~ (m <= p)
      BY <3>1
    <3> HIDE DEF S
    <3> QED
      BY <2>2, <3>2
  <2>9. segs[p].gate_known
    BY <2>7, <2>8
  <2>10. Done(core, p)
    BY <2>9 DEF Done, InSegment, Known
  <2>11. segs[p + 1].gate_known
    BY <1>2, <2>7, <2>9, <2>10 DEF SegmentsOrdered
  <2> QED
    BY <2>3, <2>7, <2>11
<1> QED
  BY <1>3

(* Nothing waits in the heap, has the turn or flies in a channel. *)
Settled == heap = {} /\ turn = NoTurn /\ \A ch \in Channels : channels[ch].queue = {}

(* Then no stream has work before its barrier. *)
LEMMA RestingStreams ==
  ASSUME LoopInv, Settled, NEW s \in DOMAIN cursors, Known(s)
  PROVE  cursors[s].pending = <<>>
<1>1. EventsOf(s) = {} /\ TurnsOf(s) = {} /\ Flying(s) = {}
  <2>2. EventsOf(s) = {} /\ TurnsOf(s) = {}
    BY DEF Settled, EventsOf, TurnsOf
  <2>3. Flying(s) = {}
    BY DEF Settled, Flying
  <2> QED
    BY <2>2, <2>3
<1>2. PICK c, known : c = cursors[s] /\ known = Known(s)
  OBVIOUS
<1>3. c \in Cursor /\ StreamState(c, {}, {}, {}, known)
  <2>1. c \in Cursor
    BY <1>2, StreamFacts
  <2>2. StreamState(c, EventsOf(s), TurnsOf(s), Flying(s), known)
    BY <1>2 DEF LoopInv, StreamOK
  <2> QED
    BY <1>1, <2>1, <2>2
<1>4. ~ Waiting(c, {}, {}, {}, known)
  <2>1. \A e : {} # {e}
    OBVIOUS
  <2> QED
    BY <2>1 DEF Waiting
<1>5. ASSUME NEW k \in Nat, Issued(c, {}, {}, {}, known, k) PROVE FALSE
  <2>1. k = c.in_progress.num_chunks
    BY <1>5 DEF Issued, Admitted
  <2>2. Cardinality({}) = 0
    BY FS_EmptySet
  <2>3. c.in_progress.chunks_dispatched < c.in_progress.num_chunks
    BY <1>5 DEF Issued, Describes
  <2>4. c.in_progress.chunks_dispatched \in Nat /\ c.in_progress.num_chunks \in Nat
    BY <1>3 DEF Cursor, InProgress
  <2>5. c.in_progress.chunks_dispatched + 0 = k
    BY <1>5, <2>2 DEF Issued
  <2> QED
    BY <2>1, <2>3, <2>4, <2>5
<1>6. Idle(c, {}, {}, {}, known)
  BY <1>3, <1>4, <1>5 DEF StreamState
<1> QED
  BY <1>2, <1>6 DEF Idle

(* And so everything pushed is over, behind whatever barriers it was. *)
LEMMA SettledIsOver ==
  ASSUME OrderInv, Settled, NEW i \in Pushed
  PROVE  ResultsOf(calls[i].txn_id) # {}
<1>1. LoopInv /\ SegInv /\ IdInv /\ PlaceInv
  BY DEF OrderInv
<1>2. PICK s \in DOMAIN cursors : Holds(s, i)
  BY <1>1 DEF PlaceInv
<1>3. \A t \in DOMAIN cursors : Known(t) => cursors[t].pending = <<>>
  BY <1>1, RestingStreams
<1>4. CoreOf(s) \in Cores /\ SegmentOf(s) \in DOMAIN segments[CoreOf(s)]
  BY <1>1, StreamFacts
<1>5. Known(s)
  BY <1>1, <1>3, <1>4, AllKnown DEF Known
<1>6. IdsOf(cursors[s].pending) = {}
  BY <1>3, <1>5 DEF IdsOf
<1>7. PICK k \in OverIn(s) : finished[k].txn_id = calls[i].txn_id
  BY <1>2, <1>6 DEF Holds, HeldIds
<1> QED
  BY <1>7 DEF ResultsOf, OverIn

(* No transaction finishes twice, and once run() has returned every one pushed
   before it has finished, behind whatever barriers it was
   (NothingForgotten; Engine::run, finalize_in_progress_txn). *)
THEOREM TransactionsAreNotForgotten == Spec => []NothingForgotten
<1>1. OrderInv => NothingForgotten
  <2> SUFFICES ASSUME OrderInv PROVE NothingForgotten
    OBVIOUS
  <2>1. LoopInv /\ SegInv /\ IdInv /\ PlaceInv
    BY DEF OrderInv
  <2>2. ASSUME NEW id PROVE Cardinality(ResultsOf(id)) <= 1
    <3>1. \A x, y \in ResultsOf(id) : x = y
      BY <2>1, FinishedOnce DEF ResultsOf
    <3>2. CASE ResultsOf(id) = {}
      BY <3>2, FS_EmptySet
    <3>3. CASE ResultsOf(id) # {}
      <4>1. PICK x : ResultsOf(id) = {x}
        BY <3>1, <3>3
      <4>2. Cardinality(ResultsOf(id)) = 1
        BY <4>1, FS_Singleton
      <4> QED
        BY <4>2
    <3> QED
      BY <3>2, <3>3
  <2>3. ASSUME ~ running, heap = {}, NEW i \in Pushed PROVE ResultsOf(calls[i].txn_id) # {}
    <3>1. Settled
      BY <2>1, <2>3 DEF LoopInv, AtRest, Settled
    <3> QED
      BY <3>1, SettledIsOver
  <2> QED
    BY <2>2, <2>3 DEF NothingForgotten
<1> QED
  BY <1>1, AlwaysInPlace, PTL

-----------------------------------------------------------------------------
(***************************************************************************)
(* Time.  A core's port only moves on, and the gate of a segment is no     *)
(* earlier than the end of anything in front of it.                        *)
(***************************************************************************)
SameId(r, s) == r.core = CoreOf(s) /\ r.axi = AxiOf(s)
SegmentHolding(s) == segments[CoreOf(s)][SegmentOf(s)]

StreamTimes(s) ==
  /\ cursors[s].in_progress.issue_cycle <= port_free[CoreOf(s)]
  /\ cursors[s].pending = <<>> => GateOf(s) <= SegmentHolding(s).max_complete

(* A transaction in service has issued behind its gate and all that is over of its id. *)
ServingTimes(s) ==
  LET ip == cursors[s].in_progress IN
  /\ ip.issue_cycle < port_free[CoreOf(s)]
  /\ GateOf(s) <= ip.issue_cycle /\ ip.issue_cycle <= ip.max_complete
  /\ \A k \in DOMAIN finished : SameId(finished[k], s) => finished[k].issue < ip.issue_cycle

(* What is over is covered by its stream, its segment and every gate behind it. *)
ResultTimes(k) ==
  LET r == finished[k]  s == StreamOf(finished[k]) IN
  /\ r.issue < port_free[r.core]
  /\ Known(s)
  /\ r.complete <= cursors[s].last_complete_cycle
  /\ r.complete <= SegmentHolding(s).max_complete
  /\ \A m \in DOMAIN segments[r.core] :
       r.segment < m /\ segments[r.core][m].gate_known => r.complete <= segments[r.core][m].gate_cycle

PairTimes(j, k) ==
  LET r == finished[j]  q == finished[k] IN
  /\ j < k /\ r.core = q.core /\ r.axi = q.axi => r.issue < q.issue /\ r.complete <= q.complete
  /\ r.core = q.core /\ r.segment < q.segment => j < k /\ r.complete <= q.issue

TimeInv ==
  /\ \A s \in DOMAIN cursors : StreamTimes(s)
  /\ \A s \in Serving : ServingTimes(s)
  /\ \A k \in DOMAIN finished : ResultTimes(k)
  /\ \A j, k \in DOMAIN finished : PairTimes(j, k)

LEMMA ResultFacts ==
  ASSUME LoopInv, IdInv, NEW k \in DOMAIN finished, NEW r, r = finished[k]
  PROVE  /\ k \in Nat /\ r \in Result
         /\ StreamOf(r) \in DOMAIN cursors /\ k \in OverIn(StreamOf(r))
         /\ CoreOf(StreamOf(r)) = r.core /\ SegmentOf(StreamOf(r)) = r.segment /\ AxiOf(StreamOf(r)) = r.axi
         /\ r.core \in Cores /\ r.segment \in Nat \ {0}
         /\ r.issue \in Nat /\ r.complete \in Nat /\ r.txn_id \in Nat
         /\ r.segment \in DOMAIN segments[r.core] /\ port_free[r.core] \in Nat
<1>1. k \in Nat /\ r \in Result
  <2>1. finished \in Seq(Result)
    BY DEF LoopInv, LoopTypeOK
  <2>2. DOMAIN finished = 1 .. Len(finished) /\ Len(finished) \in Nat /\ finished[k] \in Result
    BY <2>1, LenProperties, ElementOfSeq
  <2> QED
    BY <2>2
<1>2. StreamOf(r) \in DOMAIN cursors /\ k \in OverIn(StreamOf(r))
  BY DEF IdInv, OverIn
<1>3. CoreOf(StreamOf(r)) = r.core /\ SegmentOf(StreamOf(r)) = r.segment /\ AxiOf(StreamOf(r)) = r.axi
  BY DEF StreamOf, CoreOf, SegmentOf, AxiOf
<1>4. /\ r.core \in Cores /\ r.segment \in Nat \ {0}
      /\ r.segment \in DOMAIN segments[r.core] /\ port_free[r.core] \in Nat
  BY <1>2, <1>3, StreamFacts
<1>5. r.issue \in Nat /\ r.complete \in Nat /\ r.txn_id \in Nat
  BY <1>1 DEF Result
<1> QED
  BY <1>1, <1>2, <1>3, <1>4, <1>5

(* A stream with work is not in front of a segment whose gate is known. *)
LEMMA WorkFirst ==
  ASSUME LoopInv, SegInv, NEW s \in DOMAIN cursors, cursors[s].pending # <<>>,
         NEW m \in DOMAIN segments[CoreOf(s)], segments[CoreOf(s)][m].gate_known
  PROVE  ~ (SegmentOf(s) < m)
<1>1. SegmentsOrdered(CoreOf(s)) /\ SegmentOf(s) \in DOMAIN segments[CoreOf(s)]
  BY StreamFacts DEF SegInv
<1>2. SegmentOf(s) < m => Done(CoreOf(s), SegmentOf(s))
  BY <1>1 DEF SegmentsOrdered
<1>3. s \in InSegment(CoreOf(s), SegmentOf(s))
  BY DEF InSegment
<1> QED
  BY <1>2, <1>3 DEF Done

(* Streams of one core in service are of one segment. *)
LEMMA ServingTogether ==
  ASSUME LoopInv, SegInv, NEW s \in Serving, NEW t \in Serving, CoreOf(s) = CoreOf(t)
  PROVE  SegmentOf(s) = SegmentOf(t)
<1>1. /\ s \in DOMAIN cursors /\ Known(s) /\ cursors[s].pending # <<>>
      /\ t \in DOMAIN cursors /\ Known(t) /\ cursors[t].pending # <<>>
  BY ServingFacts
<1>2. /\ SegmentOf(s) \in Nat /\ SegmentOf(s) \in DOMAIN segments[CoreOf(s)]
      /\ SegmentOf(t) \in Nat /\ SegmentOf(t) \in DOMAIN segments[CoreOf(t)]
  BY <1>1, StreamFacts
<1>3. ~ (SegmentOf(s) < SegmentOf(t)) /\ ~ (SegmentOf(t) < SegmentOf(s))
  BY <1>1, <1>2, WorkFirst DEF Known
<1> QED
  BY <1>2, <1>3

(* A step that finishes nothing and leaves the segments that hold something. *)
LEMMA ResultTimesFrame ==
  ASSUME LoopInv, IdInv, finished' = finished,
         \A core \in Cores : port_free'[core] \in Nat /\ port_free[core] <= port_free'[core],
         \A t \in DOMAIN cursors : /\ segments'[CoreOf(t)] = segments[CoreOf(t)]
                                   /\ cursors'[t].last_complete_cycle = cursors[t].last_complete_cycle,
         NEW k \in DOMAIN finished, ResultTimes(k)
  PROVE  ResultTimes(k)'
<1>1. PICK r, s : r = finished[k] /\ s = StreamOf(r)
  OBVIOUS
<1>2. /\ s \in DOMAIN cursors /\ CoreOf(s) = r.core /\ r.core \in Cores
      /\ r.issue \in Nat /\ port_free[r.core] \in Nat
  BY <1>1, ResultFacts
<1>3. segments'[r.core] = segments[r.core] /\ cursors'[s].last_complete_cycle = cursors[s].last_complete_cycle
  BY <1>2
<1>4. /\ r.issue < port_free[r.core] /\ Known(s)
      /\ r.complete <= cursors[s].last_complete_cycle
      /\ r.complete <= SegmentHolding(s).max_complete
      /\ \A m \in DOMAIN segments[r.core] :
           r.segment < m /\ segments[r.core][m].gate_known => r.complete <= segments[r.core][m].gate_cycle
  BY <1>1 DEF ResultTimes
<1>5. r.issue < port_free'[r.core]
  BY <1>2, <1>4
<1>6. Known(s)' /\ SegmentHolding(s)' = SegmentHolding(s)
  BY <1>2, <1>3, <1>4 DEF Known, SegmentHolding
<1>7. finished'[k] = r /\ StreamOf(finished'[k]) = s
  BY <1>1
<1>8. /\ r.complete <= cursors'[s].last_complete_cycle
      /\ r.complete <= SegmentHolding(s)'.max_complete
      /\ \A m \in DOMAIN segments'[r.core] :
           r.segment < m /\ segments'[r.core][m].gate_known => r.complete <= segments'[r.core][m].gate_cycle
  BY <1>3, <1>4, <1>6
<1> QED
  BY <1>5, <1>6, <1>7, <1>8 DEF ResultTimes

(* Nor does it change the times of a stream whose progress only goes on. *)
LEMMA StreamTimesFrame ==
  ASSUME LoopInv, finished' = finished, NEW t \in DOMAIN cursors, NEW d \in Cursor, d = cursors'[t],
         d.pending = <<>> => cursors[t].pending = <<>>,
         d.in_progress.issue_cycle = cursors[t].in_progress.issue_cycle,
         cursors[t].in_progress.max_complete <= d.in_progress.max_complete,
         segments'[CoreOf(t)] = segments[CoreOf(t)],
         port_free'[CoreOf(t)] \in Nat, port_free[CoreOf(t)] <= port_free'[CoreOf(t)]
  PROVE  /\ StreamTimes(t) => StreamTimes(t)'
         /\ ServingTimes(t) => ServingTimes(t)'
<1>1. /\ cursors[t] \in Cursor /\ GateOf(t) \in Nat /\ port_free[CoreOf(t)] \in Nat
  BY StreamFacts
<1>2. PICK old, new : old = cursors[t].in_progress /\ new = d.in_progress
  OBVIOUS
<1>3. /\ old.issue_cycle \in Nat /\ old.max_complete \in Nat
      /\ new.issue_cycle \in Nat /\ new.max_complete \in Nat
      /\ new.issue_cycle = old.issue_cycle /\ old.max_complete <= new.max_complete
  BY <1>1, <1>2 DEF Cursor, InProgress
<1>4. GateOf(t)' = GateOf(t) /\ SegmentHolding(t)' = SegmentHolding(t)
  BY DEF GateOf, SegmentHolding
<1>5. StreamTimes(t) => StreamTimes(t)'
  <2> SUFFICES ASSUME StreamTimes(t) PROVE StreamTimes(t)'
    OBVIOUS
  <2>1. old.issue_cycle <= port_free[CoreOf(t)]
    BY <1>2 DEF StreamTimes
  <2>2. new.issue_cycle <= port_free'[CoreOf(t)]
    BY <1>1, <1>3, <2>1
  <2>3. cursors'[t].pending = <<>> => GateOf(t)' <= SegmentHolding(t)'.max_complete
    BY <1>4 DEF StreamTimes
  <2> QED
    BY <1>2, <2>2, <2>3 DEF StreamTimes
<1>6. ServingTimes(t) => ServingTimes(t)'
  <2> SUFFICES ASSUME ServingTimes(t) PROVE ServingTimes(t)'
    OBVIOUS
  <2>1. /\ old.issue_cycle < port_free[CoreOf(t)]
        /\ GateOf(t) <= old.issue_cycle /\ old.issue_cycle <= old.max_complete
        /\ \A k \in DOMAIN finished : SameId(finished[k], t) => finished[k].issue < old.issue_cycle
    BY <1>2 DEF ServingTimes
  <2>2. new.issue_cycle < port_free'[CoreOf(t)] /\ new.issue_cycle <= new.max_complete
    BY <1>1, <1>3, <2>1
  <2>3. /\ GateOf(t)' <= new.issue_cycle
        /\ \A k \in DOMAIN finished' : SameId(finished'[k], t) => finished'[k].issue < new.issue_cycle
    BY <1>3, <1>4, <2>1
  <2>4. new = cursors'[t].in_progress
    BY <1>2
  <2> QED
    BY <2>2, <2>3, <2>4 DEF ServingTimes, SameId
<1> QED
  BY <1>5, <1>6

LEMMA TimeInvSteady ==
  ASSUME LoopInv, LoopInv', IdInv, TimeInv, StepSteady
  PROVE  TimeInv'
<1>1. /\ DOMAIN cursors' = DOMAIN cursors /\ Serving' = Serving
      /\ UNCHANGED <<segments, port_free, finished>>
      /\ \A t \in DOMAIN cursors : Advances(cursors[t], cursors'[t])
  BY DEF StepSteady
<1>2. port_free \in [Cores -> Nat]
  BY DEF LoopInv, LoopTypeOK
<1>3. ASSUME NEW t \in DOMAIN cursors
      PROVE  (StreamTimes(t) => StreamTimes(t)') /\ (ServingTimes(t) => ServingTimes(t)')
  <2>1. PICK d \in Cursor : d = cursors'[t]
    BY <1>1 DEF LoopInv, LoopTypeOK
  <2>2. /\ d.pending = cursors[t].pending
        /\ d.in_progress.issue_cycle = cursors[t].in_progress.issue_cycle
        /\ cursors[t].in_progress.max_complete <= d.in_progress.max_complete
    BY <1>1, <2>1 DEF Advances
  <2>3. port_free[CoreOf(t)] \in Nat /\ port_free'[CoreOf(t)] = port_free[CoreOf(t)]
    BY <1>1, StreamFacts
  <2>4. port_free'[CoreOf(t)] \in Nat /\ port_free[CoreOf(t)] <= port_free'[CoreOf(t)]
    BY <2>3
  <2> QED
    BY <1>1, <2>1, <2>2, <2>4, StreamTimesFrame
<1>4. \A k \in DOMAIN finished : ResultTimes(k)'
  <2>1. \A core \in Cores : port_free'[core] \in Nat /\ port_free[core] <= port_free'[core]
    BY <1>1, <1>2
  <2>2. \A t \in DOMAIN cursors : /\ segments'[CoreOf(t)] = segments[CoreOf(t)]
                                  /\ cursors'[t].last_complete_cycle = cursors[t].last_complete_cycle
    BY <1>1 DEF Advances
  <2> QED
    BY <1>1, <2>1, <2>2, ResultTimesFrame DEF TimeInv
<1>5. \A j, k \in DOMAIN finished : PairTimes(j, k)'
  BY <1>1 DEF TimeInv, PairTimes
<1>6. Serving \subseteq DOMAIN cursors
  BY DEF Serving
<1>7. \A t \in DOMAIN cursors' : StreamTimes(t)'
  BY <1>1, <1>3 DEF TimeInv
<1>8. \A t \in Serving' : ServingTimes(t)'
  BY <1>1, <1>3, <1>6 DEF TimeInv
<1> QED
  BY <1>1, <1>4, <1>5, <1>7, <1>8 DEF TimeInv

LEMMA TimeInvIssues ==
  ASSUME LoopInv, LoopInv', IdInv, TimeInv,
         NEW s \in DOMAIN cursors, NEW issue \in Nat, StepIssues(s, issue)
  PROVE  TimeInv'
<1>1. /\ DOMAIN cursors' = DOMAIN cursors /\ Serving' = Serving \cup {s}
      /\ segments' = segments /\ finished' = finished
      /\ port_free[CoreOf(s)] <= issue /\ GateOf(s) <= issue
      /\ cursors[s].pending # <<>> /\ cursors'[s].pending = cursors[s].pending
      /\ cursors'[s].last_complete_cycle = cursors[s].last_complete_cycle
      /\ cursors'[s].in_progress.issue_cycle = issue /\ cursors'[s].in_progress.max_complete = issue
      /\ \A t \in DOMAIN cursors \ {s} : cursors'[t] = cursors[t]
      /\ port_free' = [port_free EXCEPT ![CoreOf(s)] = issue + 1]
  BY DEF StepIssues
<1>2. port_free \in [Cores -> Nat] /\ CoreOf(s) \in Cores
  BY StreamFacts DEF LoopInv, LoopTypeOK
<1>3. \A core \in Cores : port_free'[core] \in Nat /\ port_free[core] <= port_free'[core]
  BY <1>1, <1>2
<1>4. port_free'[CoreOf(s)] = issue + 1
  BY <1>1, <1>2
<1>5. ASSUME NEW t \in DOMAIN cursors \ {s}
      PROVE  (StreamTimes(t) => StreamTimes(t)') /\ (ServingTimes(t) => ServingTimes(t)')
  <2>1. PICK d \in Cursor : d = cursors'[t] /\ d = cursors[t]
    BY <1>1 DEF LoopInv, LoopTypeOK
  <2>2. d.in_progress.max_complete \in Nat
    BY <2>1 DEF Cursor, InProgress
  <2>3. /\ d.pending = cursors[t].pending
        /\ d.in_progress.issue_cycle = cursors[t].in_progress.issue_cycle
        /\ cursors[t].in_progress.max_complete <= d.in_progress.max_complete
    BY <2>1, <2>2
  <2>4. CoreOf(t) \in Cores
    BY StreamFacts
  <2>5. port_free'[CoreOf(t)] \in Nat /\ port_free[CoreOf(t)] <= port_free'[CoreOf(t)]
    BY <1>3, <2>4
  <2> QED
    BY <1>1, <2>1, <2>3, <2>5, StreamTimesFrame
<1>6. StreamTimes(s)'
  <2>1. issue <= issue + 1
    OBVIOUS
  <2> QED
    BY <1>1, <1>4, <2>1 DEF StreamTimes
<1>7. ServingTimes(s)'
  <2>1. GateOf(s)' = GateOf(s)
    BY <1>1 DEF GateOf
  <2>2. ASSUME NEW k \in DOMAIN finished, SameId(finished[k], s) PROVE finished[k].issue < issue
    <3>1. PICK r : r = finished[k]
      OBVIOUS
    <3>2. r.core = CoreOf(s) /\ r.issue \in Nat /\ r.issue < port_free[r.core] /\ port_free[r.core] \in Nat
      BY <2>2, <3>1, ResultFacts DEF SameId, TimeInv, ResultTimes
    <3> QED
      BY <1>1, <3>1, <3>2
  <2>3. issue < issue + 1 /\ issue <= issue
    OBVIOUS
  <2> QED
    BY <1>1, <1>4, <2>1, <2>2, <2>3 DEF ServingTimes, SameId
<1>8. \A k \in DOMAIN finished : ResultTimes(k)'
  <2>1. \A t \in DOMAIN cursors : /\ segments'[CoreOf(t)] = segments[CoreOf(t)]
                                  /\ cursors'[t].last_complete_cycle = cursors[t].last_complete_cycle
    BY <1>1
  <2> QED
    BY <1>1, <1>3, <2>1, ResultTimesFrame DEF TimeInv
<1>9. \A j, k \in DOMAIN finished : PairTimes(j, k)'
  BY <1>1 DEF TimeInv, PairTimes
<1>10. \A t \in DOMAIN cursors' : StreamTimes(t)'
  BY <1>1, <1>5, <1>6 DEF TimeInv
<1>11. \A t \in Serving' : ServingTimes(t)'
  <2>1. Serving \subseteq DOMAIN cursors
    BY DEF Serving
  <2> QED
    BY <1>1, <1>5, <1>7, <2>1 DEF TimeInv
<1> QED
  BY <1>1, <1>8, <1>9, <1>10, <1>11 DEF TimeInv

LEMMA TimeInvPushes ==
  ASSUME LoopInv, LoopInv', IdInv, TimeInv, NEW s \in Streams, NEW entry \in Entry, StepPushes(s, entry)
  PROVE  TimeInv'
<1>1. /\ DOMAIN cursors' = DOMAIN cursors \cup {s} /\ Serving' = Serving
      /\ port_free' = port_free /\ finished' = finished
      /\ segments' = [segments EXCEPT ![CoreOf(s)] = OpenSegments(CoreOf(s))]
      /\ cursors'[s].pending = Append(CursorBefore(s).pending, entry)
      /\ SameTimes(CursorBefore(s), cursors'[s])
      /\ \A t \in DOMAIN cursors \ {s} : cursors'[t] = cursors[t]
  BY DEF StepPushes
<1>2. port_free \in [Cores -> Nat] /\ segments \in [Cores -> Seq(Segment)]
  BY DEF LoopInv, LoopTypeOK
<1>3. \A core \in Cores : port_free'[core] \in Nat /\ port_free[core] <= port_free'[core]
  BY <1>1, <1>2
<1>4. ASSUME NEW t \in DOMAIN cursors PROVE segments'[CoreOf(t)] = segments[CoreOf(t)]
  <2>1. SegmentOf(t) \in DOMAIN segments[CoreOf(t)]
    BY StreamFacts
  <2>2. segments[CoreOf(t)] # <<>>
    BY <2>1
  <2> QED
    BY <1>1, <1>2, <2>2 DEF OpenSegments
<1>5. cursors'[s].pending # <<>>
  <2>1. CursorBefore(s) \in Cursor
    BY StreamFacts, NewCursorTyped DEF CursorBefore
  <2>2. CursorBefore(s).pending \in Seq(Entry)
    BY <2>1 DEF Cursor, Entry
  <2> QED
    BY <1>1, <2>2, AppendProperties
<1>6. ASSUME NEW t \in DOMAIN cursors
      PROVE  /\ (StreamTimes(t) => StreamTimes(t)') /\ (ServingTimes(t) => ServingTimes(t)')
             /\ cursors'[t].last_complete_cycle = cursors[t].last_complete_cycle
  <2>1. PICK d \in Cursor : d = cursors'[t]
    BY <1>1 DEF LoopInv, LoopTypeOK
  <2>2. /\ d.pending = <<>> => cursors[t].pending = <<>>
        /\ d.in_progress = cursors[t].in_progress
        /\ d.last_complete_cycle = cursors[t].last_complete_cycle
    BY <1>1, <1>5, <2>1 DEF SameTimes, CursorBefore
  <2>3. d.in_progress.max_complete \in Nat
    BY <2>1 DEF Cursor, InProgress
  <2>4. /\ d.in_progress.issue_cycle = cursors[t].in_progress.issue_cycle
        /\ cursors[t].in_progress.max_complete <= d.in_progress.max_complete
    BY <2>2, <2>3
  <2>5. CoreOf(t) \in Cores
    BY StreamFacts
  <2>6. port_free'[CoreOf(t)] \in Nat /\ port_free[CoreOf(t)] <= port_free'[CoreOf(t)]
    BY <1>3, <2>5
  <2>7. (StreamTimes(t) => StreamTimes(t)') /\ (ServingTimes(t) => ServingTimes(t)')
    BY <1>1, <1>4, <2>1, <2>2, <2>4, <2>6, StreamTimesFrame
  <2> QED
    BY <2>1, <2>2, <2>7
<1>7. ASSUME s \notin DOMAIN cursors PROVE StreamTimes(s)'
  <2>1. cursors'[s].in_progress = NoProgress
    BY <1>1, <1>7 DEF SameTimes, CursorBefore, NewCursor
  <2>2. CoreOf(s) \in Cores
    BY DEF Streams, CoreOf
  <2>3. NoProgress.issue_cycle = 0 /\ 0 <= port_free'[CoreOf(s)]
    BY <1>3, <2>2 DEF NoProgress
  <2> QED
    BY <1>5, <2>1, <2>3 DEF StreamTimes
<1>8. \A k \in DOMAIN finished : ResultTimes(k)'
  BY <1>1, <1>3, <1>4, <1>6, ResultTimesFrame DEF TimeInv
<1>9. \A j, k \in DOMAIN finished : PairTimes(j, k)'
  BY <1>1 DEF TimeInv, PairTimes
<1>10. \A t \in DOMAIN cursors' : StreamTimes(t)'
  BY <1>1, <1>6, <1>7 DEF TimeInv
<1>11. \A t \in Serving' : ServingTimes(t)'
  <2>1. Serving \subseteq DOMAIN cursors
    BY DEF Serving
  <2> QED
    BY <1>1, <1>6, <2>1 DEF TimeInv
<1> QED
  BY <1>1, <1>8, <1>9, <1>10, <1>11 DEF TimeInv

(* The end of a segment that is done covers all that is over in it and before it. *)
LEMMA DoneCovers ==
  ASSUME LoopInv, SegInv, IdInv, TimeInv, NEW core \in Cores, NEW k \in DOMAIN segments[core],
         InSegment(core, k) # {}, Done(core, k),
         NEW i \in DOMAIN finished, finished[i].core = core, finished[i].segment <= k
  PROVE  finished[i].complete <= segments[core][k].max_complete
<1>1. PICK t \in InSegment(core, k) : t \in DOMAIN cursors /\ CoreOf(t) = core /\ SegmentOf(t) = k
  BY DEF InSegment
<1>2. cursors[t].pending = <<>> /\ Known(t)
  BY <1>1, UnknownHasWork DEF Done
<1>3. /\ segments[core][k] \in Segment /\ segments[core][k].gate_known
      /\ segments[core][k].gate_cycle <= segments[core][k].max_complete
  BY <1>1, <1>2, StreamFacts DEF TimeInv, StreamTimes, Known, GateOf, SegmentHolding
<1>4. PICK r : r = finished[i]
  OBVIOUS
<1>5. /\ r.complete \in Nat /\ r.segment \in Nat /\ r.core = core /\ r.segment <= k /\ k \in Nat
      /\ CoreOf(StreamOf(r)) = core /\ SegmentOf(StreamOf(r)) = r.segment
  <2>1. k \in Nat
    BY <1>1, StreamFacts
  <2> QED
    BY <1>4, <2>1, ResultFacts
<1>6. ResultTimes(i)
  BY DEF TimeInv
<1>7. CASE r.segment = k
  BY <1>4, <1>5, <1>6, <1>7 DEF ResultTimes, SegmentHolding
<1>8. CASE r.segment < k
  <2>1. r.complete <= segments[core][k].gate_cycle
    BY <1>3, <1>4, <1>5, <1>6, <1>8 DEF ResultTimes
  <2>2. segments[core][k].gate_cycle \in Nat /\ segments[core][k].max_complete \in Nat
    BY <1>3 DEF Segment
  <2> QED
    BY <1>3, <1>4, <1>5, <2>1, <2>2
<1> QED
  BY <1>5, <1>7, <1>8

LEMMA TimeInvBars ==
  ASSUME LoopInv, SegInv, IdInv, TimeInv, NEW core \in Cores, StepBars(core)
  PROVE  TimeInv'
<1> DEFINE segs == segments[core]
<1>1. /\ PushBarrier(core) /\ cursors' = cursors /\ finished' = finished /\ port_free' = port_free
      /\ Serving' = Serving
  BY DEF StepBars, PushBarrier
<1>2. PICK k, new : k = Len(segs) /\ new = SegmentAfter(core, k)
  OBVIOUS
<1>3. /\ k \in Nat \ {0} /\ Len(segments'[core]) = k + 1 /\ segments'[core][k + 1] = new
      /\ \A x \in Cores : x # core => segments'[x] = segments[x]
      /\ \A j \in DOMAIN segs : /\ segments'[core][j].gate_known = segs[j].gate_known
                                /\ segments'[core][j].gate_cycle = segs[j].gate_cycle
                                /\ segments'[core][j].max_complete = segs[j].max_complete
      /\ segments' \in [Cores -> Seq(Segment)]
  BY <1>1, <1>2, BarrierSegments
<1>4. /\ DOMAIN segs = 1 .. k /\ DOMAIN segments'[core] = DOMAIN segs \cup {k + 1}
      /\ k \in DOMAIN segs
  <2>1. segs \in Seq(Segment) /\ segments'[core] \in Seq(Segment)
    BY <1>3 DEF LoopInv, LoopTypeOK
  <2>2. DOMAIN segs = 1 .. k /\ DOMAIN segments'[core] = 1 .. k + 1
    BY <1>2, <1>3, <2>1, LenProperties
  <2> QED
    BY <1>3, <2>2
<1>5. InSegment(core, k) # {}
  BY <1>1, <1>2 DEF PushBarrier
<1>6. new.gate_known => Done(core, k) /\ new.gate_cycle = segs[k].max_complete
  BY <1>2 DEF SegmentAfter, NewSegment, Done
<1>7. ASSUME NEW t \in DOMAIN cursors
      PROVE  /\ Known(t)' = Known(t) /\ GateOf(t)' = GateOf(t)
             /\ SegmentHolding(t)'.max_complete = SegmentHolding(t).max_complete
  <2>1. CoreOf(t) \in Cores /\ SegmentOf(t) \in DOMAIN segments[CoreOf(t)]
    BY StreamFacts
  <2>2. CASE CoreOf(t) = core
    BY <1>3, <2>1, <2>2 DEF Known, GateOf, SegmentHolding
  <2>3. CASE CoreOf(t) # core
    BY <1>3, <2>1, <2>3 DEF Known, GateOf, SegmentHolding
  <2> QED
    BY <2>2, <2>3
<1>8. ASSUME NEW i \in DOMAIN finished PROVE ResultTimes(i)'
  <2>1. PICK r, s : r = finished[i] /\ s = StreamOf(r)
    OBVIOUS
  <2>2. /\ s \in DOMAIN cursors /\ r.core \in Cores /\ r.segment \in Nat
        /\ r.segment \in DOMAIN segments[r.core]
    BY <2>1, ResultFacts
  <2>3. /\ r.issue < port_free[r.core] /\ Known(s)
        /\ r.complete <= cursors[s].last_complete_cycle
        /\ r.complete <= SegmentHolding(s).max_complete
        /\ \A m \in DOMAIN segments[r.core] :
             r.segment < m /\ segments[r.core][m].gate_known => r.complete <= segments[r.core][m].gate_cycle
    BY <2>1 DEF TimeInv, ResultTimes
  <2>4. ASSUME NEW m \in DOMAIN segments'[r.core], r.segment < m, segments'[r.core][m].gate_known
        PROVE  r.complete <= segments'[r.core][m].gate_cycle
    <3>1. CASE r.core # core
      BY <1>3, <2>2, <2>3, <2>4, <3>1
    <3>2. CASE r.core = core /\ m \in DOMAIN segs
      BY <1>3, <2>3, <2>4, <3>2
    <3>3. CASE r.core = core /\ m = k + 1
      <4>1. r.segment <= k
        BY <1>3, <1>4, <2>2, <3>3
      <4>2. Done(core, k) /\ segments'[core][m].gate_cycle = segs[k].max_complete
        BY <1>3, <1>6, <2>4, <3>3
      <4>3. r.complete <= segs[k].max_complete
        BY <1>4, <1>5, <2>1, <3>3, <4>1, <4>2, DoneCovers
      <4> QED
        BY <3>3, <4>2, <4>3
    <3> QED
      BY <1>4, <2>4, <3>1, <3>2, <3>3
  <2>5. /\ r.issue < port_free'[r.core] /\ Known(s)'
        /\ r.complete <= cursors'[s].last_complete_cycle
        /\ r.complete <= SegmentHolding(s)'.max_complete
    BY <1>1, <1>7, <2>2, <2>3
  <2>6. finished'[i] = r /\ StreamOf(finished'[i]) = s
    BY <1>1, <2>1
  <2> QED
    BY <2>4, <2>5, <2>6 DEF ResultTimes
<1>9. ASSUME NEW t \in DOMAIN cursors
      PROVE  (StreamTimes(t) => StreamTimes(t)') /\ (ServingTimes(t) => ServingTimes(t)')
  BY <1>1, <1>7 DEF StreamTimes, ServingTimes, SameId
<1>10. \A i, j \in DOMAIN finished : PairTimes(i, j)'
  BY <1>1 DEF TimeInv, PairTimes
<1>11. Serving \subseteq DOMAIN cursors
  BY DEF Serving
<1>12. \A t \in DOMAIN cursors' : StreamTimes(t)'
  BY <1>1, <1>9 DEF TimeInv
<1>13. \A t \in Serving' : ServingTimes(t)'
  BY <1>1, <1>9, <1>11 DEF TimeInv
<1> QED
  BY <1>1, <1>8, <1>10, <1>12, <1>13 DEF TimeInv

(* What the times of a transaction that ends are bounded by. *)
LEMMA EndTimes ==
  ASSUME LoopInv, TimeInv, NEW s \in DOMAIN cursors, NEW complete \in Nat, NEW gate \in Nat,
         NEW ip, NEW opened, StepFinishes(s, ip, complete, gate, opened)
  PROVE  /\ ip.issue_cycle \in Nat /\ ip.issue_cycle = cursors[s].in_progress.issue_cycle
         /\ ip.issue_cycle < port_free[CoreOf(s)]
         /\ GateOf(s) <= ip.issue_cycle /\ ip.issue_cycle <= complete /\ GateOf(s) <= complete
         /\ cursors[s].last_complete_cycle <= complete
         /\ complete <= gate /\ SegmentHolding(s).max_complete <= gate
         /\ \A k \in DOMAIN finished : SameId(finished[k], s) => finished[k].issue < ip.issue_cycle
<1>1. /\ s \in Serving /\ ip \in InProgress /\ gate = GateAfter(s, complete)
      /\ ip.issue_cycle = cursors[s].in_progress.issue_cycle
      /\ cursors[s].in_progress.max_complete <= complete
      /\ cursors[s].last_complete_cycle <= complete
  BY DEF StepFinishes
<1>2. PICK old : old = cursors[s].in_progress
  OBVIOUS
<1>3. /\ old.issue_cycle < port_free[CoreOf(s)]
      /\ GateOf(s) <= old.issue_cycle /\ old.issue_cycle <= old.max_complete
      /\ \A k \in DOMAIN finished : SameId(finished[k], s) => finished[k].issue < old.issue_cycle
  BY <1>1, <1>2 DEF TimeInv, ServingTimes
<1>4. /\ GateOf(s) \in Nat /\ old.issue_cycle \in Nat /\ old.max_complete \in Nat
      /\ segments[CoreOf(s)][SegmentOf(s)] \in Segment
  BY <1>2, StreamFacts DEF Cursor, InProgress
<1>5. SegmentHolding(s).max_complete \in Nat /\ gate = Later(SegmentHolding(s).max_complete, complete)
  BY <1>1, <1>4 DEF Segment, SegmentHolding, GateAfter
<1>6. complete <= gate /\ SegmentHolding(s).max_complete <= gate
  BY <1>5 DEF Later
<1>7. old.issue_cycle <= complete /\ GateOf(s) <= complete
  BY <1>1, <1>2, <1>3, <1>4
<1> QED
  BY <1>1, <1>2, <1>3, <1>4, <1>6, <1>7

LEMMA StreamTimesFinishes ==
  ASSUME LoopInv, TimeInv, NEW s \in DOMAIN cursors, NEW complete \in Nat, NEW gate \in Nat,
         NEW ip, NEW opened, StepFinishes(s, ip, complete, gate, opened),
         NEW t \in DOMAIN cursors
  PROVE  /\ StreamTimes(t)'
         /\ Known(t) => /\ Known(t)' /\ GateOf(t)' = GateOf(t)
                        /\ SegmentHolding(t).max_complete <= SegmentHolding(t)'.max_complete
         /\ t = s => SegmentHolding(t)'.max_complete = gate
<1>1. /\ port_free' = port_free /\ Known(s) /\ ip \in InProgress /\ cursors[s].pending # <<>>
      /\ cursors'[s] = Finished(cursors[s], ip, complete)
      /\ \A u \in DOMAIN cursors \ {s} :
           cursors'[u].pending = cursors[u].pending /\ SameTimes(cursors[u], cursors'[u])
  BY DEF StepFinishes
<1>2. /\ CoreOf(s) \in Cores /\ SegmentOf(s) \in Nat /\ cursors[s] \in Cursor
      /\ SegmentOf(s) \in DOMAIN segments[CoreOf(s)]
      /\ CoreOf(t) \in Cores /\ SegmentOf(t) \in DOMAIN segments[CoreOf(t)]
      /\ SegmentHolding(t) \in Segment
  BY StreamFacts DEF SegmentHolding
<1>3. SegmentHolding(t).max_complete \in Nat /\ SegmentHolding(t).gate_cycle \in Nat
  BY <1>2 DEF Segment
<1>4. complete <= gate /\ SegmentHolding(s).max_complete <= gate /\ GateOf(s) <= complete
  BY EndTimes
<1>5. /\ \A j \in opened : j = SegmentOf(s) + 1 /\ ~ segments[CoreOf(s)][j].gate_known
      /\ \A x \in Cores : x # CoreOf(s) => segments'[x] = segments[x]
      /\ \A j \in DOMAIN segments[CoreOf(s)] :
           /\ segments'[CoreOf(s)][j].gate_known <=> segments[CoreOf(s)][j].gate_known \/ j \in opened
           /\ segments'[CoreOf(s)][j].max_complete
                = IF j = SegmentOf(s) THEN gate ELSE segments[CoreOf(s)][j].max_complete
           /\ segments'[CoreOf(s)][j].gate_cycle
                = IF j \in opened THEN gate ELSE segments[CoreOf(s)][j].gate_cycle
  BY FinishedSegments
<1>6. SegmentHolding(t).max_complete <= SegmentHolding(t)'.max_complete
  <2>1. CASE CoreOf(t) # CoreOf(s)
    BY <1>2, <1>3, <1>5, <2>1 DEF SegmentHolding
  <2>2. CASE CoreOf(t) = CoreOf(s) /\ SegmentOf(t) = SegmentOf(s)
    BY <1>2, <1>4, <1>5, <2>2 DEF SegmentHolding
  <2>3. CASE CoreOf(t) = CoreOf(s) /\ SegmentOf(t) # SegmentOf(s)
    <3>1. SegmentHolding(t)'.max_complete = SegmentHolding(t).max_complete
      BY <1>2, <1>5, <2>3 DEF SegmentHolding
    <3> QED
      BY <1>3, <3>1
  <2> QED
    BY <2>1, <2>2, <2>3
<1>7. ASSUME Known(t) PROVE Known(t)' /\ GateOf(t)' = GateOf(t)
  <2>1. CASE CoreOf(t) # CoreOf(s)
    BY <1>2, <1>5, <1>7, <2>1 DEF Known, GateOf
  <2>2. CASE CoreOf(t) = CoreOf(s)
    <3>1. SegmentOf(t) \notin opened
      BY <1>5, <1>7, <2>2 DEF Known
    <3> QED
      BY <1>2, <1>5, <1>7, <2>2, <3>1 DEF Known, GateOf
  <2> QED
    BY <2>1, <2>2
<1>8. t = s => SegmentHolding(t)'.max_complete = gate
  BY <1>2, <1>5 DEF SegmentHolding
<1>9. StreamTimes(t)'
  <2>1. cursors'[t].in_progress.issue_cycle <= port_free'[CoreOf(t)]
    <3>1. cursors'[t].in_progress.issue_cycle = cursors[t].in_progress.issue_cycle
      <4>1. CASE t = s
        <5>1. cursors'[s].in_progress = ip
          BY <1>1, <1>2, FinishedTyped
        <5> QED
          BY <4>1, <5>1 DEF StepFinishes
      <4>2. CASE t # s
        BY <1>1, <4>2 DEF SameTimes
      <4> QED
        BY <4>1, <4>2
    <3> QED
      BY <1>1, <3>1 DEF TimeInv, StreamTimes
  <2>2. ASSUME cursors'[t].pending = <<>> PROVE GateOf(t)' <= SegmentHolding(t)'.max_complete
    <3>1. CASE t = s
      <4>1. GateOf(s) \in Nat /\ GateOf(s) <= gate
        BY <1>4, StreamFacts
      <4>2. GateOf(s)' = GateOf(s) /\ SegmentHolding(s)'.max_complete = gate
        BY <1>1, <1>7, <1>8, <3>1
      <4> QED
        BY <3>1, <4>1, <4>2
    <3>2. CASE t # s
      <4>1. cursors[t].pending = <<>>
        BY <1>1, <2>2, <3>2
      <4>2. Known(t) /\ GateOf(t) <= SegmentHolding(t).max_complete
        BY <4>1, UnknownHasWork DEF TimeInv, StreamTimes
      <4>3. GateOf(t)' = GateOf(t) /\ GateOf(t) \in Nat
        BY <1>7, <4>2, StreamFacts
      <4>4. SegmentHolding(t)'.max_complete \in Nat
        <5>1. SegmentHolding(t)'.max_complete \in {gate, SegmentHolding(t).max_complete}
          <6>1. CASE CoreOf(t) # CoreOf(s)
            BY <1>2, <1>5, <6>1 DEF SegmentHolding
          <6>2. CASE CoreOf(t) = CoreOf(s)
            BY <1>2, <1>5, <6>2 DEF SegmentHolding
          <6> QED
            BY <6>1, <6>2
        <5> QED
          BY <1>3, <5>1
      <4> QED
        BY <1>3, <1>6, <4>2, <4>3, <4>4
    <3> QED
      BY <3>1, <3>2
  <2> QED
    BY <2>1, <2>2 DEF StreamTimes
<1> QED
  BY <1>6, <1>7, <1>8, <1>9

LEMMA ServingTimesFinishes ==
  ASSUME LoopInv, SegInv, IdInv, TimeInv, NEW s \in DOMAIN cursors, NEW complete \in Nat, NEW gate \in Nat,
         NEW ip, NEW opened, StepFinishes(s, ip, complete, gate, opened),
         NEW t \in Serving \ {s}
  PROVE  ServingTimes(t)'
<1>1. t \in DOMAIN cursors /\ Known(t) /\ s \in Serving
  BY ServingFacts DEF StepFinishes
<1>2. /\ port_free' = port_free /\ cursors'[t].in_progress = cursors[t].in_progress
  BY <1>1 DEF StepFinishes, SameTimes
<1>3. GateOf(t)' = GateOf(t)
  BY <1>1, StreamTimesFinishes
<1>4. PICK n \in Nat, r \in Result : Reports(s, ip, complete, n, r)
  BY FinishedAppend
<1>5. /\ DOMAIN finished' = DOMAIN finished \cup {n + 1}
      /\ \A k \in DOMAIN finished : finished'[k] = finished[k]
      /\ finished'[n + 1] = r /\ r.core = CoreOf(s) /\ r.axi = AxiOf(s)
  BY <1>4 DEF Reports
<1>6. ~ SameId(r, t)
  <2> SUFFICES ASSUME SameId(r, t) PROVE FALSE
    OBVIOUS
  <2>1. CoreOf(s) = CoreOf(t) /\ AxiOf(s) = AxiOf(t)
    BY <1>5 DEF SameId
  <2>2. SegmentOf(s) = SegmentOf(t)
    BY <1>1, <2>1, ServingTogether
  <2>3. s = t
    BY <1>1, <2>1, <2>2, StreamFacts
  <2> QED
    BY <2>3
<1>7. ServingTimes(t)
  BY DEF TimeInv
<1> QED
  BY <1>2, <1>3, <1>5, <1>6, <1>7 DEF ServingTimes, SameId

(* The gate that opens behind s is no earlier than anything in front of it. *)
LEMMA GateCovers ==
  ASSUME LoopInv, SegInv, IdInv, TimeInv, NEW s \in DOMAIN cursors, NEW complete \in Nat, NEW gate \in Nat,
         NEW ip, NEW opened, StepFinishes(s, ip, complete, gate, opened),
         NEW i \in DOMAIN finished, finished[i].core = CoreOf(s)
  PROVE  /\ finished[i].segment <= SegmentOf(s)
         /\ finished[i].complete <= gate
         /\ finished[i].segment < SegmentOf(s) =>
              finished[i].complete <= ip.issue_cycle /\ finished[i].complete <= complete
<1>1. PICK r, t : r = finished[i] /\ t = StreamOf(r)
  OBVIOUS
<1>2. /\ t \in DOMAIN cursors /\ CoreOf(t) = r.core /\ SegmentOf(t) = r.segment
      /\ r.core = CoreOf(s) /\ r.segment \in Nat /\ r.complete \in Nat
      /\ r.segment \in DOMAIN segments[r.core]
  BY <1>1, ResultFacts
<1>3. /\ Known(t) /\ r.complete <= SegmentHolding(t).max_complete
      /\ \A m \in DOMAIN segments[r.core] :
           r.segment < m /\ segments[r.core][m].gate_known => r.complete <= segments[r.core][m].gate_cycle
  BY <1>1 DEF TimeInv, ResultTimes
<1>4. /\ SegmentOf(s) \in Nat /\ SegmentOf(s) \in DOMAIN segments[CoreOf(s)] /\ GateOf(s) \in Nat
      /\ SegmentHolding(s) \in Segment
  BY StreamFacts DEF SegmentHolding
<1>5. Known(s) /\ cursors[s].pending # <<>>
  BY DEF StepFinishes
<1>6. ~ (SegmentOf(s) < r.segment)
  <2>1. segments[CoreOf(s)][r.segment].gate_known /\ r.segment \in DOMAIN segments[CoreOf(s)]
    BY <1>2, <1>3 DEF Known
  <2> QED
    BY <1>5, <2>1, WorkFirst
<1>7. /\ GateOf(s) <= ip.issue_cycle /\ ip.issue_cycle <= complete /\ complete <= gate
      /\ ip.issue_cycle \in Nat /\ SegmentHolding(s).max_complete <= gate
  BY EndTimes
<1>8. ASSUME r.segment < SegmentOf(s)
      PROVE  r.complete <= ip.issue_cycle /\ r.complete <= complete /\ r.complete <= gate
  <2>1. r.complete <= GateOf(s)
    BY <1>2, <1>3, <1>4, <1>5, <1>8 DEF Known, GateOf
  <2> QED
    BY <1>2, <1>4, <1>7, <2>1
<1>9. ASSUME r.segment = SegmentOf(s) PROVE r.complete <= gate
  <2>1. SegmentHolding(t) = SegmentHolding(s)
    BY <1>2, <1>9 DEF SegmentHolding
  <2>2. SegmentHolding(s).max_complete \in Nat
    BY <1>4 DEF Segment
  <2> QED
    BY <1>2, <1>3, <1>7, <2>1, <2>2
<1> QED
  BY <1>1, <1>2, <1>4, <1>6, <1>8, <1>9

LEMMA ResultTimesFinishes ==
  ASSUME LoopInv, SegInv, IdInv, TimeInv, NEW s \in DOMAIN cursors, NEW complete \in Nat, NEW gate \in Nat,
         NEW ip, NEW opened, StepFinishes(s, ip, complete, gate, opened),
         NEW i \in DOMAIN finished', LoopInv'
  PROVE  ResultTimes(i)'
<1>1. PICK n \in Nat, q \in Result : Reports(s, ip, complete, n, q)
  BY FinishedAppend
<1>2. /\ DOMAIN finished' = DOMAIN finished \cup {n + 1}
      /\ \A k \in DOMAIN finished : finished'[k] = finished[k]
      /\ finished'[n + 1] = q
      /\ StreamOf(q) = s /\ q.core = CoreOf(s) /\ q.segment = SegmentOf(s)
      /\ q.issue = ip.issue_cycle /\ q.complete = complete
  BY <1>1 DEF Reports
<1>3. PICK r, t : r = finished'[i] /\ t = StreamOf(r)
  OBVIOUS
<1>4. /\ t \in DOMAIN cursors /\ CoreOf(t) = r.core /\ SegmentOf(t) = r.segment
      /\ r.core \in Cores /\ r.segment \in DOMAIN segments[r.core] /\ r.complete \in Nat /\ r.segment \in Nat
  <2>1. CASE i \in DOMAIN finished
    BY <1>2, <1>3, <2>1, ResultFacts
  <2>2. CASE i = n + 1
    BY <1>2, <1>3, <2>2, StreamFacts
  <2> QED
    BY <1>2, <2>1, <2>2
<1>5. /\ r.issue < port_free[r.core] /\ Known(t) /\ r.complete <= SegmentHolding(t)'.max_complete
      /\ r.complete <= cursors'[t].last_complete_cycle
      /\ r.core = CoreOf(s) => r.complete <= gate
      /\ \A m \in DOMAIN segments[r.core] :
           r.segment < m /\ segments[r.core][m].gate_known => r.complete <= segments[r.core][m].gate_cycle
  <2>0. /\ cursors'[s].last_complete_cycle = complete
        /\ \A u \in DOMAIN cursors \ {s} : cursors'[u].last_complete_cycle = cursors[u].last_complete_cycle
    <3>1. /\ cursors[s] \in Cursor /\ cursors[s].pending # <<>> /\ ip \in InProgress
          /\ cursors'[s] = Finished(cursors[s], ip, complete)
      BY StreamFacts DEF StepFinishes
    <3>2. cursors'[s].last_complete_cycle = complete
      BY <3>1, FinishedTyped
    <3> QED
      BY <3>2 DEF StepFinishes, SameTimes
  <2>1. CASE i \in DOMAIN finished
    <3>1. r = finished[i]
      BY <1>2, <1>3, <2>1
    <3>2. /\ r.issue < port_free[r.core] /\ Known(t)
          /\ r.complete <= cursors[t].last_complete_cycle
          /\ r.complete <= SegmentHolding(t).max_complete
          /\ \A m \in DOMAIN segments[r.core] :
               r.segment < m /\ segments[r.core][m].gate_known => r.complete <= segments[r.core][m].gate_cycle
      BY <1>3, <2>1, <3>1 DEF TimeInv, ResultTimes
    <3>3. r.core = CoreOf(s) => r.complete <= gate
      BY <2>1, <3>1, GateCovers
    <3>4. /\ SegmentHolding(t).max_complete <= SegmentHolding(t)'.max_complete
          /\ SegmentHolding(t).max_complete \in Nat
      <4>1. SegmentHolding(t) \in Segment
        BY <1>4, StreamFacts DEF SegmentHolding
      <4> QED
        BY <1>4, <3>2, <4>1, StreamTimesFinishes DEF Segment
    <3>5. SegmentHolding(t)'.max_complete \in Nat
      <4>1. segments' \in [Cores -> Seq(Segment)]
        BY DEF LoopInv, LoopTypeOK
      <4>2. SegmentOf(t) \in DOMAIN segments'[CoreOf(t)]
        BY <1>4, FinishedSegments
      <4>3. segments'[CoreOf(t)][SegmentOf(t)] \in Segment
        BY <1>4, <4>1, <4>2, ElementOfSeq, LenProperties
      <4> QED
        BY <4>3 DEF Segment, SegmentHolding
    <3>6. r.complete <= SegmentHolding(t)'.max_complete
      BY <1>4, <3>2, <3>4, <3>5
    <3>7. r.complete <= cursors'[t].last_complete_cycle
      <4>1. CASE t = s
        <5>1. cursors[s].last_complete_cycle <= complete /\ cursors[s].last_complete_cycle \in Nat
          BY EndTimes, StreamFacts DEF Cursor
        <5> QED
          BY <1>4, <2>0, <3>2, <4>1, <5>1
      <4>2. CASE t # s
        BY <1>4, <2>0, <3>2, <4>2
      <4> QED
        BY <4>1, <4>2
    <3> QED
      BY <3>2, <3>3, <3>6, <3>7
  <2>2. CASE i = n + 1
    <3>1. r = q /\ t = s /\ r.complete = complete
      BY <1>2, <1>3, <2>2
    <3>2. /\ r.issue < port_free[r.core] /\ complete <= gate
      BY <1>2, <3>1, EndTimes
    <3>3. Known(s) /\ cursors[s].pending # <<>>
      BY DEF StepFinishes
    <3>4. SegmentHolding(s)'.max_complete = gate
      BY StreamTimesFinishes
    <3>5. \A m \in DOMAIN segments[r.core] :
            ~ (r.segment < m /\ segments[r.core][m].gate_known)
      BY <1>2, <3>1, <3>3, WorkFirst
    <3>6. complete <= cursors'[s].last_complete_cycle
      BY <2>0
    <3> QED
      BY <3>1, <3>2, <3>3, <3>4, <3>5, <3>6
  <2> QED
    BY <1>2, <2>1, <2>2
<1>6. port_free' = port_free /\ Known(t)'
  BY <1>4, <1>5, StreamTimesFinishes DEF StepFinishes
<1>7. ASSUME NEW m \in DOMAIN segments'[r.core], r.segment < m, segments'[r.core][m].gate_known
      PROVE  r.complete <= segments'[r.core][m].gate_cycle
  <2>1. CASE r.core # CoreOf(s)
    BY <1>4, <1>5, <1>7, <2>1, FinishedSegments
  <2>2. CASE r.core = CoreOf(s)
    <3>1. /\ m \in DOMAIN segments[r.core]
          /\ segments'[r.core][m].gate_known <=> segments[r.core][m].gate_known \/ m \in opened
          /\ segments'[r.core][m].gate_cycle
               = IF m \in opened THEN gate ELSE segments[r.core][m].gate_cycle
      BY <1>4, <1>7, <2>2, FinishedSegments
    <3> QED
      BY <1>5, <1>7, <2>2, <3>1
  <2> QED
    BY <2>1, <2>2
<1>8. ResultTimes(i)' <=> /\ r.issue < port_free'[r.core]
                          /\ Known(t)'
                          /\ r.complete <= cursors'[t].last_complete_cycle
                          /\ r.complete <= SegmentHolding(t)'.max_complete
                          /\ \A m \in DOMAIN segments'[r.core] :
                               r.segment < m /\ segments'[r.core][m].gate_known
                                 => r.complete <= segments'[r.core][m].gate_cycle
  BY <1>3 DEF ResultTimes
<1> QED
  BY <1>5, <1>6, <1>7, <1>8

LEMMA PairTimesFinishes ==
  ASSUME LoopInv, SegInv, IdInv, TimeInv, NEW s \in DOMAIN cursors, NEW complete \in Nat, NEW gate \in Nat,
         NEW ip, NEW opened, StepFinishes(s, ip, complete, gate, opened),
         NEW i \in DOMAIN finished', NEW j \in DOMAIN finished'
  PROVE  PairTimes(i, j)'
<1>1. PICK n \in Nat, q \in Result : Reports(s, ip, complete, n, q)
  BY FinishedAppend
<1>2. /\ DOMAIN finished' = DOMAIN finished \cup {n + 1}
      /\ \A k \in DOMAIN finished : k < n + 1 /\ finished'[k] = finished[k] /\ k \in Nat
      /\ finished'[n + 1] = q
      /\ q.core = CoreOf(s) /\ q.segment = SegmentOf(s) /\ q.axi = AxiOf(s)
      /\ q.issue = ip.issue_cycle /\ q.complete = complete
  BY <1>1 DEF Reports
<1>3. CASE i \in DOMAIN finished /\ j \in DOMAIN finished
  BY <1>2, <1>3 DEF TimeInv, PairTimes
<1>4. CASE i = n + 1 /\ j \in DOMAIN finished
  <2>1. ~ (i < j)
    BY <1>2, <1>4
  <2>2. PICK r : r = finished[j]
    OBVIOUS
  <2>3. r.core = CoreOf(s) => r.segment <= SegmentOf(s)
    BY <1>4, <2>2, GateCovers
  <2>4. r.segment \in Nat /\ SegmentOf(s) \in Nat
    BY <1>4, <2>2, ResultFacts, StreamFacts
  <2>5. ~ (r.core = CoreOf(s) /\ SegmentOf(s) < r.segment)
    BY <2>3, <2>4
  <2>6. finished'[i] = q /\ finished'[j] = r
    BY <1>2, <1>4, <2>2
  <2> QED
    BY <1>2, <2>1, <2>5, <2>6 DEF PairTimes
<1>5. CASE i \in DOMAIN finished /\ j = n + 1
  <2>1. PICK r : r = finished[i]
    OBVIOUS
  <2>2. r.segment \in Nat /\ SegmentOf(s) \in Nat /\ r.complete \in Nat
    BY <1>5, <2>1, ResultFacts, StreamFacts
  <2>3. r.core = CoreOf(s) => r.segment <= SegmentOf(s)
    BY <1>5, <2>1, GateCovers
  <2>4. r.core = CoreOf(s) /\ r.segment < SegmentOf(s) => r.complete <= ip.issue_cycle /\ r.complete <= complete
    BY <1>5, <2>1, GateCovers
  <2>5. SameId(r, s) => r.issue < ip.issue_cycle
    BY <1>5, <2>1, EndTimes
  <2>6. ASSUME r.core = CoreOf(s), r.axi = AxiOf(s), r.segment = SegmentOf(s)
        PROVE  r.complete <= complete
    <3>1. StreamOf(r) = s
      BY <2>6, StreamFacts DEF StreamOf
    <3>2. r.complete <= cursors[s].last_complete_cycle
      BY <1>5, <2>1, <3>1 DEF TimeInv, ResultTimes
    <3>3. cursors[s].last_complete_cycle <= complete /\ cursors[s].last_complete_cycle \in Nat
      BY EndTimes, StreamFacts DEF Cursor
    <3> QED
      BY <2>2, <3>2, <3>3
  <2>7. r.core = CoreOf(s) /\ r.axi = AxiOf(s) => r.issue < ip.issue_cycle /\ r.complete <= complete
    BY <2>2, <2>3, <2>4, <2>5, <2>6 DEF SameId
  <2>8. finished'[i] = r /\ finished'[j] = q /\ i < j
    BY <1>2, <1>5, <2>1
  <2> QED
    BY <1>2, <2>4, <2>7, <2>8 DEF PairTimes
<1>6. CASE i = n + 1 /\ j = n + 1
  <2>1. ~ (i < j)
    BY <1>6
  <2>2. SegmentOf(s) \in Nat
    BY StreamFacts
  <2>3. finished'[i] = q /\ finished'[j] = q /\ ~ (q.segment < q.segment)
    BY <1>2, <1>6, <2>2
  <2> QED
    BY <2>1, <2>3 DEF PairTimes
<1> QED
  BY <1>2, <1>3, <1>4, <1>5, <1>6

LEMMA TimeInvStep ==
  ASSUME LoopInv, LoopInv', SegInv, IdInv, TimeInv, [Next]_vars
  PROVE  TimeInv'
<1>1. ASSUME NEW s \in DOMAIN cursors, NEW complete \in Nat, NEW gate \in Nat,
             NEW ip, NEW opened, StepFinishes(s, ip, complete, gate, opened)
      PROVE  TimeInv'
  <2>1. DOMAIN cursors' = DOMAIN cursors /\ Serving' = Serving \ {s}
    BY <1>1 DEF StepFinishes
  <2>2. \A t \in DOMAIN cursors' : StreamTimes(t)'
    BY <1>1, <2>1, StreamTimesFinishes
  <2>3. \A t \in Serving' : ServingTimes(t)'
    BY <1>1, <2>1, ServingTimesFinishes
  <2>4. \A k \in DOMAIN finished' : ResultTimes(k)'
    BY <1>1, ResultTimesFinishes
  <2>5. \A j, k \in DOMAIN finished' : PairTimes(j, k)'
    BY <1>1, PairTimesFinishes
  <2> QED
    BY <2>2, <2>3, <2>4, <2>5 DEF TimeInv
<1> QED
  BY <1>1, StepKinds, TimeInvPushes, TimeInvBars, TimeInvIssues, TimeInvSteady

LEMMA InitTimes == Init => TimeInv
<1> SUFFICES ASSUME Init PROVE TimeInv
  OBVIOUS
<1>1. DOMAIN finished = {} /\ DOMAIN cursors = {}
  BY DEF Init, FrontInit
<1> QED
  BY <1>1 DEF TimeInv, Serving

LEMMA TimedStep ==
  ASSUME OrderInv, TimeInv, [Next]_vars
  PROVE  OrderInv' /\ TimeInv'
BY LoopStep, SegInvStep, IdInvStep, PlaceInvStep, TimeInvStep DEF OrderInv

LEMMA AlwaysTimed == Spec => [](OrderInv /\ TimeInv)
<1>1. OrderInv /\ TimeInv /\ [Next]_vars => (OrderInv /\ TimeInv)'
  BY TimedStep
<1>2. Init => OrderInv /\ TimeInv
  BY InitOrder, InitTimes
<1> QED
  BY <1>1, <1>2, PTL DEF Spec

(* Transactions of one core and id are issued and finished in the order they
   were pushed, and end in that order, across channels and barriers
   (SameIdInOrder; Engine::run, finalize_in_progress_txn). *)
THEOREM OneIdStaysInOrder == Spec => []SameIdInOrder
<1>1. OrderInv /\ TimeInv => SameIdInOrder
  <2> SUFFICES ASSUME OrderInv, TimeInv,
                      NEW j \in DOMAIN finished, NEW k \in DOMAIN finished, NEW r, NEW q,
                      r = finished[j], q = finished[k], j < k, r.core = q.core, r.axi = q.axi
               PROVE  r.txn_id < q.txn_id /\ r.issue < q.issue /\ r.complete <= q.complete
    BY DEF SameIdInOrder
  <2>1. LoopInv /\ IdInv
    BY DEF OrderInv
  <2>2. r.issue < q.issue /\ r.complete <= q.complete
    BY DEF TimeInv, PairTimes
  <2>3. PICK s, t : s = StreamOf(r) /\ t = StreamOf(q)
    OBVIOUS
  <2>4. /\ s \in DOMAIN cursors /\ j \in OverIn(s) /\ j \in Nat
        /\ CoreOf(s) = r.core /\ SegmentOf(s) = r.segment /\ AxiOf(s) = r.axi /\ r.segment \in Nat
    BY <2>1, <2>3, ResultFacts
  <2>5. /\ t \in DOMAIN cursors /\ k \in OverIn(t) /\ k \in Nat
        /\ CoreOf(t) = q.core /\ SegmentOf(t) = q.segment /\ AxiOf(t) = q.axi /\ q.segment \in Nat
    BY <2>1, <2>3, ResultFacts
  <2>6. ~ (q.segment < r.segment)
    <3>1. q.segment < r.segment => k < j
      BY DEF TimeInv, PairTimes
    <3> QED
      BY <2>4, <2>5, <3>1
  <2>7. CASE r.segment = q.segment
    <3>1. s = t
      BY <2>3, <2>7 DEF StreamOf
    <3> QED
      BY <2>1, <2>2, <2>4, <2>5, <3>1 DEF IdInv
  <2>8. CASE r.segment < q.segment
    <3>1. r.txn_id \in HeldIds(s) /\ q.txn_id \in HeldIds(t)
      BY <2>4, <2>5 DEF HeldIds
    <3>2. CoreOf(s) = CoreOf(t) /\ SegmentOf(s) < SegmentOf(t)
      BY <2>4, <2>5, <2>8
    <3>3. r.txn_id < q.txn_id
      BY <2>1, <2>4, <2>5, <3>1, <3>2 DEF IdInv
    <3> QED
      BY <2>2, <3>3
  <2> QED
    BY <2>4, <2>5, <2>6, <2>7, <2>8
<1> QED
  BY <1>1, AlwaysTimed, PTL

(* A transaction pushed after a barrier of its core issues no earlier than every
   one pushed before the barrier has completed, however the pushes, the barrier
   and the runs interleave (BarrierRespected; Engine::push_barrier,
   finalize_in_progress_txn). *)
THEOREM BarriersAreRespected == Spec => []BarrierRespected
<1>1. OrderInv /\ TimeInv => BarrierRespected
  <2> SUFFICES ASSUME OrderInv, TimeInv,
                      NEW i \in DOMAIN calls, NEW b \in DOMAIN calls, NEW j \in DOMAIN calls,
                      i < b, b < j, calls[i].kind = "txn", calls[b].kind = "barrier", calls[j].kind = "txn",
                      calls[i].core = calls[b].core, calls[b].core = calls[j].core,
                      NEW k \in ResultsOf(calls[j].txn_id)
               PROVE  \E l \in ResultsOf(calls[i].txn_id) :
                        l < k /\ finished[l].complete <= finished[k].issue
    BY DEF BarrierRespected
  <2>1. LoopInv /\ SegInv /\ IdInv /\ PlaceInv
    BY DEF OrderInv
  <2>2. i \in Pushed /\ j \in Pushed
    BY DEF Pushed
  <2>3. PICK s \in DOMAIN cursors : Holds(s, i)
    BY <2>1, <2>2 DEF PlaceInv
  <2>4. PICK t \in DOMAIN cursors : Holds(t, j)
    BY <2>1, <2>2 DEF PlaceInv
  <2>5. CoreOf(s) = CoreOf(t) /\ Bars(b, CoreOf(s))
    BY <2>3, <2>4 DEF Holds, Bars
  <2>6. SegmentOf(s) < SegmentOf(t)
    BY <2>1, <2>2, <2>3, <2>4, <2>5 DEF PlaceInv
  <2>7. k \in DOMAIN finished /\ finished[k].txn_id = calls[j].txn_id
    BY DEF ResultsOf
  <2>8. PICK u : u = StreamOf(finished[k])
    OBVIOUS
  <2>9. u \in DOMAIN cursors /\ k \in OverIn(u)
    BY <2>1, <2>7, <2>8, ResultFacts
  <2>10. u = t
    <3>1. calls[j].txn_id \in HeldIds(u)
      BY <2>7, <2>9 DEF HeldIds
    <3>2. calls[j].txn_id \in HeldIds(t)
      BY <2>4 DEF Holds
    <3> QED
      BY <2>1, <2>9, <3>1, <3>2 DEF IdInv
  <2>11. Known(t)
    BY <2>7, <2>8, <2>10 DEF TimeInv, ResultTimes
  <2>12. cursors[s].pending = <<>>
    <3>1. SegmentOf(t) \in DOMAIN segments[CoreOf(s)] /\ segments[CoreOf(s)][SegmentOf(t)].gate_known
      BY <2>1, <2>5, <2>11, StreamFacts DEF Known
    <3> QED
      BY <2>1, <2>6, <3>1, WorkFirst
  <2>13. PICK l \in OverIn(s) : finished[l].txn_id = calls[i].txn_id
    <3>1. IdsOf(cursors[s].pending) = {}
      BY <2>12 DEF IdsOf
    <3> QED
      BY <2>3, <3>1 DEF Holds, HeldIds
  <2>14. l \in DOMAIN finished /\ StreamOf(finished[l]) = s
    BY DEF OverIn
  <2>15. finished[l].core = finished[k].core /\ finished[l].segment < finished[k].segment
    <3>1. CoreOf(s) = finished[l].core /\ SegmentOf(s) = finished[l].segment
      BY <2>1, <2>14, ResultFacts
    <3>2. CoreOf(t) = finished[k].core /\ SegmentOf(t) = finished[k].segment
      BY <2>1, <2>7, <2>8, <2>10, ResultFacts
    <3> QED
      BY <2>5, <2>6, <3>1, <3>2
  <2>16. l < k /\ finished[l].complete <= finished[k].issue
    BY <2>7, <2>14, <2>15 DEF TimeInv, PairTimes
  <2> QED
    BY <2>13, <2>14, <2>16 DEF ResultsOf
<1> QED
  BY <1>1, AlwaysTimed, PTL

-----------------------------------------------------------------------------
(***************************************************************************)
(* What a gate has in front of it.  A burst belongs to its transaction,    *)
(* in service or over, for good; and a chunk once behind a gate stays      *)
(* behind it.  So all that a stream owns is over before whatever is        *)
(* behind the gate of a later segment.                                     *)
(***************************************************************************)
BehindGate(s, ready) == s \in DOMAIN cursors /\ Known(s) /\ GateOf(s) <= ready

OwnedBy(s, complete) ==
  \/ s \in Serving /\ complete <= cursors[s].in_progress.max_complete
  \/ \E k \in DOMAIN finished : StreamOf(finished[k]) = s /\ complete <= finished[k].complete

LEMMA GatesStay ==
  ASSUME LoopInv, TimeInv, [Next]_vars, NEW t, NEW ready, BehindGate(t, ready)
  PROVE  BehindGate(t, ready)'
<1>1. t \in DOMAIN cursors /\ Known(t) /\ GateOf(t) <= ready
  BY DEF BehindGate
<1>2. CoreOf(t) \in Cores /\ SegmentOf(t) \in DOMAIN segments[CoreOf(t)]
  BY <1>1, StreamFacts
<1>3. ASSUME NEW s \in Streams, NEW entry \in Entry, StepPushes(s, entry)
      PROVE  BehindGate(t, ready)'
  <2>1. /\ segments' = [segments EXCEPT ![CoreOf(s)] = OpenSegments(CoreOf(s))]
        /\ DOMAIN cursors' = DOMAIN cursors \cup {s}
    BY <1>3 DEF StepPushes
  <2>2. segments \in [Cores -> Seq(Segment)] /\ segments[CoreOf(t)] # <<>>
    BY <1>2 DEF LoopInv, LoopTypeOK
  <2>3. segments'[CoreOf(t)] = segments[CoreOf(t)]
    BY <1>2, <2>1, <2>2 DEF OpenSegments
  <2> QED
    BY <1>1, <2>1, <2>3 DEF BehindGate, Known, GateOf
<1>4. ASSUME NEW core \in Cores, StepBars(core)
      PROVE  BehindGate(t, ready)'
  <2>1. PushBarrier(core) /\ cursors' = cursors
    BY <1>4 DEF StepBars, PushBarrier
  <2>2. /\ \A x \in Cores : x # core => segments'[x] = segments[x]
        /\ \A j \in DOMAIN segments[core] :
             /\ segments'[core][j].gate_known = segments[core][j].gate_known
             /\ segments'[core][j].gate_cycle = segments[core][j].gate_cycle
    BY <2>1, BarrierSegments
  <2>3. CASE CoreOf(t) = core
    BY <1>1, <1>2, <2>1, <2>2, <2>3 DEF BehindGate, Known, GateOf
  <2>4. CASE CoreOf(t) # core
    BY <1>1, <1>2, <2>1, <2>2, <2>4 DEF BehindGate, Known, GateOf
  <2> QED
    BY <2>3, <2>4
<1>5. ASSUME NEW s \in DOMAIN cursors, NEW issue \in Nat, StepIssues(s, issue)
      PROVE  BehindGate(t, ready)'
  BY <1>1, <1>5 DEF StepIssues, BehindGate, Known, GateOf
<1>6. ASSUME NEW s \in DOMAIN cursors, NEW complete \in Nat, NEW gate \in Nat,
             NEW ip, NEW opened, StepFinishes(s, ip, complete, gate, opened)
      PROVE  BehindGate(t, ready)'
  <2>1. Known(t)' /\ GateOf(t)' = GateOf(t)
    BY <1>1, <1>6, StreamTimesFinishes
  <2>2. DOMAIN cursors' = DOMAIN cursors
    BY <1>6 DEF StepFinishes
  <2> QED
    BY <1>1, <2>1, <2>2 DEF BehindGate
<1>7. ASSUME StepSteady
      PROVE  BehindGate(t, ready)'
  BY <1>1, <1>7 DEF StepSteady, BehindGate, Known, GateOf
<1> QED
  BY <1>3, <1>4, <1>5, <1>6, <1>7, StepKinds

LEMMA OwnedStays ==
  ASSUME LoopInv, LoopInv', [Next]_vars, NEW t, NEW end \in Nat, OwnedBy(t, end)
  PROVE  OwnedBy(t, end)'
<1>1. Serving \subseteq DOMAIN cursors
  BY DEF Serving
<1>2. ASSUME finished' = finished, Serving \subseteq Serving',
             \A s \in Serving : cursors[s].in_progress.max_complete <= cursors'[s].in_progress.max_complete,
             DOMAIN cursors \subseteq DOMAIN cursors'
      PROVE  OwnedBy(t, end)'
  <2>1. CASE t \in Serving /\ end <= cursors[t].in_progress.max_complete
    <3>1. PICK a, b : a = cursors[t].in_progress.max_complete /\ b = cursors'[t].in_progress.max_complete
      OBVIOUS
    <3>2. a \in Nat
      BY <1>1, <2>1, <3>1, StreamFacts DEF Cursor, InProgress
    <3>3. cursors'[t] \in Cursor
      BY <1>1, <1>2, <2>1 DEF LoopInv, LoopTypeOK
    <3>4. b \in Nat
      BY <3>1, <3>3 DEF Cursor, InProgress
    <3>5. end <= a /\ a <= b
      BY <1>2, <2>1, <3>1
    <3>6. end <= b
      BY <3>2, <3>4, <3>5
    <3> QED
      BY <1>2, <2>1, <3>1, <3>6 DEF OwnedBy
  <2>2. CASE \E k \in DOMAIN finished : StreamOf(finished[k]) = t /\ end <= finished[k].complete
    BY <1>2, <2>2 DEF OwnedBy
  <2> QED
    BY <2>1, <2>2 DEF OwnedBy
<1>3. \A s \in Serving : cursors[s].in_progress.max_complete <= cursors[s].in_progress.max_complete
  BY <1>1, StreamFacts DEF Cursor, InProgress
<1>4. ASSUME NEW s \in Streams, NEW entry \in Entry, StepPushes(s, entry)
      PROVE  OwnedBy(t, end)'
  <2>1. /\ DOMAIN cursors' = DOMAIN cursors \cup {s} /\ Serving' = Serving /\ finished' = finished
        /\ SameTimes(CursorBefore(s), cursors'[s])
        /\ \A u \in DOMAIN cursors \ {s} : cursors'[u] = cursors[u]
    BY <1>4 DEF StepPushes
  <2>2. \A u \in DOMAIN cursors : cursors'[u].in_progress = cursors[u].in_progress
    BY <2>1 DEF SameTimes, CursorBefore
  <2>3. \A u \in Serving : cursors[u].in_progress.max_complete <= cursors'[u].in_progress.max_complete
    BY <1>1, <1>3, <2>2
  <2> QED
    BY <1>2, <2>1, <2>3
<1>5. ASSUME NEW core \in Cores, StepBars(core)
      PROVE  OwnedBy(t, end)'
  <2>1. cursors' = cursors /\ finished' = finished /\ Serving' = Serving
    BY <1>5 DEF StepBars, PushBarrier
  <2> QED
    BY <1>2, <1>3, <2>1
<1>6. ASSUME NEW s \in DOMAIN cursors, NEW issue \in Nat, StepIssues(s, issue)
      PROVE  OwnedBy(t, end)'
  <2>1. /\ DOMAIN cursors' = DOMAIN cursors /\ Serving' = Serving \cup {s} /\ finished' = finished
        /\ s \notin Serving
        /\ \A u \in DOMAIN cursors \ {s} : cursors'[u] = cursors[u]
    BY <1>6 DEF StepIssues
  <2>2. \A u \in Serving : cursors'[u] = cursors[u]
    BY <1>1, <2>1
  <2>3. \A u \in Serving : cursors[u].in_progress.max_complete <= cursors'[u].in_progress.max_complete
    BY <1>3, <2>2
  <2> QED
    BY <1>2, <2>1, <2>3
<1>7. ASSUME NEW s \in DOMAIN cursors, NEW complete \in Nat, NEW gate \in Nat,
             NEW ip, NEW opened, StepFinishes(s, ip, complete, gate, opened)
      PROVE  OwnedBy(t, end)'
  <2>1. PICK n \in Nat, r \in Result : Reports(s, ip, complete, n, r)
    BY <1>7, FinishedAppend
  <2>2. /\ DOMAIN finished' = DOMAIN finished \cup {n + 1}
        /\ \A k \in DOMAIN finished : finished'[k] = finished[k]
        /\ finished'[n + 1] = r /\ StreamOf(r) = s /\ r.complete = complete
    BY <2>1 DEF Reports
  <2>3. /\ s \in Serving /\ Serving' = Serving \ {s}
        /\ cursors[s].in_progress.max_complete <= complete
        /\ \A u \in DOMAIN cursors \ {s} : SameTimes(cursors[u], cursors'[u])
    BY <1>7 DEF StepFinishes
  <2>4. CASE t = s /\ end <= cursors[s].in_progress.max_complete
    <3>1. cursors[s].in_progress.max_complete \in Nat
      BY StreamFacts DEF Cursor, InProgress
    <3>2. end <= complete
      BY <2>3, <2>4, <3>1
    <3> QED
      BY <2>2, <2>4, <3>2 DEF OwnedBy, StreamOf
  <2>5. CASE t # s /\ t \in Serving /\ end <= cursors[t].in_progress.max_complete
    <3>1. cursors'[t].in_progress = cursors[t].in_progress /\ t \in Serving'
      BY <1>1, <2>3, <2>5 DEF SameTimes
    <3> QED
      BY <2>5, <3>1 DEF OwnedBy
  <2>6. CASE \E k \in DOMAIN finished : StreamOf(finished[k]) = t /\ end <= finished[k].complete
    <3>1. PICK k \in DOMAIN finished : StreamOf(finished[k]) = t /\ end <= finished[k].complete
      BY <2>6
    <3>2. k \in DOMAIN finished' /\ finished'[k] = finished[k]
      BY <2>2
    <3> QED
      BY <3>1, <3>2 DEF OwnedBy, StreamOf
  <2> QED
    BY <2>4, <2>5, <2>6 DEF OwnedBy
<1>8. ASSUME StepSteady
      PROVE  OwnedBy(t, end)'
  <2>1. /\ DOMAIN cursors' = DOMAIN cursors /\ Serving' = Serving /\ finished' = finished
        /\ \A u \in Serving : cursors[u].in_progress.max_complete <= cursors'[u].in_progress.max_complete
    BY <1>1, <1>8 DEF StepSteady, Advances
  <2> QED
    BY <1>2, <2>1
<1> QED
  BY <1>4, <1>5, <1>6, <1>7, <1>8, StepKinds

(* Only a stream in service has chunks in flight, or the turn. *)
LEMMA FlyingServes ==
  ASSUME LoopInv, NEW s \in DOMAIN cursors, Flying(s) # {} \/ TurnsOf(s) # {}
  PROVE  s \in Serving
<1>1. PICK k \in Nat : Issued(cursors[s], EventsOf(s), TurnsOf(s), Flying(s), Known(s), k)
  <2>1. StreamState(cursors[s], EventsOf(s), TurnsOf(s), Flying(s), Known(s))
    BY DEF LoopInv, StreamOK
  <2> QED
    BY <2>1 DEF StreamState, Idle, Waiting
<1>2. cursors[s].queued /\ \A e \in EventsOf(s) : e.chunk # 0
  BY <1>1 DEF Issued, Admitted
<1> QED
  BY <1>2 DEF Serving

LEMMA TurnServes ==
  ASSUME LoopInv, turn # NoTurn
  PROVE  ChunkOf(turn).stream \in Serving
<1>1. PICK e \in HeapEvent, s \in DOMAIN cursors, chunk \in Chunk :
        TurnsOf(s) = {e} /\ chunk = ChunkOf(turn) /\ chunk.stream = s
  BY TurnFacts
<1> QED
  BY <1>1, FlyingServes

LEMMA TurnBehindGate ==
  ASSUME LoopInv, TimeInv, turn # NoTurn
  PROVE  BehindGate(ChunkOf(turn).stream, ChunkOf(turn).ready)
<1>1. PICK s \in Serving : s = ChunkOf(turn).stream
  BY TurnServes
<1>2. s = turn.stream /\ ChunkOf(turn).ready = cursors[s].in_progress.issue_cycle
  BY <1>1 DEF ChunkOf
<1>3. s \in DOMAIN cursors /\ Known(s)
  BY ServingFacts
<1>4. GateOf(s) <= cursors[s].in_progress.issue_cycle
  BY DEF TimeInv, ServingTimes
<1> QED
  BY <1>1, <1>2, <1>3, <1>4 DEF BehindGate

(* The burst of a chunk belongs to its transaction from the moment it is routed. *)
LEMMA LastOwns ==
  ASSUME LoopInv, NEW s \in DOMAIN cursors, NEW chunk \in Flying(s), NEW end \in Nat,
         NEW ip, ip = Progressed(cursors[s].in_progress, end), ip.chunks_dispatched = ip.num_chunks,
         Finalize(s, ip), end <= ip.max_complete
  PROVE  OwnedBy(s, end)'
<1>1. /\ ip \in InProgress /\ cursors[s].pending # <<>>
      /\ Completion(cursors[s], ip) \in Nat /\ ip.max_complete <= Completion(cursors[s], ip)
  BY LastChunk, Zenon
<1>2. CoreOf(s) \in Cores /\ segments \in [Cores -> Seq(Segment)]
  BY StreamFacts DEF LoopInv, LoopTypeOK
<1>3. PICK complete, gate, opened : Ends(s, ip, complete, gate, opened)
  BY <1>2, FinalizeEnds
<1>4. /\ complete \in Nat /\ ip.max_complete <= complete
      /\ finished' = Append(finished, ResultOf(s, ip, complete))
  BY <1>1, <1>3 DEF Ends
<1>5. PICK r \in Result : r = ResultOf(s, ip, complete)
  BY <1>1, <1>4, ResultTyped
<1>6. r.core = CoreOf(s) /\ r.segment = SegmentOf(s) /\ r.axi = AxiOf(s) /\ r.complete = complete
  BY <1>5 DEF ResultOf
<1>7. StreamOf(r) = s
  BY <1>6, StreamFacts DEF StreamOf
<1>8. PICK n \in Nat : n \in DOMAIN finished' /\ finished'[n] = r
  <2>1. finished \in Seq(Result) /\ finished' = Append(finished, r)
    BY <1>4, <1>5 DEF LoopInv, LoopTypeOK
  <2>2. /\ Len(finished) \in Nat /\ finished' \in Seq(Result)
        /\ Len(finished') = Len(finished) + 1 /\ finished'[Len(finished) + 1] = r
    BY <2>1, AppendProperties, LenProperties
  <2>3. DOMAIN finished' = 1 .. Len(finished')
    BY <2>2, LenProperties
  <2> QED
    BY <2>2, <2>3
<1>9. end <= r.complete
  <2>1. ip.max_complete \in Nat
    BY <1>1 DEF InProgress
  <2> QED
    BY <1>4, <1>6, <2>1
<1> QED
  BY <1>7, <1>8, <1>9 DEF OwnedBy, StreamOf

LEMMA RouteOwns ==
  ASSUME LoopInv, NEW s \in DOMAIN cursors, NEW chunk \in Flying(s), chunk.stream = s,
         NEW end \in Nat, Route(chunk, end)
  PROVE  OwnedBy(s, end)'
<1>1. cursors[s] \in Cursor /\ cursors[s].in_progress \in InProgress /\ s \in Serving
  BY StreamFacts, FlyingServes DEF Cursor
<1>2. PICK ip : ip = Progressed(cursors[s].in_progress, end)
  OBVIOUS
<1>3. end <= ip.max_complete
  <2>1. PICK old : old = cursors[s].in_progress.max_complete /\ old \in Nat
    BY <1>1 DEF InProgress
  <2>2. ip.max_complete = Later(old, end)
    BY <1>1, <1>2, <2>1 DEF Progressed, InProgress
  <2>3. end <= Later(old, end)
    BY <2>1 DEF Later
  <2> QED
    BY <2>2, <2>3
<1>4. CASE ip.chunks_dispatched = ip.num_chunks
  <2>1. Finalize(s, ip)
    BY <1>2, <1>4 DEF Route
  <2> QED
    BY <1>2, <1>3, <1>4, <2>1, LastOwns
<1>5. CASE ip.chunks_dispatched # ip.num_chunks
  <2>1. cursors' = [cursors EXCEPT ![s].in_progress = ip] /\ heap' = heap
    BY <1>2, <1>5 DEF Route
  <2>2. PICK d : d = [cursors[s] EXCEPT !.in_progress = ip]
    OBVIOUS
  <2>3. d.queued = cursors[s].queued /\ d.in_progress = ip
    BY <1>1, <2>2 DEF Cursor
  <2>4. DOMAIN cursors' = DOMAIN cursors /\ cursors'[s] = d
    BY <2>1, <2>2
  <2>5. s \in Serving'
    BY <1>1, <2>1, <2>3, <2>4 DEF Serving, EventsOf
  <2> QED
    BY <1>3, <2>3, <2>4, <2>5 DEF OwnedBy
<1> QED
  BY <1>4, <1>5

LEMMA QueuedOwns ==
  ASSUME LoopInv, NEW ch \in Channels, NEW chunk \in channels[ch].queue, NEW end \in Nat,
         Route(chunk, end)
  PROVE  OwnedBy(chunk.stream, end)'
<1>1. PICK s \in DOMAIN cursors : s = chunk.stream
  BY DEF LoopInv, Placed
<1>2. chunk \in Flying(s)
  BY <1>1 DEF Flying
<1> QED
  BY <1>1, <1>2, RouteOwns

(* All that is in front of a barrier is over by the gate it sets. *)
LEMMA GateCoversOwned ==
  ASSUME LoopInv, SegInv, IdInv, TimeInv, NEW s, NEW t, CoreOf(s) = CoreOf(t), SegmentOf(s) < SegmentOf(t),
         NEW end \in Nat, OwnedBy(s, end), NEW ready \in Nat, BehindGate(t, ready)
  PROVE  end <= ready
<1>1. t \in DOMAIN cursors /\ Known(t) /\ GateOf(t) <= ready
  BY DEF BehindGate
<1>2. /\ SegmentOf(t) \in DOMAIN segments[CoreOf(t)] /\ GateOf(t) \in Nat
  BY <1>1, StreamFacts
<1>3. s \notin Serving
  <2> SUFFICES ASSUME s \in Serving PROVE FALSE
    OBVIOUS
  <2>1. s \in DOMAIN cursors /\ cursors[s].pending # <<>>
    BY ServingFacts
  <2>2. SegmentOf(t) \in DOMAIN segments[CoreOf(s)] /\ segments[CoreOf(s)][SegmentOf(t)].gate_known
    BY <1>1, <1>2 DEF Known
  <2> QED
    BY <2>1, <2>2, WorkFirst
<1>4. PICK k \in DOMAIN finished : StreamOf(finished[k]) = s /\ end <= finished[k].complete
  BY <1>3 DEF OwnedBy
<1>5. PICK r : r = finished[k] /\ r.core = CoreOf(s) /\ r.segment = SegmentOf(s) /\ r.complete \in Nat
  BY <1>4, ResultFacts
<1>6. r.complete <= segments[r.core][SegmentOf(t)].gate_cycle
  BY <1>1, <1>2, <1>5 DEF TimeInv, ResultTimes, Known
<1>7. r.complete <= GateOf(t)
  BY <1>5, <1>6 DEF GateOf
<1> QED
  BY <1>1, <1>2, <1>4, <1>5, <1>7

-----------------------------------------------------------------------------
(***************************************************************************)
(* Sums.  SumOf takes the terms one by one in an order CHOOSE fixes; what  *)
(* it comes to is independent of that order.  `AddsUp` names the equation a  *)
(* fold is the solution of, on a set D of sets of indices.                 *)
(***************************************************************************)
SumOn(f, S) == FoldFunctionOnSet(+, 0, f, S)

OneOf(s) == CHOOSE x \in s : TRUE

AddsUp(g, f, D) == g = [s \in D |-> IF s = {} THEN 0 ELSE f[OneOf(s)] + g[s \ {OneOf(s)}]]

Smaller(S, n) == {s \in SUBSET S : Cardinality(s) < n}

LEMMA OneOfIn ==
  ASSUME NEW s, s # {}
  PROVE  OneOf(s) \in s
BY DEF OneOf

LEMMA OneLess ==
  ASSUME NEW S, IsFiniteSet(S), NEW s \in SUBSET S, NEW x \in s
  PROVE  /\ s \ {x} \in SUBSET S /\ IsFiniteSet(s)
         /\ Cardinality(s) \in Nat \ {0} /\ Cardinality(s \ {x}) = Cardinality(s) - 1
<1>1. IsFiniteSet(s)
  BY FS_Subset
<1>2. Cardinality(s \ {x}) = Cardinality(s) - 1 /\ IsFiniteSet(s \ {x})
  BY <1>1, FS_RemoveElement
<1>3. Cardinality(s) \in Nat /\ Cardinality(s \ {x}) \in Nat
  BY <1>1, <1>2, FS_CardinalityType
<1> QED
  BY <1>1, <1>2, <1>3

LEMMA AddsValue ==
  ASSUME NEW g, NEW f, NEW D, AddsUp(g, f, D), NEW s \in D
  PROVE  g[s] = IF s = {} THEN 0 ELSE f[OneOf(s)] + g[s \ {OneOf(s)}]
BY DEF AddsUp

(* The equation has a solution. *)
LEMMA AddsExtend ==
  ASSUME NEW f, NEW S, IsFiniteSet(S), NEW n \in Nat, NEW g, AddsUp(g, f, Smaller(S, n))
  PROVE  \E h : AddsUp(h, f, Smaller(S, n + 1))
<1> DEFINE step(s) == IF s = {} THEN 0 ELSE f[OneOf(s)] + g[s \ {OneOf(s)}]
           h == [s \in Smaller(S, n + 1) |-> step(s)]
<1>1. ASSUME NEW s \in Smaller(S, n + 1), s # {}
      PROVE  s \ {OneOf(s)} \in Smaller(S, n)
  <2>1. s \in SUBSET S /\ Cardinality(s) < n + 1 /\ OneOf(s) \in s
    BY <1>1, OneOfIn DEF Smaller
  <2>2. /\ s \ {OneOf(s)} \in SUBSET S
        /\ Cardinality(s) \in Nat \ {0} /\ Cardinality(s \ {OneOf(s)}) = Cardinality(s) - 1
    BY <2>1, OneLess
  <2> QED
    BY <2>1, <2>2 DEF Smaller
<1>2. ASSUME NEW s \in Smaller(S, n)
      PROVE  s \in Smaller(S, n + 1) /\ h[s] = g[s]
  <2>1. IsFiniteSet(s) /\ Cardinality(s) \in Nat
    BY FS_Subset, FS_CardinalityType DEF Smaller
  <2>2. s \in Smaller(S, n + 1)
    BY <2>1 DEF Smaller
  <2>3. h[s] = step(s)
    BY <2>2
  <2>4. g[s] = step(s)
    BY AddsValue, Zenon
  <2> QED
    BY <2>2, <2>3, <2>4
<1>3. \A s \in Smaller(S, n + 1) : s # {} => h[s \ {OneOf(s)}] = g[s \ {OneOf(s)}]
  BY <1>1, <1>2, Zenon
<1>4. h = [s \in Smaller(S, n + 1) |-> IF s = {} THEN 0 ELSE f[OneOf(s)] + h[s \ {OneOf(s)}]]
  BY <1>3
<1> QED
  BY <1>4 DEF AddsUp

LEMMA AddsExists ==
  ASSUME NEW f, NEW S, IsFiniteSet(S)
  PROVE  \E g : AddsUp(g, f, SUBSET S)
<1> DEFINE bad == {n \in Nat : ~ \E g : AddsUp(g, f, Smaller(S, n))}
<1>1. \E g : AddsUp(g, f, Smaller(S, 0))
  <2>1. Smaller(S, 0) = {}
    <3> SUFFICES ASSUME NEW s \in Smaller(S, 0) PROVE FALSE
      OBVIOUS
    <3>1. Cardinality(s) \in Nat /\ Cardinality(s) < 0
      BY FS_Subset, FS_CardinalityType DEF Smaller
    <3> QED
      BY <3>1
  <2>2. PICK g : g = [s \in {} |-> 0]
    OBVIOUS
  <2>3. g = [s \in {} |-> IF s = {} THEN 0 ELSE f[OneOf(s)] + g[s \ {OneOf(s)}]]
    BY <2>2
  <2> QED
    BY <2>1, <2>3 DEF AddsUp
<1>2. bad = {}
  <2> SUFFICES ASSUME bad # {} PROVE FALSE
    OBVIOUS
  <2>1. PICK n : n = Min(bad)
    OBVIOUS
  <2>2. n \in bad /\ \A x \in bad : n <= x
    BY <2>1, NatMin
  <2>3. n \in Nat /\ n # 0
    BY <2>2, <1>1
  <2>4. PICK m \in Nat : n = m + 1
    BY <2>3
  <2>5. m \notin bad
    BY <2>2, <2>4
  <2>6. PICK g : AddsUp(g, f, Smaller(S, m))
    BY <2>5
  <2> QED
    BY <2>2, <2>4, <2>6, AddsExtend
<1>3. PICK n \in Nat : n = Cardinality(S) + 1
  BY FS_CardinalityType
<1>4. Smaller(S, n) = SUBSET S
  <2> SUFFICES ASSUME NEW s \in SUBSET S PROVE Cardinality(s) < n
    BY DEF Smaller
  <2>1. Cardinality(s) <= Cardinality(S) /\ IsFiniteSet(s)
    BY FS_Subset
  <2>2. Cardinality(s) \in Nat /\ Cardinality(S) \in Nat
    BY <2>1, FS_CardinalityType
  <2> QED
    BY <1>3, <2>1, <2>2
<1>5. PICK g : AddsUp(g, f, Smaller(S, n))
  BY <1>2, <1>3
<1> QED
  BY <1>4, <1>5, Zenon

(* And only one: two that solve it for the same terms agree. *)
LEMMA AddsUnique ==
  ASSUME NEW f, NEW e, NEW S, NEW T, IsFiniteSet(S), T \subseteq S,
         \A x \in T : f[x] = e[x],
         NEW g, NEW h, AddsUp(g, f, SUBSET S), AddsUp(h, e, SUBSET T)
  PROVE  g[T] = h[T]
<1> DEFINE bad == {n \in Nat : \E s \in SUBSET T : Cardinality(s) = n /\ g[s] # h[s]}
<1>0. IsFiniteSet(T)
  BY FS_Subset
<1>1. bad = {}
  <2> SUFFICES ASSUME bad # {} PROVE FALSE
    OBVIOUS
  <2>1. PICK n : n = Min(bad)
    OBVIOUS
  <2>2. n \in bad /\ \A x \in bad : n <= x
    BY <2>1, NatMin
  <2>3. PICK s \in SUBSET T : Cardinality(s) = n /\ g[s] # h[s]
    BY <2>2
  <2>4. s \in SUBSET S
    OBVIOUS
  <2>5. s # {}
    BY <2>3, <2>4, AddsValue, ZenonT(40)
  <2>6. PICK x \in s : x = OneOf(s)
    BY <2>5, OneOfIn
  <2>7. g[s] = IF s = {} THEN 0 ELSE f[OneOf(s)] + g[s \ {OneOf(s)}]
    BY <2>4, Zenon DEF AddsUp
  <2>8. h[s] = IF s = {} THEN 0 ELSE e[OneOf(s)] + h[s \ {OneOf(s)}]
    BY Zenon DEF AddsUp
  <2>9. g[s] = f[x] + g[s \ {x}] /\ h[s] = e[x] + h[s \ {x}]
    BY <2>7, <2>8, <2>5, <2>6, Zenon
  <2>10. s \ {x} \in SUBSET T /\ Cardinality(s) \in Nat \ {0} /\ Cardinality(s \ {x}) = Cardinality(s) - 1
    BY <1>0, OneLess
  <2>11. g[s \ {x}] # h[s \ {x}]
    BY <2>3, <2>6, <2>9
  <2>12. Cardinality(s) - 1 \in bad
    BY <2>10, <2>11
  <2> QED
    BY <2>2, <2>3, <2>10, <2>12
<1>2. Cardinality(T) \in Nat
  BY <1>0, FS_CardinalityType
<1> QED
  BY <1>1, <1>2

LEMMA SumOnAdds ==
  ASSUME NEW f, NEW S, IsFiniteSet(S)
  PROVE  \E g : AddsUp(g, f, SUBSET S) /\ SumOn(f, S) = g[S]
<1> DEFINE iter == CHOOSE g : g = [s \in SUBSET S |->
                       IF s = {} THEN 0
                       ELSE f[CHOOSE x \in s : TRUE] + g[s \ {CHOOSE x \in s : TRUE}]]
<1>1. SumOn(f, S) = iter[S]
  BY Zenon DEF SumOn, FoldFunctionOnSet, MapThenFoldSet
<1>2a. PICK g : AddsUp(g, f, SUBSET S)
  BY AddsExists, Zenon
<1>2. \E h : h = [s \in SUBSET S |->
                       IF s = {} THEN 0
                       ELSE f[CHOOSE x \in s : TRUE] + h[s \ {CHOOSE x \in s : TRUE}]]
  BY <1>2a, Zenon DEF AddsUp, OneOf
<1>3. AddsUp(iter, f, SUBSET S)
  BY <1>2, Zenon DEF AddsUp, OneOf
<1> QED
  BY <1>1, <1>3, Zenon

(* Only the terms matter, and on part of a sum the rest of f does not. *)
LEMMA SumSame ==
  ASSUME NEW f, NEW e, NEW S, IsFiniteSet(S), \A x \in S : f[x] = e[x]
  PROVE  SumOn(f, S) = SumOn(e, S)
<1>1. PICK g : AddsUp(g, f, SUBSET S) /\ SumOn(f, S) = g[S]
  BY SumOnAdds, Zenon
<1>2. PICK h : AddsUp(h, e, SUBSET S) /\ SumOn(e, S) = h[S]
  BY SumOnAdds, Zenon
<1>3. g[S] = h[S]
  BY <1>1, <1>2, AddsUnique
<1> QED
  BY <1>1, <1>2, <1>3

LEMMA SumEmpty ==
  ASSUME NEW f
  PROVE  SumOn(f, {}) = 0
<1>1. IsFiniteSet({})
  BY FS_EmptySet
<1>2. PICK g : AddsUp(g, f, SUBSET {}) /\ SumOn(f, {}) = g[{}]
  BY <1>1, SumOnAdds, Zenon
<1>3. {} \in SUBSET {}
  OBVIOUS
<1>4. g[{}] = 0
  BY <1>2, <1>3, Zenon DEF AddsUp
<1> QED
  BY <1>2, <1>4

LEMMA SumFirst ==
  ASSUME NEW f, NEW S, IsFiniteSet(S), S # {}
  PROVE  SumOn(f, S) = f[OneOf(S)] + SumOn(f, S \ {OneOf(S)})
<1>1. PICK g : AddsUp(g, f, SUBSET S) /\ SumOn(f, S) = g[S]
  BY SumOnAdds, Zenon
<1>2. PICK rest : rest = S \ {OneOf(S)}
  OBVIOUS
<1>3. rest \subseteq S /\ IsFiniteSet(rest)
  BY <1>2, FS_RemoveElement
<1>4. PICK h : AddsUp(h, f, SUBSET rest) /\ SumOn(f, rest) = h[rest]
  BY <1>3, SumOnAdds, Zenon
<1>5. g[rest] = h[rest]
  BY <1>1, <1>3, <1>4, AddsUnique
<1>6. S \in SUBSET S
  OBVIOUS
<1>7. g[S] = f[OneOf(S)] + g[rest]
  BY <1>1, <1>2, <1>6, Zenon DEF AddsUp
<1> QED
  BY <1>1, <1>2, <1>4, <1>5, <1>7

LEMMA SumNat ==
  ASSUME NEW f, NEW S, IsFiniteSet(S), \A x \in S : f[x] \in Nat
  PROVE  SumOn(f, S) \in Nat
<1> DEFINE bad == {n \in Nat : \E s \in SUBSET S : Cardinality(s) = n /\ SumOn(f, s) \notin Nat}
<1>1. bad = {}
  <2> SUFFICES ASSUME bad # {} PROVE FALSE
    OBVIOUS
  <2>1. PICK n : n = Min(bad)
    OBVIOUS
  <2>2. n \in bad /\ \A x \in bad : n <= x
    BY <2>1, NatMin
  <2>3. PICK s \in SUBSET S : Cardinality(s) = n /\ SumOn(f, s) \notin Nat
    BY <2>2
  <2>4. s # {} /\ IsFiniteSet(s)
    <3>1. IsFiniteSet(s)
      BY FS_Subset
    <3>2. ASSUME s = {} PROVE SumOn(f, s) = 0
      BY <3>2, SumEmpty
    <3> QED
      BY <2>3, <3>1, <3>2
  <2>5. PICK x \in s : x = OneOf(s)
    BY <2>4, OneOfIn
  <2>6. SumOn(f, s) = f[x] + SumOn(f, s \ {x})
    BY <2>4, <2>5, SumFirst
  <2>7. s \ {x} \in SUBSET S /\ Cardinality(s) \in Nat \ {0} /\ Cardinality(s \ {x}) = Cardinality(s) - 1
    BY OneLess
  <2>8. SumOn(f, s \ {x}) \notin Nat
    BY <2>3, <2>6
  <2>9. Cardinality(s) - 1 \in bad
    BY <2>7, <2>8
  <2> QED
    BY <2>2, <2>3, <2>7, <2>9
<1>2. Cardinality(S) \in Nat
  BY FS_CardinalityType
<1> QED
  BY <1>1, <1>2

(* Any term may be taken first. *)
LEMMA SumRemove ==
  ASSUME NEW f, NEW S, IsFiniteSet(S), \A x \in S : f[x] \in Nat, NEW x \in S
  PROVE  SumOn(f, S) = f[x] + SumOn(f, S \ {x})
<1> DEFINE bad == {n \in Nat : \E s \in SUBSET S : \E y \in s :
                     Cardinality(s) = n /\ SumOn(f, s) # f[y] + SumOn(f, s \ {y})}
<1>1. bad = {}
  <2> SUFFICES ASSUME bad # {} PROVE FALSE
    OBVIOUS
  <2>1. PICK n : n = Min(bad)
    OBVIOUS
  <2>2. n \in bad /\ \A z \in bad : n <= z
    BY <2>1, NatMin
  <2>s. PICK s \in SUBSET S : \E y \in s : Cardinality(s) = n /\ SumOn(f, s) # f[y] + SumOn(f, s \ {y})
    BY <2>2
  <2>3. PICK y \in s : Cardinality(s) = n /\ SumOn(f, s) # f[y] + SumOn(f, s \ {y})
    BY <2>s
  <2>4. s # {} /\ IsFiniteSet(s)
    BY FS_Subset
  <2>5. PICK z \in s : z = OneOf(s)
    BY <2>4, OneOfIn
  <2>6. SumOn(f, s) = f[z] + SumOn(f, s \ {z})
    BY <2>4, <2>5, SumFirst
  <2>7. /\ s \ {z} \in SUBSET S /\ Cardinality(s) \in Nat \ {0} /\ Cardinality(s \ {z}) = Cardinality(s) - 1
        /\ s \ {y} \in SUBSET S /\ Cardinality(s \ {y}) = Cardinality(s) - 1
    BY OneLess
  <2>8. y # z
    BY <2>3, <2>6
  <2>9. PICK a, b : a = s \ {z} /\ b = s \ {y}
    OBVIOUS
  <2>11. y \in a /\ z \in b /\ a \ {y} = b \ {z}
    BY <2>8, <2>9
  <2>c. /\ a \in SUBSET S /\ b \in SUBSET S
        /\ Cardinality(a) \notin bad /\ Cardinality(b) \notin bad
        /\ Cardinality(a) \in Nat /\ Cardinality(b) \in Nat
    <3>0. n \in Nat
      BY <2>2
    <3>1. \A w \in Nat : w < n => w \notin bad
      <4> HIDE DEF bad
      <4> QED
        BY <2>2, <3>0
    <3>2. /\ a \in SUBSET S /\ b \in SUBSET S
          /\ Cardinality(a) \in Nat /\ Cardinality(b) \in Nat /\ Cardinality(a) < n /\ Cardinality(b) < n
      BY <2>3, <2>7, <2>9
    <3> HIDE DEF bad
    <3> QED
      BY <3>1, <3>2
  <2>d. \A t \in SUBSET S : Cardinality(t) \in Nat /\ Cardinality(t) \notin bad =>
          \A u \in t : SumOn(f, t) = f[u] + SumOn(f, t \ {u})
    OBVIOUS
  <2>12. SumOn(f, a) = f[y] + SumOn(f, a \ {y}) /\ SumOn(f, b) = f[z] + SumOn(f, b \ {z})
    BY <2>c, <2>d, <2>11
  <2>13. IsFiniteSet(a \ {y}) /\ a \ {y} \subseteq S
    BY <2>9, FS_Subset
  <2>14. SumOn(f, a \ {y}) \in Nat /\ f[y] \in Nat /\ f[z] \in Nat
    BY <2>13, SumNat
  <2>15. SumOn(f, s) = f[z] + SumOn(f, a) /\ SumOn(f, s) # f[y] + SumOn(f, b)
    BY <2>3, <2>6, <2>9
  <2>16. SumOn(f, b \ {z}) = SumOn(f, a \ {y})
    BY <2>11
  <2>17. PICK i, j, k : i = SumOn(f, a) /\ j = SumOn(f, b) /\ k = SumOn(f, a \ {y})
    OBVIOUS
  <2> QED
    BY <2>12, <2>14, <2>15, <2>16, <2>17
<1>2. Cardinality(S) \in Nat
  BY FS_CardinalityType
<1> QED
  BY <1>1, <1>2

LEMMA SumConstant ==
  ASSUME NEW f, NEW S, IsFiniteSet(S), NEW v \in Nat, \A x \in S : f[x] = v
  PROVE  SumOn(f, S) = Cardinality(S) * v
<1> DEFINE bad == {n \in Nat : \E s \in SUBSET S : Cardinality(s) = n /\ SumOn(f, s) # n * v}
<1>1. bad = {}
  <2> SUFFICES ASSUME bad # {} PROVE FALSE
    OBVIOUS
  <2>1. PICK n : n = Min(bad)
    OBVIOUS
  <2>2. n \in bad /\ \A x \in bad : n <= x
    BY <2>1, NatMin
  <2>3. PICK s \in SUBSET S : Cardinality(s) = n /\ SumOn(f, s) # n * v
    BY <2>2
  <2>4. s # {} /\ IsFiniteSet(s)
    <3>1. SumOn(f, {}) = 0 /\ Cardinality({}) = 0 /\ 0 * v = 0
      BY SumEmpty, FS_EmptySet
    <3> QED
      BY <2>3, <3>1, FS_Subset
  <2>5. PICK x \in s : x = OneOf(s)
    BY <2>4, OneOfIn
  <2>6. SumOn(f, s) = v + SumOn(f, s \ {x})
    BY <2>4, <2>5, SumFirst
  <2>7. s \ {x} \in SUBSET S /\ Cardinality(s) \in Nat \ {0} /\ Cardinality(s \ {x}) = Cardinality(s) - 1
    BY OneLess
  <2>8. PICK m \in Nat : n = m + 1 /\ Cardinality(s \ {x}) = m
    BY <2>3, <2>7
  <2>9. m \notin bad
    BY <2>2, <2>8
  <2>10. SumOn(f, s \ {x}) = m * v
    BY <2>7, <2>8, <2>9
  <2>11. v + m * v = n * v
    BY <2>8
  <2> QED
    BY <2>3, <2>6, <2>10, <2>11
<1>2. Cardinality(S) \in Nat
  BY FS_CardinalityType
<1> QED
  BY <1>1, <1>2

(* One term grows. *)
LEMMA SumGrows ==
  ASSUME NEW f, NEW e, NEW S, IsFiniteSet(S), \A x \in S : f[x] \in Nat,
         NEW y \in S, NEW d \in Nat, e[y] = f[y] + d, \A x \in S \ {y} : e[x] = f[x]
  PROVE  SumOn(e, S) = SumOn(f, S) + d
<1>1. IsFiniteSet(S \ {y}) /\ S \ {y} \subseteq S
  BY FS_RemoveElement
<1>2. \A x \in S : e[x] \in Nat
  OBVIOUS
<1>3. SumOn(f, S) = f[y] + SumOn(f, S \ {y})
  BY SumRemove
<1>4. SumOn(e, S) = e[y] + SumOn(e, S \ {y})
  BY <1>2, SumRemove
<1>5. SumOn(e, S \ {y}) = SumOn(f, S \ {y})
  BY <1>1, SumSame
<1>6. SumOn(f, S \ {y}) \in Nat
  BY <1>1, SumNat
<1> QED
  BY <1>3, <1>4, <1>5, <1>6

(* The indices a function takes the values of S on are as many as the sum of
   those it takes each value on. *)
With(value, K, v) == {k \in K : value[k] = v}
Within(value, K, S) == {k \in K : value[k] \in S}

LEMMA SumCounts ==
  ASSUME NEW K, IsFiniteSet(K), NEW value, NEW hist, NEW S, IsFiniteSet(S),
         \A v \in S : hist[v] = Cardinality(With(value, K, v))
  PROVE  SumOn(hist, S) = Cardinality(Within(value, K, S))
<1> USE DEF With, Within
<1> DEFINE at(v) == With(value, K, v)
           within(s) == Within(value, K, s)
           bad == {n \in Nat : \E s \in SUBSET S :
                     Cardinality(s) = n /\ SumOn(hist, s) # Cardinality(within(s))}
<1>1. bad = {}
  <2> SUFFICES ASSUME bad # {} PROVE FALSE
    OBVIOUS
  <2>1. PICK n : n = Min(bad)
    OBVIOUS
  <2>2. n \in bad /\ \A x \in bad : n <= x
    BY <2>1, NatMin
  <2>3. PICK s \in SUBSET S : Cardinality(s) = n /\ SumOn(hist, s) # Cardinality(within(s))
    BY <2>2
  <2>4. s # {} /\ IsFiniteSet(s)
    <3>1. SumOn(hist, {}) = 0 /\ Cardinality({}) = 0 /\ within({}) = {}
      BY SumEmpty, FS_EmptySet
    <3> QED
      BY <2>3, <3>1, FS_Subset
  <2>5. PICK x \in s : x = OneOf(s)
    BY <2>4, OneOfIn
  <2>6. SumOn(hist, s) = hist[x] + SumOn(hist, s \ {x})
    BY <2>4, <2>5, SumFirst
  <2>7. s \ {x} \in SUBSET S /\ Cardinality(s) \in Nat \ {0} /\ Cardinality(s \ {x}) = Cardinality(s) - 1
    BY OneLess
  <2>r. PICK rest \in SUBSET S : rest = s \ {x}
    BY <2>7
  <2>n. n \in Nat
    BY <2>2
  <2>b. \A z \in Nat : z < n => z \notin bad
    <3> HIDE DEF bad
    <3> QED
      BY <2>2, <2>n
  <2>m. Cardinality(rest) \notin bad /\ Cardinality(rest) \in Nat
    <3>1. Cardinality(rest) \in Nat /\ Cardinality(rest) < n
      BY <2>3, <2>7, <2>r
    <3> HIDE DEF bad
    <3> QED
      BY <2>b, <3>1
  <2>8. SumOn(hist, s \ {x}) = Cardinality(within(s \ {x}))
    BY <2>m, <2>r
  <2>9. PICK a, b : a = at(x) /\ b = within(s \ {x})
    OBVIOUS
  <2>10. a \cup b = within(s) /\ a \cap b = {} /\ a \in SUBSET K /\ b \in SUBSET K
    BY <2>9
  <2>11. IsFiniteSet(a) /\ IsFiniteSet(b) /\ Cardinality({}) = 0
    BY <2>10, FS_Subset, FS_EmptySet
  <2>12. Cardinality(a \cup b) = Cardinality(a) + Cardinality(b) - Cardinality(a \cap b)
    BY <2>11, FS_Union
  <2>13. Cardinality(a) \in Nat /\ Cardinality(b) \in Nat
    BY <2>11, FS_CardinalityType
  <2>14. hist[x] = Cardinality(a)
    BY <2>9
  <2>i. Cardinality(a \cap b) = 0
    BY <2>10, <2>11
  <2>15. Cardinality(a \cup b) = Cardinality(a) + Cardinality(b)
    BY <2>i, <2>12, <2>13
  <2> QED
    BY <2>3, <2>6, <2>8, <2>9, <2>10, <2>14, <2>15
<1>2. Cardinality(S) \in Nat
  BY FS_CardinalityType
<1> QED
  BY <1>1, <1>2
=============================================================================
