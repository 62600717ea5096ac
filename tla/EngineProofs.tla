---------------------------- MODULE EngineProofs ----------------------------
(***************************************************************************)
(* Engine keeps its cap and its types, accounts for every wait, serves     *)
(* each transaction whole, and its callers see each run as one step; bus   *)
(* time, percentiles and windows are what the results say they are.  For   *)
(* every finite set of cores and channels, every set of ids and            *)
(* transactions and every queue depth.                                     *)
(***************************************************************************)
EXTENDS LoopProofs

-----------------------------------------------------------------------------
(***************************************************************************)
(* The cap.  What a stream counts as outstanding is all it has in flight.  *)
(***************************************************************************)
TagOf(r) == [txn_id |-> r.txn_id, complete |-> r.complete]

StreamCapped(s) ==
  /\ IsFiniteSet(cursors[s].outstanding) /\ Cardinality(cursors[s].outstanding) <= MaxOutstanding
  /\ s \in Serving => Cardinality(cursors[s].outstanding) < MaxOutstanding
  /\ \A k \in OverIn(s) : finished[k].complete > cursors[s].in_progress.issue_cycle =>
       TagOf(finished[k]) \in cursors[s].outstanding

ResultCapped(k) ==
  IsFiniteSet(InFlight(finished[k])) /\ Cardinality(InFlight(finished[k])) <= MaxOutstanding

CapInv ==
  /\ \A s \in DOMAIN cursors : StreamCapped(s)
  /\ \A k \in DOMAIN finished : ResultCapped(k)

(* The cap lets a transaction issue once the stream is below it. *)
LEMMA GateLetsBelow ==
  ASSUME NEW c \in Cursor, NEW issue \in Nat, IdGate(c) <= issue,
         IsFiniteSet(c.outstanding), Cardinality(c.outstanding) <= MaxOutstanding
  PROVE  /\ IsFiniteSet(StillOutstanding(c.outstanding, issue))
         /\ Cardinality(StillOutstanding(c.outstanding, issue)) < MaxOutstanding
<1>1. PICK out, left : out = c.outstanding /\ left = StillOutstanding(c.outstanding, issue)
  OBVIOUS
<1>2. /\ out \in SUBSET [txn_id : Nat, complete : Nat] /\ MaxOutstanding \in Nat \ {0}
      /\ left = {o \in out : o.complete > issue}
  BY <1>1, FrontEndAssumption DEF Cursor, StillOutstanding
<1>3. /\ IsFiniteSet(out) /\ Cardinality(out) <= MaxOutstanding /\ Cardinality(out) \in Nat
  BY <1>1, FS_CardinalityType
<1>4. left \in SUBSET out
  BY <1>2
<1>5. /\ IsFiniteSet(left) /\ Cardinality(left) <= Cardinality(out)
      /\ Cardinality(out) = Cardinality(left) => out = left
  BY <1>3, <1>4, FS_Subset
<1>6. Cardinality(left) \in Nat
  BY <1>5, FS_CardinalityType
<1>7. CASE Cardinality(out) < MaxOutstanding
  BY <1>1, <1>2, <1>3, <1>5, <1>6, <1>7
<1>8. CASE ~ (Cardinality(out) < MaxOutstanding)
  <2>1. Cardinality(out) = MaxOutstanding
    BY <1>2, <1>3, <1>8
  <2>2. PICK ends : ends = {o.complete : o \in out}
    OBVIOUS
  <2>3. out # {}
    BY <1>2, <2>1, FS_EmptySet
  <2>4. ends \in SUBSET Nat /\ ends # {}
    BY <1>2, <2>2, <2>3
  <2>5. Min(ends) \in ends
    BY <2>4, NatMin
  <2>6. IdGate(c) = Min(ends)
    BY <1>1, <1>2, <2>1, <2>2 DEF IdGate
  <2>7. PICK o \in out : o.complete <= issue
    BY <2>2, <2>5, <2>6
  <2>8. o.complete \in Nat
    BY <1>2
  <2>9. o \notin left
    BY <1>2, <2>7, <2>8
  <2>10. out # left
    BY <2>9
  <2> QED
    BY <1>1, <1>3, <1>5, <1>6, <2>1, <2>10
<1> QED
  BY <1>7, <1>8

LEMMA StreamCappedFrame ==
  ASSUME NEW s, StreamCapped(s), OverIn(s)' = OverIn(s), finished' = finished, Serving' = Serving,
         cursors'[s].outstanding = cursors[s].outstanding,
         cursors'[s].in_progress.issue_cycle = cursors[s].in_progress.issue_cycle
  PROVE  StreamCapped(s)'
BY DEF StreamCapped, TagOf

LEMMA ResultCappedFrame ==
  ASSUME CapInv, finished' = finished
  PROVE  \A k \in DOMAIN finished' : ResultCapped(k)'
BY DEF CapInv, ResultCapped, InFlight

LEMMA CapInvPushes ==
  ASSUME LoopInv, IdInv, CapInv, NEW s \in Streams, NEW entry \in Entry, StepPushes(s, entry)
  PROVE  CapInv'
<1>1. /\ DOMAIN cursors' = DOMAIN cursors \cup {s} /\ Serving' = Serving /\ finished' = finished
      /\ SameTimes(CursorBefore(s), cursors'[s])
      /\ \A t \in DOMAIN cursors \ {s} : cursors'[t] = cursors[t]
  BY DEF StepPushes
<1>2. \A t : OverIn(t)' = OverIn(t)
  BY <1>1 DEF OverIn
<1>3. ASSUME NEW t \in DOMAIN cursors PROVE StreamCapped(t)'
  <2>1. /\ cursors'[t].outstanding = cursors[t].outstanding
        /\ cursors'[t].in_progress.issue_cycle = cursors[t].in_progress.issue_cycle
    BY <1>1 DEF SameTimes, CursorBefore
  <2>2. StreamCapped(t)
    BY DEF CapInv
  <2> QED
    BY <1>1, <1>2, <2>1, <2>2, StreamCappedFrame
<1>4. ASSUME s \notin DOMAIN cursors PROVE StreamCapped(s)'
  <2>1. cursors'[s].outstanding = {}
    BY <1>1, <1>4 DEF SameTimes, CursorBefore, NewCursor
  <2>2. OverIn(s)' = {}
    BY <1>2, <1>4 DEF IdInv, OverIn
  <2>3. IsFiniteSet({}) /\ Cardinality({}) = 0 /\ MaxOutstanding \in Nat \ {0}
    BY FS_EmptySet, FrontEndAssumption
  <2>4. 0 <= MaxOutstanding /\ 0 < MaxOutstanding
    BY <2>3
  <2> QED
    BY <2>1, <2>2, <2>3, <2>4 DEF StreamCapped
<1>5. \A t \in DOMAIN cursors' : StreamCapped(t)'
  BY <1>1, <1>3, <1>4
<1>6. \A k \in DOMAIN finished' : ResultCapped(k)'
  BY <1>1, ResultCappedFrame
<1> QED
  BY <1>5, <1>6 DEF CapInv

LEMMA CapInvIssues ==
  ASSUME LoopInv, IdInv, TimeInv, CapInv, NEW s \in DOMAIN cursors, NEW issue \in Nat, StepIssues(s, issue)
  PROVE  CapInv'
<1>1. /\ DOMAIN cursors' = DOMAIN cursors /\ Serving' = Serving \cup {s} /\ finished' = finished
      /\ port_free[CoreOf(s)] <= issue /\ IdGate(cursors[s]) <= issue
      /\ cursors'[s].outstanding = StillOutstanding(cursors[s].outstanding, issue)
      /\ cursors'[s].in_progress.issue_cycle = issue
      /\ \A t \in DOMAIN cursors \ {s} : cursors'[t] = cursors[t]
  BY DEF StepIssues
<1>2. \A t : OverIn(t)' = OverIn(t)
  BY <1>1 DEF OverIn
<1>3. ASSUME NEW t \in DOMAIN cursors \ {s} PROVE StreamCapped(t)'
  <2>1. StreamCapped(t)
    BY DEF CapInv
  <2> QED
    BY <1>1, <1>2, <2>1 DEF StreamCapped, TagOf
<1>4. StreamCapped(s)'
  <2>1. PICK c : c = cursors[s]
    OBVIOUS
  <2>2. c \in Cursor /\ StreamCapped(s)
    BY <2>1, StreamFacts DEF CapInv
  <2>3. /\ IsFiniteSet(c.outstanding) /\ Cardinality(c.outstanding) <= MaxOutstanding
        /\ IdGate(c) <= issue
    BY <1>1, <2>1, <2>2 DEF StreamCapped
  <2>4. PICK left : left = StillOutstanding(c.outstanding, issue)
    OBVIOUS
  <2>5. IsFiniteSet(left) /\ Cardinality(left) < MaxOutstanding
    BY <2>2, <2>3, <2>4, GateLetsBelow
  <2>6. Cardinality(left) \in Nat /\ MaxOutstanding \in Nat
    BY <2>5, FS_CardinalityType, FrontEndAssumption
  <2>7. Cardinality(left) <= MaxOutstanding
    BY <2>5, <2>6
  <2>8. ASSUME NEW k \in OverIn(s), finished[k].complete > issue PROVE TagOf(finished[k]) \in left
    <3>1. PICK r : r = finished[k]
      OBVIOUS
    <3>2. r.complete \in Nat
      BY <3>1, ResultFacts DEF OverIn
    <3>3. c.in_progress.issue_cycle <= port_free[CoreOf(s)]
      BY <2>1 DEF TimeInv, StreamTimes
    <3>4. c.in_progress.issue_cycle \in Nat /\ port_free[CoreOf(s)] \in Nat
      BY <2>2, StreamFacts DEF Cursor, InProgress
    <3>5. r.complete > c.in_progress.issue_cycle
      BY <1>1, <2>8, <3>1, <3>2, <3>3, <3>4
    <3>6. TagOf(r) \in c.outstanding
      BY <2>1, <2>2, <3>1, <3>5 DEF StreamCapped
    <3>7. TagOf(r).complete = r.complete
      BY DEF TagOf
    <3> QED
      BY <2>4, <2>8, <3>1, <3>6, <3>7 DEF StillOutstanding
  <2>9. cursors'[s].outstanding = left
    BY <1>1, <2>1, <2>4
  <2> QED
    BY <1>1, <1>2, <2>5, <2>7, <2>8, <2>9 DEF StreamCapped, TagOf
<1>5. \A t \in DOMAIN cursors' : StreamCapped(t)'
  BY <1>1, <1>3, <1>4
<1>6. \A k \in DOMAIN finished' : ResultCapped(k)'
  BY <1>1, ResultCappedFrame
<1> QED
  BY <1>5, <1>6 DEF CapInv

(* The stream of a transaction that ends stays within the cap: it was below it. *)
LEMMA StreamCappedFinishes ==
  ASSUME LoopInv, IdInv, CapInv, NEW s \in DOMAIN cursors, NEW complete \in Nat, NEW gate \in Nat,
         NEW ip, NEW opened, StepFinishes(s, ip, complete, gate, opened),
         NEW t \in DOMAIN cursors
  PROVE  StreamCapped(t)'
<1>1. PICK n \in Nat, q \in Result : Reports(s, ip, complete, n, q)
  BY FinishedAppend
<1>2. /\ \A k \in DOMAIN finished : finished'[k] = finished[k]
      /\ finished'[n + 1] = q /\ q.txn_id = ip.txn_id /\ q.complete = complete
      /\ OverIn(s)' = OverIn(s) \cup {n + 1}
      /\ \A u : u # s => OverIn(u)' = OverIn(u)
  BY <1>1 DEF Reports
<1>3. \A u : OverIn(u) \subseteq DOMAIN finished
  BY DEF OverIn
<1>4. /\ s \in Serving /\ Serving' = Serving \ {s}
      /\ ip \in InProgress /\ cursors[s].pending # <<>>
      /\ ip.issue_cycle = cursors[s].in_progress.issue_cycle
      /\ cursors'[s] = Finished(cursors[s], ip, complete)
      /\ \A u \in DOMAIN cursors \ {s} : SameTimes(cursors[u], cursors'[u])
  BY DEF StepFinishes
<1>5. StreamCapped(t)
  BY DEF CapInv
<1>6. CASE t # s
  <2>1. /\ cursors'[t].outstanding = cursors[t].outstanding
        /\ cursors'[t].in_progress = cursors[t].in_progress
    BY <1>4, <1>6 DEF SameTimes
  <2>2. \A k \in OverIn(t) : finished'[k] = finished[k]
    BY <1>2, <1>3
  <2>3. OverIn(t)' = OverIn(t) /\ (t \in Serving' => t \in Serving)
    BY <1>2, <1>4, <1>6
  <2> QED
    BY <1>5, <2>1, <2>2, <2>3 DEF StreamCapped
<1>7. CASE t = s
  <2>1. PICK out, tag : out = cursors[s].outstanding /\ tag = [txn_id |-> ip.txn_id, complete |-> complete]
    OBVIOUS
  <2>2. cursors'[s].outstanding = out \cup {tag} /\ cursors'[s].in_progress = ip
    BY <1>4, <2>1, StreamFacts, FinishedTyped
  <2>3. /\ IsFiniteSet(out) /\ Cardinality(out) < MaxOutstanding
        /\ \A k \in OverIn(s) : finished[k].complete > ip.issue_cycle => TagOf(finished[k]) \in out
    BY <1>4, <1>5, <1>7, <2>1 DEF StreamCapped
  <2>4. /\ IsFiniteSet(out \cup {tag}) /\ Cardinality(out) \in Nat
        /\ Cardinality(out \cup {tag}) = IF tag \in out THEN Cardinality(out) ELSE Cardinality(out) + 1
    BY <2>3, FS_AddElement, FS_CardinalityType
  <2>5. Cardinality(out \cup {tag}) <= MaxOutstanding
    BY <2>3, <2>4, FrontEndAssumption
  <2>6. TagOf(q) = tag
    BY <1>2, <2>1 DEF TagOf
  <2>7. \A k \in OverIn(s)' : finished'[k].complete > ip.issue_cycle => TagOf(finished'[k]) \in out \cup {tag}
    BY <1>2, <1>3, <2>3, <2>6
  <2>8. s \notin Serving'
    BY <1>4
  <2>9. StreamCapped(s)' <=>
          /\ IsFiniteSet(cursors'[s].outstanding) /\ Cardinality(cursors'[s].outstanding) <= MaxOutstanding
          /\ s \in Serving' => Cardinality(cursors'[s].outstanding) < MaxOutstanding
          /\ \A k \in OverIn(s)' : finished'[k].complete > cursors'[s].in_progress.issue_cycle =>
               TagOf(finished'[k]) \in cursors'[s].outstanding
    BY DEF StreamCapped, TagOf
  <2> QED
    BY <1>7, <2>2, <2>4, <2>5, <2>7, <2>8, <2>9
<1> QED
  BY <1>6, <1>7

(* Each transaction in flight with r has a tag of its own in the stream's memory. *)
TaggedApart(r, s) ==
  \E flight, out, f :
    /\ flight = InFlight(r) /\ out = cursors[s].outstanding
    /\ IsFiniteSet(out) /\ Cardinality(out) <= MaxOutstanding
    /\ f \in Injection(flight, out) /\ \A k \in flight : f[k] = TagOf(finished[k])

(* What is in flight with what ends is counted in its stream, each apart. *)
LEMMA InFlightTagged ==
  ASSUME LoopInv, SegInv, IdInv, TimeInv, CapInv, IdInv',
         NEW s \in DOMAIN cursors, NEW complete \in Nat, NEW gate \in Nat,
         NEW ip, NEW opened, StepFinishes(s, ip, complete, gate, opened),
         NEW q, q.core = CoreOf(s), q.axi = AxiOf(s), q.issue = ip.issue_cycle
  PROVE  TaggedApart(q, s)'
<1>1. PICK n \in Nat, r \in Result : Reports(s, ip, complete, n, r)
  BY FinishedAppend
<1>2. /\ DOMAIN finished' = DOMAIN finished \cup {n + 1}
      /\ \A k \in DOMAIN finished : finished'[k] = finished[k]
      /\ OverIn(s)' = OverIn(s) \cup {n + 1}
  BY <1>1 DEF Reports
<1>3. PICK flight, over, out :
        /\ flight = InFlight(q)' /\ over = OverIn(s)' /\ out = cursors'[s].outstanding
  OBVIOUS
<1>4. flight = {k \in DOMAIN finished' :
                  /\ finished'[k].core = CoreOf(s) /\ finished'[k].axi = AxiOf(s)
                  /\ finished'[k].issue <= ip.issue_cycle /\ ip.issue_cycle < finished'[k].complete}
  BY <1>3 DEF InFlight
<1>5. \A k \in flight : k \in over
  <2> SUFFICES ASSUME NEW k \in flight, k \in DOMAIN finished PROVE k \in OverIn(s)
    BY <1>2, <1>3, <1>4
  <2>1. PICK x : x = finished[k] /\ x = finished'[k]
    BY <1>2
  <2>2. x.core = CoreOf(s) /\ x.axi = AxiOf(s) /\ ip.issue_cycle < x.complete
    BY <1>4, <2>1
  <2>3. x.segment <= SegmentOf(s) /\ (x.segment < SegmentOf(s) => x.complete <= ip.issue_cycle)
    BY <2>1, <2>2, GateCovers
  <2>4. x.segment \in Nat /\ SegmentOf(s) \in Nat /\ x.complete \in Nat /\ ip.issue_cycle \in Nat
    BY <2>1, ResultFacts, StreamFacts, EndTimes
  <2>5. x.segment = SegmentOf(s)
    BY <2>2, <2>3, <2>4
  <2>6. StreamOf(x) = s
    BY <2>2, <2>5, StreamFacts DEF StreamOf
  <2> QED
    BY <2>1, <2>6 DEF OverIn
<1>6. StreamCapped(s)'
  BY StreamCappedFinishes
<1>7. /\ IsFiniteSet(out) /\ Cardinality(out) <= MaxOutstanding
      /\ \A k \in flight : TagOf(finished'[k]) \in out
  <2>1. cursors'[s].in_progress.issue_cycle = ip.issue_cycle
    <3>1. cursors[s].pending # <<>> /\ ip \in InProgress /\ cursors'[s] = Finished(cursors[s], ip, complete)
      BY DEF StepFinishes
    <3> QED
      BY <3>1, StreamFacts, FinishedTyped
  <2>2. /\ IsFiniteSet(cursors'[s].outstanding) /\ Cardinality(cursors'[s].outstanding) <= MaxOutstanding
        /\ \A k \in OverIn(s)' : finished'[k].complete > cursors'[s].in_progress.issue_cycle =>
             TagOf(finished'[k]) \in cursors'[s].outstanding
    BY <1>6 DEF StreamCapped, TagOf
  <2>3. \A k \in flight : finished'[k].complete > ip.issue_cycle
    <3> SUFFICES ASSUME NEW k \in flight PROVE finished'[k].complete > ip.issue_cycle
      OBVIOUS
    <3>1. ip.issue_cycle < finished'[k].complete
      BY <1>4
    <3> QED
      BY <3>1
  <2> QED
    BY <1>3, <1>5, <2>1, <2>2, <2>3
<1>8. \A j, k \in flight : TagOf(finished'[j]) = TagOf(finished'[k]) => j = k
  <2> SUFFICES ASSUME NEW j \in flight, NEW k \in flight, TagOf(finished'[j]) = TagOf(finished'[k])
               PROVE  j = k
    OBVIOUS
  <2>1. finished'[j].txn_id = finished'[k].txn_id
    BY DEF TagOf
  <2>2. j \in OverIn(s)' /\ k \in OverIn(s)'
    BY <1>3, <1>5
  <2>3. s \in DOMAIN cursors'
    BY DEF StepFinishes
  <2>4. \A x, y \in OverIn(s)' : x < y => finished'[x].txn_id < finished'[y].txn_id
    BY <2>3 DEF IdInv
  <2>5. finished'[j].txn_id \in Nat
    <3>1. finished'[j].txn_id \in HeldIds(s)'
      BY <2>2 DEF HeldIds
    <3>2. HeldIds(s)' \subseteq 1 .. NumPushed'
      BY <2>3 DEF IdInv
    <3> QED
      BY <3>1, <3>2
  <2>6. j \in Nat /\ k \in Nat
    <3>1. DOMAIN finished' \subseteq Nat
      BY <1>1 DEF Reports
    <3> QED
      BY <1>4, <3>1
  <2>7. ~ (j < k) /\ ~ (k < j)
    BY <2>1, <2>2, <2>4, <2>5
  <2> QED
    BY <2>6, <2>7
<1>9. PICK f : f = [k \in flight |-> TagOf(finished'[k])]
  OBVIOUS
<1>10. f \in Injection(flight, out)
  BY <1>7, <1>8, <1>9 DEF Injection, IsInjective
<1>11. \E live, memory, tags :
         /\ live = InFlight(q)' /\ memory = cursors'[s].outstanding
         /\ IsFiniteSet(memory) /\ Cardinality(memory) <= MaxOutstanding
         /\ tags \in Injection(live, memory) /\ \A k \in live : tags[k] = TagOf(finished'[k])
  BY <1>3, <1>7, <1>9, <1>10
<1> QED
  BY <1>11 DEF TaggedApart

LEMMA InFlightCounted ==
  ASSUME LoopInv, SegInv, IdInv, TimeInv, CapInv, IdInv',
         NEW s \in DOMAIN cursors, NEW complete \in Nat, NEW gate \in Nat,
         NEW ip, NEW opened, StepFinishes(s, ip, complete, gate, opened),
         NEW q, q.core = CoreOf(s), q.axi = AxiOf(s), q.issue = ip.issue_cycle
  PROVE  IsFiniteSet(InFlight(q)') /\ Cardinality(InFlight(q)') <= MaxOutstanding
<1>0. TaggedApart(q, s)'
  BY InFlightTagged
<1>1. PICK flight, out, f :
        /\ flight = InFlight(q)' /\ out = cursors'[s].outstanding
        /\ IsFiniteSet(out) /\ Cardinality(out) <= MaxOutstanding
        /\ f \in Injection(flight, out)
  BY <1>0 DEF TaggedApart
<1>2. IsFiniteSet(flight) /\ Cardinality(flight) <= Cardinality(out)
  BY <1>1, FS_Injection
<1>3. Cardinality(flight) \in Nat /\ Cardinality(out) \in Nat /\ MaxOutstanding \in Nat
  BY <1>1, <1>2, FS_CardinalityType, FrontEndAssumption
<1> QED
  BY <1>1, <1>2, <1>3

LEMMA CapInvFinishes ==
  ASSUME LoopInv, SegInv, IdInv, TimeInv, CapInv, IdInv',
         NEW s \in DOMAIN cursors, NEW complete \in Nat, NEW gate \in Nat,
         NEW ip, NEW opened, StepFinishes(s, ip, complete, gate, opened)
  PROVE  CapInv'
<1>1. PICK n \in Nat, q \in Result : Reports(s, ip, complete, n, q)
  BY FinishedAppend
<1>2. /\ DOMAIN finished' = DOMAIN finished \cup {n + 1}
      /\ \A k \in DOMAIN finished : finished'[k] = finished[k]
      /\ n + 1 \notin DOMAIN finished
      /\ finished'[n + 1] = q
      /\ q.core = CoreOf(s) /\ q.axi = AxiOf(s) /\ q.issue = ip.issue_cycle
  BY <1>1 DEF Reports
<1>3. ASSUME NEW k \in DOMAIN finished PROVE ResultCapped(k)'
  <2>1. PICK r : r = finished[k] /\ r = finished'[k]
    BY <1>2
  <2>2. ~ (q.core = r.core /\ q.axi = r.axi /\ q.issue <= r.issue)
    <3> SUFFICES ASSUME q.core = r.core, q.axi = r.axi PROVE ~ (q.issue <= r.issue)
      OBVIOUS
    <3>1. SameId(r, s)
      BY <1>2 DEF SameId
    <3>2. r.issue < ip.issue_cycle /\ ip.issue_cycle \in Nat
      BY <2>1, <3>1, EndTimes
    <3>3. r.issue \in Nat
      BY <2>1, ResultFacts
    <3> QED
      BY <1>2, <3>2, <3>3
  <2>3. InFlight(r)' = InFlight(r)
    BY <1>2, <2>2 DEF InFlight
  <2>4. ResultCapped(k)
    BY DEF CapInv
  <2>5. ResultCapped(k)' <=> IsFiniteSet(InFlight(r)') /\ Cardinality(InFlight(r)') <= MaxOutstanding
    BY <2>1 DEF ResultCapped, InFlight
  <2> QED
    BY <2>1, <2>3, <2>4, <2>5 DEF ResultCapped
<1>4. ResultCapped(n + 1)'
  <2>1. IsFiniteSet(InFlight(q)') /\ Cardinality(InFlight(q)') <= MaxOutstanding
    BY <1>2, InFlightCounted
  <2>2. ResultCapped(n + 1)' <=> IsFiniteSet(InFlight(q)') /\ Cardinality(InFlight(q)') <= MaxOutstanding
    BY <1>2 DEF ResultCapped, InFlight
  <2> QED
    BY <2>1, <2>2
<1>5. \A k \in DOMAIN finished' : ResultCapped(k)'
  BY <1>2, <1>3, <1>4
<1>6. \A t \in DOMAIN cursors' : StreamCapped(t)'
  <2>1. DOMAIN cursors' = DOMAIN cursors
    BY DEF StepFinishes
  <2> QED
    BY <2>1, StreamCappedFinishes
<1> QED
  BY <1>5, <1>6 DEF CapInv

LEMMA CapInvStep ==
  ASSUME LoopInv, SegInv, IdInv, TimeInv, CapInv, [Next]_vars
  PROVE  CapInv'
<1>1. ASSUME finished' = finished, Serving' = Serving, DOMAIN cursors' = DOMAIN cursors,
             \A s \in DOMAIN cursors :
               /\ cursors'[s].outstanding = cursors[s].outstanding
               /\ cursors'[s].in_progress.issue_cycle = cursors[s].in_progress.issue_cycle
      PROVE  CapInv'
  <2>1. \A s : OverIn(s)' = OverIn(s)
    BY <1>1 DEF OverIn
  <2>2. \A s \in DOMAIN cursors' : StreamCapped(s)'
    BY <1>1, <2>1, StreamCappedFrame DEF CapInv
  <2>3. \A k \in DOMAIN finished' : ResultCapped(k)'
    BY <1>1, ResultCappedFrame
  <2> QED
    BY <2>2, <2>3 DEF CapInv
<1>2. ASSUME NEW core \in Cores, StepBars(core) PROVE CapInv'
  BY <1>1, <1>2 DEF StepBars, PushBarrier
<1>3. ASSUME StepSteady PROVE CapInv'
  BY <1>1, <1>3 DEF StepSteady, Advances
<1>4. IdInv'
  BY IdInvStep
<1> QED
  BY <1>2, <1>3, <1>4, StepKinds, CapInvPushes, CapInvIssues, CapInvFinishes

LEMMA InitCapped == Init => CapInv
<1> SUFFICES ASSUME Init PROVE CapInv
  OBVIOUS
<1>1. DOMAIN finished = {} /\ DOMAIN cursors = {}
  BY DEF Init, FrontInit
<1> QED
  BY <1>1 DEF CapInv

LEMMA AlwaysCapped == Spec => [](OrderInv /\ TimeInv /\ CapInv)
<1>1. OrderInv /\ TimeInv /\ CapInv /\ [Next]_vars => (OrderInv /\ TimeInv /\ CapInv)'
  BY LoopStep, SegInvStep, IdInvStep, PlaceInvStep, TimeInvStep, CapInvStep DEF OrderInv
<1>2. Init => OrderInv /\ TimeInv /\ CapInv
  BY InitOrder, InitTimes, InitCapped
<1> QED
  BY <1>1, <1>2, PTL DEF Spec

(* No stream ever has more than max_outstanding_per_id transactions in flight,
   whatever came back early and whatever barriers and runs lie between
   (OutstandingCapped; Engine::next_issue_cycle, finalize_in_progress_txn). *)
THEOREM StreamsStayUnderTheirCap == Spec => []OutstandingCapped
<1>1. CapInv => OutstandingCapped
  BY DEF CapInv, ResultCapped, OutstandingCapped
<1> QED
  BY <1>1, AlwaysCapped, PTL

-----------------------------------------------------------------------------
(***************************************************************************)
(* The calls and the transactions.                                         *)
(***************************************************************************)
(* Transactions are numbered from 1 in the order of their calls, and the stream
   that holds one is that of its call. *)
CallInv ==
  /\ \A i, j \in Pushed : i < j => calls[i].txn_id < calls[j].txn_id
  /\ {calls[i].txn_id : i \in Pushed} = 1 .. NumPushed
  /\ \A s \in DOMAIN cursors : \A i \in Pushed :
       calls[i].txn_id \in HeldIds(s) => CoreOf(s) = calls[i].core /\ AxiOf(s) = calls[i].axi

(* The number of results when the last run returned, and of those since. *)
Seen == summary.total_txns
Unseen == Len(finished) - Seen

(* Between runs everything over has been seen; what has been seen are the first
   transactions pushed, and what has not is at the end of the results. *)
SeenInv ==
  /\ totals.txns = Len(finished)
  /\ Seen \in 0 .. Len(finished) /\ Unseen <= Len(results)
  /\ ~ running => Seen = Len(finished)
  /\ \A k \in 1 .. Unseen : results[Len(results) - Unseen + k] = finished[Seen + k]
  /\ \A k \in DOMAIN results : \E j \in DOMAIN finished : results[k] = finished[j]
  /\ {finished[k].txn_id : k \in 1 .. Seen} = 1 .. Seen

(* A pushed transaction has the last number. *)
LEMMA CallInvPushes ==
  ASSUME LoopInv, IdInv, CallInv, NEW s \in Streams, NEW entry \in Entry, StepPushes(s, entry)
  PROVE  CallInv'
<1>1. PICK n \in Nat : n = NumPushed /\ NumPushed' = n + 1 /\ entry.txn_id = n + 1
  BY HeldPushes
<1>2. /\ DOMAIN cursors' = DOMAIN cursors \cup {s}
      /\ \A t \in DOMAIN cursors \ {s} : HeldIds(t)' = HeldIds(t)
      /\ HeldIds(s)' = IF s \in DOMAIN cursors THEN HeldIds(s) \cup {n + 1} ELSE {n + 1}
  BY <1>1, HeldPushes
<1>3. PICK call \in CallRecord : call = [kind |-> "txn", core |-> CoreOf(s), axi |-> AxiOf(s),
                                         txn_id |-> n + 1, txn |-> entry.txn]
                                 /\ calls' = Append(calls, call)
  BY <1>1 DEF CallRecord, Entry, Streams, CoreOf, AxiOf, StepPushes
<1>4. call.kind = "txn" /\ call.core = CoreOf(s) /\ call.axi = AxiOf(s) /\ call.txn_id = n + 1
  BY <1>3
<1>5. PICK m : m = Len(calls) + 1
  OBVIOUS
<1>6. /\ m \notin DOMAIN calls /\ \A i \in DOMAIN calls : calls'[i] = calls[i] /\ i < m
      /\ calls'[m] = call /\ Pushed' = Pushed \cup {m}
  BY <1>3, <1>4, <1>5, PushedAppend
<1>7. DOMAIN calls \subseteq Nat /\ m \in Nat /\ Pushed \subseteq DOMAIN calls
  BY <1>5, LenProperties DEF LoopInv, LoopTypeOK, Pushed
<1>8. {calls[i].txn_id : i \in Pushed} = 1 .. n
  BY <1>1 DEF CallInv
<1>9. \A i \in Pushed : calls'[i] = calls[i] /\ calls[i].txn_id \in 1 .. n /\ i < m
  BY <1>6, <1>7, <1>8
<1>10. \A i, j \in Pushed' : i < j => calls'[i].txn_id < calls'[j].txn_id
  <2> SUFFICES ASSUME NEW i \in Pushed', NEW j \in Pushed', i < j
               PROVE  calls'[i].txn_id < calls'[j].txn_id
    OBVIOUS
  <2>1. i \in Pushed
    BY <1>6, <1>7, <1>9
  <2>2. CASE j \in Pushed
    BY <1>9, <2>1, <2>2 DEF CallInv
  <2>3. CASE j = m
    BY <1>4, <1>6, <1>9, <2>1, <2>3
  <2> QED
    BY <1>6, <2>2, <2>3
<1>11. {calls'[i].txn_id : i \in Pushed'} = 1 .. n + 1
  <2>1. {calls'[i].txn_id : i \in Pushed'} = {calls[i].txn_id : i \in Pushed} \cup {n + 1}
    BY <1>4, <1>6, <1>9
  <2> QED
    BY <1>8, <2>1
<1>12. ASSUME NEW t \in DOMAIN cursors', NEW i \in Pushed', calls'[i].txn_id \in HeldIds(t)'
       PROVE  CoreOf(t) = calls'[i].core /\ AxiOf(t) = calls'[i].axi
  <2>1. CASE i = m
    <3>1. t = s
      <4>1. ASSUME t # s PROVE FALSE
        <5>1. HeldIds(t) \subseteq 1 .. n
          BY <1>1, <1>2, <4>1 DEF IdInv
        <5> QED
          BY <1>2, <1>4, <1>6, <1>12, <2>1, <4>1, <5>1
      <4> QED
        BY <4>1
    <3> QED
      BY <1>4, <1>6, <2>1, <3>1
  <2>2. CASE i \in Pushed
    <3>1. t \in DOMAIN cursors /\ calls[i].txn_id \in HeldIds(t)
      BY <1>2, <1>9, <1>12, <2>2
    <3> QED
      BY <1>9, <2>2, <3>1 DEF CallInv
  <2> QED
    BY <1>6, <2>1, <2>2
<1> QED
  BY <1>1, <1>10, <1>11, <1>12 DEF CallInv

(* A step that moves no transaction. *)
LEMMA CallFrame ==
  ASSUME CallInv, Pushed' = Pushed, \A i \in Pushed : calls'[i] = calls[i],
         DOMAIN cursors' = DOMAIN cursors, \A s \in DOMAIN cursors : HeldIds(s)' = HeldIds(s)
  PROVE  CallInv'
<1>1. NumPushed' = NumPushed
  BY DEF NumPushed
<1>2. {calls'[i].txn_id : i \in Pushed'} = {calls[i].txn_id : i \in Pushed}
  OBVIOUS
<1> QED
  BY <1>1, <1>2 DEF CallInv

(* Neither a barrier nor a pruning touches the calls made before. *)
LEMMA PushedSame ==
  ASSUME LoopInv,
         \/ calls' = calls
         \/ \E id \in Nat : calls' = Append(calls, [kind |-> "prune", txn_id |-> id])
         \/ \E core \in Cores : calls' = Append(calls, [kind |-> "barrier", core |-> core])
  PROVE  Pushed' = Pushed /\ \A i \in Pushed : calls'[i] = calls[i]
<1>1. ASSUME NEW call \in CallRecord, calls' = Append(calls, call), call.kind # "txn"
      PROVE  Pushed' = Pushed /\ \A i \in Pushed : calls'[i] = calls[i]
  BY <1>1, PushedAppend DEF Pushed
<1>2. \A id \in Nat : /\ [kind |-> "prune", txn_id |-> id] \in CallRecord
                      /\ [kind |-> "prune", txn_id |-> id].kind # "txn"
  BY DEF CallRecord
<1>3. \A core \in Cores : /\ [kind |-> "barrier", core |-> core] \in CallRecord
                          /\ [kind |-> "barrier", core |-> core].kind # "txn"
  BY DEF CallRecord
<1>4. calls' = calls => Pushed' = Pushed /\ \A i \in Pushed : calls'[i] = calls[i]
  BY DEF Pushed
<1> QED
  BY <1>1, <1>2, <1>3, <1>4

LEMMA CallInvStep ==
  ASSUME LoopInv, IdInv, CallInv, [Next]_vars
  PROVE  CallInv'
<1>1. ASSUME DOMAIN cursors' = DOMAIN cursors, finished' = finished,
             \A s \in DOMAIN cursors : cursors'[s].pending = cursors[s].pending,
             \/ calls' = calls
             \/ \E id \in Nat : calls' = Append(calls, [kind |-> "prune", txn_id |-> id])
             \/ \E core \in Cores : calls' = Append(calls, [kind |-> "barrier", core |-> core])
      PROVE  CallInv'
  <2>1. \A s \in DOMAIN cursors : HeldIds(s)' = HeldIds(s)
    BY <1>1 DEF HeldIds, OverIn
  <2>2. Pushed' = Pushed /\ \A i \in Pushed : calls'[i] = calls[i]
    BY <1>1, PushedSame
  <2> QED
    BY <1>1, <2>1, <2>2, CallFrame
<1>2. ASSUME NEW core \in Cores, StepBars(core) PROVE CallInv'
  <2>1. cursors' = cursors /\ finished' = finished /\ calls' = Append(calls, [kind |-> "barrier", core |-> core])
    BY <1>2 DEF StepBars, PushBarrier
  <2> QED
    BY <1>1, <2>1
<1>3. ASSUME NEW s \in DOMAIN cursors, NEW issue \in Nat, StepIssues(s, issue) PROVE CallInv'
  <2>1. /\ DOMAIN cursors' = DOMAIN cursors /\ finished' = finished /\ calls' = calls
        /\ \A t \in DOMAIN cursors : cursors'[t].pending = cursors[t].pending
    BY <1>3 DEF StepIssues
  <2> QED
    BY <1>1, <2>1
<1>4. ASSUME StepSteady PROVE CallInv'
  <2>1. /\ DOMAIN cursors' = DOMAIN cursors /\ finished' = finished
        /\ \A t \in DOMAIN cursors : cursors'[t].pending = cursors[t].pending
        /\ calls' = calls \/ \E id \in Nat : calls' = Append(calls, [kind |-> "prune", txn_id |-> id])
    BY <1>4 DEF StepSteady, Advances
  <2> QED
    BY <1>1, <2>1
<1>5. ASSUME NEW s \in DOMAIN cursors, NEW complete \in Nat, NEW gate \in Nat, NEW ip, NEW opened,
             StepFinishes(s, ip, complete, gate, opened)
      PROVE  CallInv'
  <2>1. DOMAIN cursors' = DOMAIN cursors /\ \A t \in DOMAIN cursors : HeldIds(t)' = HeldIds(t)
    BY <1>5, HeldFinishes
  <2>2. calls' = calls
    BY <1>5 DEF StepFinishes
  <2>3. Pushed' = Pushed /\ \A i \in Pushed : calls'[i] = calls[i]
    BY <2>2, PushedSame
  <2> QED
    BY <2>1, <2>3, CallFrame
<1> QED
  BY <1>2, <1>3, <1>4, <1>5, StepKinds, CallInvPushes

LEMMA InitCalls == Init => CallInv
<1> SUFFICES ASSUME Init PROVE CallInv
  OBVIOUS
<1>1. DOMAIN cursors = {} /\ Pushed = {}
  BY DEF Init, FrontInit, Pushed
<1>2. NumPushed = 0
  BY <1>1, FS_EmptySet DEF NumPushed
<1> QED
  BY <1>1, <1>2 DEF CallInv

-----------------------------------------------------------------------------
(***************************************************************************)
(* What callers see of the results.                                        *)
(***************************************************************************)
(* A step that adds no result, takes none away and does not return. *)
SeesSame == UNCHANGED <<results, finished>> /\ (running => running')

(* A step of run() that adds result r. *)
Adds(r) ==
  /\ running /\ running' /\ calls' = calls
  /\ finished' = Append(finished, r) /\ results' = Append(results, r)

LEMMA SeenCases ==
  ASSUME LoopInv, [Next]_vars
  PROVE  \/ \E core \in Cores, axi \in AxiIds, txn \in Txns : PushTxn(core, axi, txn) /\ SeesSame
         \/ \E core \in Cores : PushBarrier(core) /\ SeesSame
         \/ \E k \in DOMAIN results : PruneResultsBefore(results[k].txn_id)
         \/ calls' = calls /\ SeesSame
         \/ \E r \in Result : Adds(r)
         \/ Return
<1>1. CASE Call
  <2>1. ASSUME NEW core \in Cores, NEW axi \in AxiIds, NEW txn \in Txns, PushTxn(core, axi, txn)
        PROVE  SeesSame
    BY <2>1 DEF PushTxn, SeesSame
  <2>2. ASSUME NEW core \in Cores, PushBarrier(core) PROVE SeesSame
    BY <2>2 DEF PushBarrier, SeesSame
  <2>3. BeginRun => calls' = calls /\ SeesSame
    BY DEF BeginRun, SeesSame
  <2> QED
    BY <1>1, <2>1, <2>2, <2>3 DEF Call
<1>2. ASSUME NEW ch \in Channels, DrainOne(ch)
      PROVE  (calls' = calls /\ SeesSame) \/ \E r \in Result : Adds(r)
  <2>1. running
    BY <1>2 DEF DrainOne, LoopInv, AtRest
  <2>2. ASSUME NEW s \in DOMAIN cursors, NEW ip, Progresses(s, ip) PROVE calls' = calls /\ SeesSame
    BY <2>2 DEF Progresses, SeesSame
  <2>3. ASSUME NEW s \in DOMAIN cursors, NEW ip, NEW complete, NEW gate, NEW opened,
               Finishes(s, ip, complete, gate, opened)
        PROVE  \E r \in Result : Adds(r)
    <3>1. PICK r : r = ResultOf(s, ip, complete)
      OBVIOUS
    <3>2. PICK c \in Nat, g \in Nat : StepFinishes(s, ip, complete, gate, opened) /\ complete = c
      BY <2>3, FinishKind
    <3>3. r \in Result
      BY <3>1, <3>2, ResultTyped DEF StepFinishes
    <3>4. Adds(r)
      BY <2>1, <2>3, <3>1 DEF Finishes, Ends, Adds
    <3> QED
      BY <3>3, <3>4
  <2> QED
    BY <1>2, <2>2, <2>3, DrainCases
<1>3. CASE Loop
  <2>1. Reschedule \/ Issue \/ Resume \/ Admit => calls' = calls /\ SeesSame
    BY DEF Reschedule, Issue, Resume, Admit, AdmitTurn, SeesSame
  <2>2. MakeRoom => TurnChannel \in Channels /\ DrainOne(TurnChannel)
    BY TurnFacts DEF MakeRoom
  <2>3. CASE DrainIdle
    <3>1. Busy \in SUBSET Nat /\ Busy # {}
      BY <2>3, ChannelAssumption DEF DrainIdle, Busy
    <3>2. Min(Busy) \in Channels
      BY <3>1, NatMin DEF Busy
    <3> QED
      BY <1>2, <2>3, <3>2 DEF DrainIdle
  <2> QED
    BY <1>2, <1>3, <2>1, <2>2, <2>3 DEF Loop
<1>4. UNCHANGED vars => calls' = calls /\ SeesSame
  BY DEF vars, frontVars, controlVars, SeesSame
<1> QED
  BY <1>1, <1>3, <1>4 DEF Next

(* The counters: one more transaction for each result, and what callers are told
   is brought up to date as run() returns. *)
LEMMA Counts ==
  ASSUME [Next]_vars
  PROVE  /\ finished' = finished => totals' = totals
         /\ finished' # finished => totals'.txns = totals.txns + 1
         /\ Seen' = IF running /\ ~ running' THEN totals.txns ELSE Seen
<1>1. CASE Statistic(ChannelReport)
  <2>1. /\ finished' = finished => totals' = totals
        /\ finished' # finished => \E r : totals' = Totalled(r)
        /\ summary' = IF running /\ ~ running' THEN Summary(ChannelReport) ELSE summary
    BY <1>1 DEF Statistic
  <2>2. \A r : Totalled(r).txns = totals.txns + 1
    BY DEF Totalled
  <2>3. Summary(ChannelReport).total_txns = totals.txns
    BY DEF Summary
  <2> QED
    BY <2>1, <2>2, <2>3 DEF Seen
<1>2. CASE UNCHANGED vars
  BY <1>2 DEF vars, frontVars, controlVars, statisticVars, Seen
<1> QED
  BY <1>1, <1>2 DEF Next

(* When run() returns, as many transactions are over as were pushed, and they are
   those. *)
LEMMA AllOver ==
  ASSUME OrderInv, CallInv, Settled
  PROVE  /\ {finished[k].txn_id : k \in DOMAIN finished} = 1 .. NumPushed
         /\ NumPushed \in Nat /\ NumPushed = Len(finished)
<1>1. LoopInv /\ IdInv
  BY DEF OrderInv
<1>2. finished \in Seq(Result) /\ DOMAIN finished = 1 .. Len(finished) /\ Len(finished) \in Nat
  BY <1>1, LenProperties DEF LoopInv, LoopTypeOK
<1>3. ASSUME NEW k \in DOMAIN finished PROVE finished[k].txn_id \in 1 .. NumPushed
  <2>1. PICK s \in DOMAIN cursors : k \in OverIn(s)
    BY <1>1 DEF IdInv, OverIn
  <2>2. finished[k].txn_id \in HeldIds(s)
    BY <2>1 DEF HeldIds
  <2> QED
    BY <1>1, <2>2 DEF IdInv
<1>4. ASSUME NEW id \in 1 .. NumPushed PROVE \E k \in DOMAIN finished : finished[k].txn_id = id
  <2>1. PICK i \in Pushed : calls[i].txn_id = id
    BY DEF CallInv
  <2>2. PICK k : k \in ResultsOf(id)
    BY <2>1, SettledIsOver
  <2> QED
    BY <2>2 DEF ResultsOf
<1>5. {finished[k].txn_id : k \in DOMAIN finished} = 1 .. NumPushed
  BY <1>3, <1>4
<1>6. IsFiniteSet(Pushed)
  <2>1. DOMAIN calls = 1 .. Len(calls) /\ Len(calls) \in Nat
    BY <1>1, LenProperties DEF LoopInv, LoopTypeOK
  <2>2. IsFiniteSet(DOMAIN calls)
    BY <2>1, FS_Interval
  <2> QED
    BY <2>2, FS_Subset DEF Pushed
<1>7. NumPushed \in Nat
  BY <1>6, FS_CardinalityType DEF NumPushed
<1>8. NumPushed = Len(finished)
  <2>1. PICK S, T, f : S = 1 .. Len(finished) /\ T = 1 .. NumPushed /\ f = [k \in S |-> finished[k].txn_id]
    OBVIOUS
  <2>2. f \in [S -> T] /\ \A j, k \in S : f[j] = f[k] => j = k
    BY <1>1, <1>2, <1>3, <2>1, FinishedOnce
  <2>3. \A y \in T : \E x \in S : f[x] = y
    BY <1>2, <1>4, <2>1
  <2>4. ExistsBijection(S, T)
    BY <2>2, <2>3, Zenon DEF ExistsBijection, Bijection, Injection, IsInjective, Surjection
  <2>5. \A n \in Nat : IsFiniteSet(1 .. n) /\ Cardinality(1 .. n) = n
    BY FS_Interval
  <2>6. IsFiniteSet(S) /\ Cardinality(S) = Len(finished) /\ Cardinality(T) = NumPushed
    BY <1>2, <1>7, <2>1, <2>5
  <2> QED
    BY <2>4, <2>6, FS_Bijection
<1> QED
  BY <1>5, <1>7, <1>8

LEMMA SeenInvReturns ==
  ASSUME OrderInv, CallInv, SeenInv, Return, [Next]_vars
  PROVE  SeenInv'
<1>1. finished' = finished /\ results' = results /\ running /\ ~ running' /\ Settled
  BY DEF Return, ReturnFromRun, Busy, Settled
<1>2. PICK n : n = Len(finished) /\ n = totals.txns
  BY DEF SeenInv
<1>3. n \in Nat /\ DOMAIN finished = 1 .. n /\ Len(results) \in Nat
  BY <1>2, LenProperties DEF OrderInv, LoopInv, LoopTypeOK
<1>4. Seen' = n /\ totals'.txns = n /\ Len(finished') = n
  BY <1>1, <1>2, Counts
<1>5. Unseen' = 0
  BY <1>3, <1>4 DEF Unseen
<1>6. {finished[k].txn_id : k \in 1 .. n} = 1 .. n
  BY <1>1, <1>2, <1>3, AllOver
<1>7. \A k \in 1 .. Unseen' : results'[Len(results') - Unseen' + k] = finished'[Seen' + k]
  <2>1. 1 .. Unseen' = {}
    BY <1>5
  <2> QED
    BY <2>1
<1>8. \A k \in DOMAIN results' : \E j \in DOMAIN finished' : results'[k] = finished'[j]
  BY <1>1 DEF SeenInv
<1>9. {finished'[k].txn_id : k \in 1 .. Seen'} = 1 .. Seen'
  BY <1>1, <1>4, <1>6
<1>10. Seen' \in 0 .. Len(finished') /\ Unseen' <= Len(results')
  BY <1>1, <1>3, <1>4, <1>5
<1> QED
  BY <1>4, <1>7, <1>8, <1>9, <1>10 DEF SeenInv

LEMMA SeenInvAdds ==
  ASSUME LoopInv, SeenInv, NEW r \in Result, Adds(r), [Next]_vars
  PROVE  SeenInv'
<1>1. PICK n, m, d, u : n = Len(finished) /\ m = Len(results) /\ d = Seen /\ u = Unseen
  OBVIOUS
<1>2. /\ n \in Nat /\ m \in Nat /\ DOMAIN finished = 1 .. n /\ DOMAIN results = 1 .. m
      /\ DOMAIN finished' = 1 .. n + 1 /\ DOMAIN results' = 1 .. m + 1
      /\ Len(finished') = n + 1 /\ Len(results') = m + 1
      /\ \A k \in 1 .. n : finished'[k] = finished[k]
      /\ \A k \in 1 .. m : results'[k] = results[k]
      /\ finished'[n + 1] = r /\ results'[m + 1] = r
  BY <1>1, AppendProperties, LenProperties DEF LoopInv, LoopTypeOK, Adds
<1>3. d \in 0 .. n /\ u = n - d /\ u <= m /\ totals.txns = n
  BY <1>1 DEF SeenInv, Unseen
<1>4. finished' # finished
  <2>1. n + 1 # n
    BY <1>2
  <2> QED
    BY <1>1, <1>2, <2>1
<1>5. totals'.txns = n + 1 /\ Seen' = d
  BY <1>1, <1>3, <1>4, Counts DEF Adds
<1>6. Unseen' = u + 1
  BY <1>2, <1>3, <1>5 DEF Unseen
<1>7. \A k \in 1 .. u + 1 : results'[m + 1 - (u + 1) + k] = finished'[d + k]
  <2> SUFFICES ASSUME NEW k \in 1 .. u + 1
               PROVE  results'[m + 1 - (u + 1) + k] = finished'[d + k]
    OBVIOUS
  <2>1. CASE k = u + 1
    <3>1. m + 1 - (u + 1) + k = m + 1 /\ d + k = n + 1
      BY <1>2, <1>3, <2>1
    <3> QED
      BY <1>2, <3>1
  <2>2. CASE k # u + 1
    <3>1. k \in 1 .. u /\ m + 1 - (u + 1) + k = m - u + k /\ m - u + k \in 1 .. m /\ d + k \in 1 .. n
      BY <1>2, <1>3, <2>2
    <3>2. results[m - u + k] = finished[d + k]
      BY <1>1, <3>1 DEF SeenInv
    <3> QED
      BY <1>2, <3>1, <3>2
  <2> QED
    BY <2>1, <2>2
<1>8. \A k \in DOMAIN results' : \E j \in DOMAIN finished' : results'[k] = finished'[j]
  <2> SUFFICES ASSUME NEW k \in 1 .. m + 1 PROVE \E j \in 1 .. n + 1 : results'[k] = finished'[j]
    BY <1>2
  <2>1. CASE k = m + 1
    BY <1>2, <2>1
  <2>2. CASE k # m + 1
    <3>1. k \in 1 .. m
      BY <1>2, <2>2
    <3>2. PICK j \in 1 .. n : results[k] = finished[j]
      BY <1>2, <3>1 DEF SeenInv
    <3>3. j \in 1 .. n + 1
      BY <1>2
    <3> QED
      BY <1>2, <3>1, <3>2, <3>3
  <2> QED
    BY <2>1, <2>2
<1>9. {finished'[k].txn_id : k \in 1 .. d} = 1 .. d
  <2>1. \A k \in 1 .. d : finished'[k] = finished[k]
    BY <1>2, <1>3
  <2>2. {finished[k].txn_id : k \in 1 .. d} = 1 .. d
    BY <1>1 DEF SeenInv
  <2> QED
    BY <2>1, <2>2
<1>10. running' /\ d \in 0 .. n + 1 /\ u + 1 <= m + 1
  BY <1>2, <1>3 DEF Adds
<1>11. /\ \A k \in 1 .. Unseen' : results'[Len(results') - Unseen' + k] = finished'[Seen' + k]
       /\ {finished'[k].txn_id : k \in 1 .. Seen'} = 1 .. Seen'
  <2>1. Unseen' = u + 1 /\ Seen' = d /\ Len(results') = m + 1
    BY <1>2, <1>5, <1>6
  <2>2. \A k \in 1 .. Unseen' : results'[Len(results') - Unseen' + k] = finished'[Seen' + k]
    <3>1. PICK a, b, c : a = Unseen' /\ b = Len(results') /\ c = Seen'
      OBVIOUS
    <3>2. a = u + 1 /\ b = m + 1 /\ c = d
      BY <2>1, <3>1
    <3>3. \A k \in 1 .. a : results'[b - a + k] = finished'[c + k]
      <4> SUFFICES ASSUME NEW k \in 1 .. a PROVE results'[b - a + k] = finished'[c + k]
        OBVIOUS
      <4>1. k \in 1 .. u + 1 /\ b - a + k = m + 1 - (u + 1) + k
        BY <1>2, <1>3, <3>2
      <4> QED
        BY <1>7, <3>2, <4>1
    <3> QED
      BY <3>1, <3>3
  <2>3. {finished'[k].txn_id : k \in 1 .. Seen'} = 1 .. Seen'
    BY <1>9, <2>1
  <2> QED
    BY <2>2, <2>3
<1>12. Seen' \in 0 .. Len(finished') /\ Unseen' <= Len(results') /\ totals'.txns = Len(finished')
  BY <1>2, <1>5, <1>6, <1>10
<1> QED
  BY <1>8, <1>10, <1>11, <1>12 DEF SeenInv

LEMMA SeenInvSame ==
  ASSUME SeenInv, SeesSame, [Next]_vars
  PROVE  SeenInv'
<1>1. results' = results /\ finished' = finished /\ (~ running' => ~ running) /\ (running => running')
  BY DEF SeesSame
<1>2. totals' = totals /\ Seen' = Seen
  BY <1>1, Counts
<1>3. Unseen' = Unseen
  BY <1>1, <1>2 DEF Unseen
<1> QED
  BY <1>1, <1>2, <1>3 DEF SeenInv

(* The places of what is kept: its numbers and where they were. *)
Moves(place, n, id) ==
  /\ n = Cardinality(Kept(id)) /\ n \in Nat
  /\ place \in Bijection(1 .. n, Kept(id))
  /\ \A p, q \in DOMAIN place : p < q => place[p] < place[q]
  /\ place \in [1 .. n -> DOMAIN results]
  /\ results' = [p \in 1 .. n |-> results[place[p]]] /\ Len(results') = n
  /\ \A p \in 1 .. n : results'[p] = results[place[p]]

LEMMA PruneMoves ==
  ASSUME LoopInv, NEW id, PruneResultsBefore(id)
  PROVE  \E place, n : Moves(place, n, id)
<1>1. results \in Seq(Result)
  BY DEF LoopInv, LoopTypeOK
<1>2. DOMAIN results = 1 .. Len(results) /\ Len(results) \in Nat
  BY <1>1, LenProperties
<1>3. Kept(id) \subseteq 1 .. Len(results)
  BY <1>2 DEF Kept
<1>4. IsFiniteSet(Kept(id))
  <2>1. IsFiniteSet(1 .. Len(results))
    BY <1>2, FS_Interval
  <2> QED
    BY <1>3, <2>1, FS_Subset
<1>5. PICK n \in Nat : n = Cardinality(Kept(id))
  BY <1>4, FS_CardinalityType
<1>6. PICK place \in Bijection(1 .. n, Kept(id)) :
        /\ \A p, q \in DOMAIN place : p < q => place[p] < place[q]
        /\ results' = [p \in DOMAIN place |-> results[place[p]]]
  BY <1>5 DEF PruneResultsBefore
<1>7. place \in [1 .. n -> Kept(id)] /\ DOMAIN place = 1 .. n
  BY <1>6 DEF Bijection, Injection
<1>8. place \in [1 .. n -> DOMAIN results]
  BY <1>2, <1>3, <1>7
<1>9. results' \in [1 .. n -> Result]
  BY <1>1, <1>2, <1>6, <1>7, <1>8, ElementOfSeq
<1>10. Len(results') = n
  <2>1. results' \in Seq(Result) /\ DOMAIN results' = 1 .. n
    BY <1>9, FunctionIsSequence
  <2> QED
    BY <2>1, <1>5, LenProperties
<1> QED
  BY <1>5, <1>6, <1>7, <1>8, <1>10 DEF Moves

LEMMA SeenInvPrunes ==
  ASSUME LoopInv, SeenInv, NEW id, PruneResultsBefore(id), [Next]_vars
  PROVE  SeenInv'
<1>1. finished' = finished /\ ~ running /\ ~ running'
  BY DEF PruneResultsBefore
<1>2. totals' = totals /\ Seen' = Seen
  BY <1>1, Counts
<1>3. PICK n : n = Len(finished) /\ n \in Nat /\ Seen = n /\ totals.txns = n
  BY <1>1, LenProperties DEF SeenInv, LoopInv, LoopTypeOK
<1>4. Unseen' = 0
  BY <1>1, <1>2, <1>3 DEF Unseen
<1>5. PICK place, m : Moves(place, m, id)
  BY PruneMoves
<1>6. \A k \in DOMAIN results' : \E j \in DOMAIN finished' : results'[k] = finished'[j]
  BY <1>1, <1>5 DEF Moves, SeenInv
<1>7. Len(results') \in Nat
  BY <1>5 DEF Moves
<1>8. \A k \in 1 .. Unseen' : results'[Len(results') - Unseen' + k] = finished'[Seen' + k]
  <2>1. 1 .. Unseen' = {}
    BY <1>4
  <2> QED
    BY <2>1
<1>9. {finished'[k].txn_id : k \in 1 .. Seen'} = 1 .. Seen'
  BY <1>1, <1>2 DEF SeenInv
<1>10. totals'.txns = Len(finished') /\ Seen' \in 0 .. Len(finished') /\ Seen' = Len(finished')
  BY <1>1, <1>2, <1>3
<1>11. Unseen' <= Len(results')
  BY <1>4, <1>7
<1> QED
  BY <1>6, <1>8, <1>9, <1>10, <1>11 DEF SeenInv

LEMMA SeenInvStep ==
  ASSUME OrderInv, CallInv, SeenInv, [Next]_vars
  PROVE  SeenInv'
<1>1. LoopInv
  BY DEF OrderInv
<1> QED
  BY <1>1, SeenCases, SeenInvSame, SeenInvPrunes, SeenInvAdds, SeenInvReturns

LEMMA InitSeen == Init => SeenInv
<1> SUFFICES ASSUME Init PROVE SeenInv
  OBVIOUS
<1>1. finished = <<>> /\ results = <<>> /\ Seen = 0 /\ totals.txns = 0
  BY DEF Init, FrontInit, NoSummary, Seen
<1>2. Len(finished) = 0 /\ Len(results) = 0 /\ DOMAIN results = {}
  BY <1>1
<1>3. Unseen = 0
  BY <1>1, <1>2 DEF Unseen
<1>4. 1 .. Unseen = {} /\ 1 .. Seen = {}
  BY <1>1, <1>3
<1>5. {finished[k].txn_id : k \in 1 .. Seen} = 1 .. Seen
  BY <1>4
<1>6. Seen \in 0 .. Len(finished) /\ Unseen <= Len(results)
  BY <1>1, <1>2, <1>3
<1> QED
  BY <1>1, <1>2, <1>4, <1>5, <1>6 DEF SeenInv

LEMMA AlwaysSeen == Spec => [](OrderInv /\ CallInv /\ SeenInv)
<1>1. Init => OrderInv /\ CallInv /\ SeenInv
  BY InitOrder, InitCalls, InitSeen
<1>2. OrderInv /\ [Next]_vars => OrderInv'
  BY LoopStep, SegInvStep, IdInvStep, PlaceInvStep DEF OrderInv
<1>3. OrderInv /\ CallInv /\ SeenInv /\ [Next]_vars => CallInv' /\ SeenInv'
  BY CallInvStep, SeenInvStep DEF OrderInv
<1> QED
  BY <1>1, <1>2, <1>3, PTL DEF Spec

-----------------------------------------------------------------------------
(***************************************************************************)
(* To its callers a run is one step.                                       *)
(***************************************************************************)
SeenCall ==
  [kind : {"txn"}, core : Cores, axi : AxiIds, txn_id : Nat]
  \cup [kind : {"barrier"}, core : Cores]
  \cup [kind : {"prune"}, txn_id : Nat]

SeenAs(call) ==
  IF call.kind = "txn"
  THEN [kind |-> "txn", core |-> call.core, axi |-> call.axi, txn_id |-> call.txn_id]
  ELSE call

LEMMA SeenAsTyped ==
  ASSUME NEW call \in CallRecord
  PROVE  /\ SeenAs(call) \in SeenCall /\ SeenAs(call).kind = call.kind
         /\ call.kind = "txn" => /\ SeenAs(call).core = call.core /\ SeenAs(call).axi = call.axi
                                 /\ SeenAs(call).txn_id = call.txn_id
         /\ call.kind = "barrier" => SeenAs(call).core = call.core
<1>1. CASE call.kind = "txn"
  BY <1>1 DEF SeenAs, SeenCall, CallRecord
<1>2. CASE call.kind # "txn"
  BY <1>2 DEF SeenAs, SeenCall, CallRecord
<1> QED
  BY <1>1, <1>2

LEMMA CallsSeenFacts ==
  ASSUME LoopInv
  PROVE  /\ CallsSeen \in Seq(SeenCall) /\ Len(CallsSeen) = Len(calls)
         /\ DOMAIN CallsSeen = DOMAIN calls
         /\ \A i \in DOMAIN calls : calls[i] \in CallRecord /\ CallsSeen[i] = SeenAs(calls[i])
<1>1. calls \in Seq(CallRecord)
  BY DEF LoopInv, LoopTypeOK
<1>2. PICK n \in Nat : n = Len(calls) /\ DOMAIN calls = 1 .. n
  BY <1>1, LenProperties
<1>3. \A i \in 1 .. n : calls[i] \in CallRecord
  BY <1>1, <1>2, ElementOfSeq
<1>4. CallsSeen = [i \in 1 .. n |-> SeenAs(calls[i])]
  BY <1>2 DEF CallsSeen, SeenAs, Pushed
<1>5. CallsSeen \in [1 .. n -> SeenCall]
  BY <1>3, <1>4, SeenAsTyped
<1> QED
  BY <1>2, <1>3, <1>4, <1>5, FunctionIsSequence

(* A call made is a call seen. *)
LEMMA CallsSeenAppend ==
  ASSUME LoopInv, NEW call \in CallRecord, calls' = Append(calls, call)
  PROVE  CallsSeen' = Append(CallsSeen, SeenAs(call))
<1>1. PICK n \in Nat : n = Len(calls) /\ DOMAIN calls = 1 .. n
  BY LenProperties DEF LoopInv, LoopTypeOK
<1>2. /\ DOMAIN calls' = 1 .. n + 1 /\ calls'[n + 1] = call
      /\ \A i \in 1 .. n : calls'[i] = calls[i]
  BY <1>1, AppendProperties, LenProperties DEF LoopInv, LoopTypeOK
<1>3. CallsSeen' = [i \in 1 .. n + 1 |-> SeenAs(calls'[i])]
  <2>1. CallsSeen' = [i \in DOMAIN calls' |-> SeenAs(calls'[i])]
    BY DEF CallsSeen, SeenAs, Pushed
  <2> QED
    BY <1>2, <2>1
<1>4. PICK q, x : q = CallsSeen /\ x = SeenAs(call)
  OBVIOUS
<1>5. q \in Seq(SeenCall) /\ Len(q) = n /\ x \in SeenCall /\ \A i \in 1 .. n : q[i] = SeenAs(calls[i])
  BY <1>1, <1>4, CallsSeenFacts, SeenAsTyped
<1>6. /\ Append(q, x) \in Seq(SeenCall) /\ Len(Append(q, x)) = n + 1
      /\ \A i \in 1 .. n : Append(q, x)[i] = q[i]
      /\ Append(q, x)[n + 1] = x
  BY <1>5, AppendProperties
<1>7. PICK f : f = [i \in 1 .. n + 1 |-> SeenAs(calls'[i])]
  OBVIOUS
<1>8. \A i \in 1 .. n + 1 : f[i] = Append(q, x)[i]
  <2> SUFFICES ASSUME NEW i \in 1 .. n + 1 PROVE f[i] = Append(q, x)[i]
    OBVIOUS
  <2>1. CASE i = n + 1
    BY <1>2, <1>4, <1>6, <1>7, <2>1
  <2>2. CASE i # n + 1
    <3>1. i \in 1 .. n
      BY <2>2
    <3> QED
      BY <1>2, <1>5, <1>6, <1>7, <3>1
  <2> QED
    BY <2>1, <2>2
<1>9. f \in [1 .. n + 1 -> SeenCall] /\ n + 1 \in Nat
  <2>1. n + 1 \in Nat
    OBVIOUS
  <2>2. PICK S : S = 1 .. n + 1
    OBVIOUS
  <2>3. \A i \in S : SeenAs(calls'[i]) \in SeenCall
    BY <1>6, <1>7, <1>8, <2>2, ElementOfSeq
  <2>4. f = [i \in S |-> SeenAs(calls'[i])]
    BY <1>7, <2>2
  <2>5. f \in [S -> SeenCall]
    BY <2>3, <2>4
  <2> QED
    BY <2>1, <2>2, <2>5
<1>10. f \in Seq(SeenCall) /\ Len(f) = n + 1
  BY <1>9, FunctionIsSequence
<1>11. f = Append(q, x)
  BY <1>6, <1>8, <1>10, SeqEqual
<1> QED
  BY <1>3, <1>4, <1>7, <1>11

(* ids holds the ids of the first n results in q. *)
FirstIds(q, n, ids) ==
  /\ ids \in Seq(Nat) /\ Len(ids) = n /\ DOMAIN ids = 1 .. n
  /\ \A i \in 1 .. n : ids[i] = q[i].txn_id

LEMMA FirstIdsTaken ==
  ASSUME NEW q \in Seq(Result), NEW n \in 0 .. Len(q), NEW p, p = SubSeq(q, 1, n),
         NEW ids, ids = [i \in DOMAIN p |-> p[i].txn_id]
  PROVE  FirstIds(q, n, ids)
<1>1. n \in Nat /\ \A i \in 1 .. n : q[i] \in Result
  BY LenProperties, ElementOfSeq
<1>2. /\ p \in Seq(Result) /\ Len(p) = n
      /\ \A i \in 1 .. n : p[i] = q[i]
  <2>1. 1 \in Int /\ n \in Int /\ n - 1 + 1 = n /\ \A i \in 1 .. n : 1 + i - 1 = i
    BY <1>1
  <2>2. /\ SubSeq(q, 1, n) \in Seq(Result)
        /\ Len(SubSeq(q, 1, n)) = IF 1 <= n THEN n - 1 + 1 ELSE 0
        /\ \A i \in 1 .. n - 1 + 1 : SubSeq(q, 1, n)[i] = q[1 + i - 1]
    BY <1>1, <2>1, SubSeqProperties
  <2> QED
    BY <1>1, <2>1, <2>2
<1>3. DOMAIN p = 1 .. n
  BY <1>2, LenProperties
<1>4. ids \in [1 .. n -> Nat] /\ \A i \in 1 .. n : ids[i] = q[i].txn_id
  BY <1>1, <1>2, <1>3 DEF Result
<1> QED
  BY <1>1, <1>4, FunctionIsSequence DEF FirstIds

(* What a caller can see are the first of the results. *)
LEMMA IdsSeenFacts ==
  ASSUME LoopInv, SeenInv
  PROVE  Len(results) - Unseen \in Nat /\ FirstIds(results, Len(results) - Unseen, IdsSeen)
<1>1. results \in Seq(Result) /\ Len(results) \in Nat
  BY LenProperties DEF LoopInv, LoopTypeOK
<1>2. PICK n : n = Len(results) - Unseen
  OBVIOUS
<1>3. n \in 0 .. Len(results)
  <2>1. Len(finished) \in Nat
    BY LenProperties DEF LoopInv, LoopTypeOK
  <2>2. Seen \in 0 .. Len(finished) /\ Unseen <= Len(results)
    BY DEF SeenInv
  <2>3. Unseen \in Nat
    BY <2>1, <2>2 DEF Unseen
  <2> QED
    BY <1>1, <1>2, <2>2, <2>3
<1>4. ResultsSeen = SubSeq(results, 1, n)
  BY <1>2 DEF ResultsSeen, Unseen, Seen, SeenInv
<1>5. PICK p : p = SubSeq(results, 1, n)
  OBVIOUS
<1>6. PICK ids : ids = IdsSeen
  OBVIOUS
<1>7. ids = [i \in DOMAIN p |-> p[i].txn_id]
  BY <1>4, <1>5, <1>6 DEF IdsSeen
<1>8. FirstIds(results, n, ids)
  BY <1>1, <1>3, <1>5, <1>7, FirstIdsTaken
<1> QED
  BY <1>2, <1>3, <1>6, <1>8

LEMMA IdsSeenNext ==
  ASSUME LoopInv', SeenInv'
  PROVE  /\ Len(results') - Unseen' \in Nat
         /\ FirstIds(results', Len(results') - Unseen', IdsSeen')
<1>1. results' \in Seq(Result) /\ Len(results') \in Nat
  BY LenProperties DEF LoopInv, LoopTypeOK
<1>2. PICK n : n = Len(results') - Unseen'
  OBVIOUS
<1>3. n \in 0 .. Len(results')
  <2>1. Len(finished') \in Nat
    BY LenProperties DEF LoopInv, LoopTypeOK
  <2>2. Seen' \in 0 .. Len(finished') /\ Unseen' <= Len(results')
    BY DEF SeenInv
  <2>3. Unseen' \in Nat
    BY <2>1, <2>2 DEF Unseen
  <2> QED
    BY <1>1, <1>2, <2>2, <2>3
<1>4. ResultsSeen' = SubSeq(results', 1, n)
  BY <1>2 DEF ResultsSeen, Unseen, Seen, SeenInv
<1>5. PICK p, rs : p = SubSeq(rs, 1, n) /\ rs = results'
  OBVIOUS
<1>6. PICK ids : ids = IdsSeen'
  OBVIOUS
<1>7. ids = [i \in DOMAIN p |-> p[i].txn_id]
  BY <1>4, <1>5, <1>6 DEF IdsSeen
<1>8. FirstIds(rs, n, ids)
  BY <1>1, <1>3, <1>5, <1>7, FirstIdsTaken
<1> QED
  BY <1>2, <1>3, <1>5, <1>6, <1>8

LEMMA FirstIdsEqual ==
  ASSUME NEW p, NEW q, NEW n, NEW ids, NEW others, FirstIds(p, n, ids), FirstIds(q, n, others),
         \A i \in 1 .. n : p[i].txn_id = q[i].txn_id
  PROVE  ids = others
<1>1. ids \in Seq(Nat) /\ others \in Seq(Nat) /\ Len(ids) = n /\ Len(others) = n
  BY DEF FirstIds
<1>2. \A i \in 1 .. n : ids[i] = others[i]
  BY DEF FirstIds
<1> QED
  BY <1>1, <1>2, SeqEqual

(* Both specifications count and match up in the same way. *)
LEMMA CardinalitySeen == \A S : Calls!Cardinality(S) = Cardinality(S)
BY DEF Calls!Cardinality, Cardinality

LEMMA BijectionSeen == \A S, T : Calls!Bijection(S, T) = Bijection(S, T)
BY DEF Calls!Bijection, Calls!Injection, Calls!Surjection, Calls!IsInjective,
       Bijection, Injection, Surjection, IsInjective

(* The transactions among the calls seen are those pushed. *)
LEMMA PushesSeen ==
  ASSUME LoopInv
  PROVE  /\ Calls!Pushes = Pushed /\ Calls!NumPushed = NumPushed
         /\ \A i \in Pushed : /\ CallsSeen[i].core = calls[i].core /\ CallsSeen[i].axi = calls[i].axi
                              /\ CallsSeen[i].txn_id = calls[i].txn_id
<1>1. \A i \in DOMAIN calls : calls[i] \in CallRecord /\ CallsSeen[i] = SeenAs(calls[i])
  BY CallsSeenFacts
<1>2. DOMAIN CallsSeen = DOMAIN calls
  BY CallsSeenFacts
<1>3. \A i \in DOMAIN calls : CallsSeen[i].kind = calls[i].kind
  BY <1>1, SeenAsTyped
<1>4. Calls!Pushes = Pushed
  BY <1>2, <1>3 DEF Calls!Pushes, Pushed
<1>5. Calls!NumPushed = NumPushed
  BY <1>4, CardinalitySeen DEF Calls!NumPushed, NumPushed
<1>6. \A i \in Pushed : /\ CallsSeen[i].core = calls[i].core /\ CallsSeen[i].axi = calls[i].axi
                        /\ CallsSeen[i].txn_id = calls[i].txn_id
  BY <1>1, SeenAsTyped DEF Pushed
<1> QED
  BY <1>4, <1>5, <1>6

(* A call the engine has room for is one the caller may make. *)
LEMMA MayCall ==
  ASSUME LoopInv, Len(calls) < MaxCalls
  PROVE  Calls!Allowed(1)
<1>1. PICK n \in Nat : n = Len(calls) /\ DOMAIN calls = 1 .. n
  BY LenProperties DEF LoopInv, LoopTypeOK
<1>2. PICK made : made = {i \in DOMAIN CallsSeen : CallsSeen[i].kind # "prune"}
  OBVIOUS
<1>3. made \subseteq 1 .. n
  BY <1>1, <1>2, CallsSeenFacts
<1>4. IsFiniteSet(1 .. n) /\ Cardinality(1 .. n) = n
  <2>1. \A x \in Nat : IsFiniteSet(1 .. x) /\ Cardinality(1 .. x) = x
    BY FS_Interval
  <2> QED
    BY <2>1
<1>5. Cardinality(made) \in Nat /\ Cardinality(made) <= n
  BY <1>3, <1>4, FS_Subset, FS_CardinalityType
<1>6. Cardinality(made) + 1 <= MaxCalls
  BY <1>1, <1>5, FrontEndAssumption
<1> QED
  BY <1>2, <1>6, CardinalitySeen DEF Calls!Allowed

LEMMA SeenNothing ==
  ASSUME SeesSame, [Next]_vars
  PROVE  IdsSeen' = IdsSeen /\ Seen' = Seen
<1>1. results' = results /\ finished' = finished /\ (~ running' => ~ running) /\ (running => running')
  BY DEF SeesSame
<1>2. totals' = totals /\ Seen' = Seen
  BY <1>1, Counts
<1>3. ResultsSeen' = ResultsSeen
  BY <1>1, <1>2 DEF ResultsSeen, Seen
<1> QED
  BY <1>2, <1>3 DEF IdsSeen

LEMMA PushTxnSeen ==
  ASSUME LoopInv, NEW core \in Cores, NEW axi \in AxiIds, NEW txn \in Txns,
         PushTxn(core, axi, txn), SeesSame, [Next]_vars
  PROVE  Calls!PushTxn(core, axi)
<1>1. PICK id, call : /\ id = NumPushed + 1
                      /\ call = [kind |-> "txn", core |-> core, axi |-> axi, txn_id |-> id, txn |-> txn]
  OBVIOUS
<1>2. calls' = Append(calls, call) /\ Len(calls) < MaxCalls
  BY <1>1 DEF PushTxn, NumPushed, Pushed
<1>3. NumPushed \in Nat
  <2>1. DOMAIN calls = 1 .. Len(calls) /\ Len(calls) \in Nat
    BY LenProperties DEF LoopInv, LoopTypeOK
  <2>2. IsFiniteSet(DOMAIN calls)
    BY <2>1, FS_Interval
  <2>3. IsFiniteSet(Pushed)
    BY <2>2, FS_Subset DEF Pushed
  <2> QED
    BY <2>3, FS_CardinalityType DEF NumPushed
<1>4. id \in Nat
  BY <1>1, <1>3
<1>5. call \in CallRecord
  BY <1>1, <1>4 DEF CallRecord
<1>6. SeenAs(call) = [kind |-> "txn", core |-> core, axi |-> axi, txn_id |-> Calls!NumPushed + 1]
  <2>1. SeenAs(call) = [kind |-> "txn", core |-> core, axi |-> axi, txn_id |-> id]
    BY <1>1 DEF SeenAs
  <2> QED
    BY <1>1, <2>1, PushesSeen
<1>7. CallsSeen' = Append(CallsSeen, SeenAs(call))
  BY <1>2, <1>5, CallsSeenAppend
<1>8. Calls!Allowed(1)
  BY <1>2, MayCall
<1> QED
  BY <1>6, <1>7, <1>8, SeenNothing DEF Calls!PushTxn, Seen

LEMMA PushBarrierSeen ==
  ASSUME LoopInv, NEW core \in Cores, PushBarrier(core), SeesSame, [Next]_vars
  PROVE  Calls!PushBarrier(core)
<1>1. PICK call : call = [kind |-> "barrier", core |-> core]
  OBVIOUS
<1>2. calls' = Append(calls, call) /\ Len(calls) < MaxCalls
  BY <1>1 DEF PushBarrier
<1>3. call \in CallRecord /\ SeenAs(call) = call
  BY <1>1 DEF CallRecord, SeenAs
<1>4. CallsSeen' = Append(CallsSeen, call)
  BY <1>2, <1>3, CallsSeenAppend
<1>5. Calls!Allowed(1)
  BY <1>2, MayCall
<1> QED
  BY <1>1, <1>4, <1>5, SeenNothing DEF Calls!PushBarrier, Seen

(* While run() works its callers see nothing of it. *)
LEMMA AddsUnseen ==
  ASSUME LoopInv, SeenInv, LoopInv', SeenInv', NEW r \in Result, Adds(r), [Next]_vars
  PROVE  UNCHANGED <<CallsSeen, IdsSeen, Seen>>
<1>1. PICK m \in Nat, n \in Nat : /\ m = Len(results) /\ n = Len(finished)
                                  /\ DOMAIN results = 1 .. m /\ DOMAIN finished = 1 .. n
  BY LenProperties DEF LoopInv, LoopTypeOK
<1>2. /\ Len(results') = m + 1 /\ Len(finished') = n + 1
      /\ \A i \in 1 .. m : results'[i] = results[i]
  <2>1. results \in Seq(Result) /\ finished \in Seq(Result)
    BY DEF LoopInv, LoopTypeOK
  <2>2. results' = Append(results, r) /\ finished' = Append(finished, r)
    BY DEF Adds
  <2> QED
    BY <1>1, <2>1, <2>2, AppendProperties
<1>3. Seen' = Seen
  BY Counts DEF Adds
<1>4. PICK s : s = Seen /\ s \in 0 .. n
  BY <1>1 DEF SeenInv
<1>5. Unseen = n - s /\ Unseen' = n + 1 - s
  BY <1>1, <1>2, <1>3, <1>4 DEF Unseen
<1>6. PICK k : k = m - (n - s)
  OBVIOUS
<1>7. Len(results) - Unseen = k
  BY <1>1, <1>5, <1>6
<1>8. Len(results') - Unseen' = k
  BY <1>1, <1>2, <1>4, <1>5, <1>6
<1>9. k \in Nat /\ FirstIds(results, k, IdsSeen)
  BY <1>7, IdsSeenFacts
<1>10. FirstIds(results', k, IdsSeen')
  BY <1>8, IdsSeenNext
<1>11. \A i \in 1 .. k : results[i].txn_id = results'[i].txn_id
  <2>1. k <= m
    BY <1>1, <1>4, <1>6
  <2> QED
    BY <1>1, <1>2, <1>9, <2>1
<1>12. IdsSeen' = IdsSeen
  BY <1>9, <1>10, <1>11, FirstIdsEqual
<1>13. calls' = calls
  BY DEF Adds
<1>14. CallsSeen' = CallsSeen
  BY <1>13 DEF CallsSeen, Pushed
<1> QED
  BY <1>3, <1>12, <1>14

(* What is pruned is pruned from what the caller sees. *)
LEMMA PruneSeen ==
  ASSUME OrderInv, SeenInv, LoopInv', SeenInv', [Next]_vars,
         NEW k \in DOMAIN results, PruneResultsBefore(results[k].txn_id)
  PROVE  \E max_id \in 1 .. Seen : Calls!PruneResultsBefore(max_id)
<1>1. LoopInv
  BY DEF OrderInv
<1>2. PICK id : id = results[k].txn_id
  OBVIOUS
<1>3. PICK d : d = Seen
  OBVIOUS
<1>4. finished' = finished /\ ~ running /\ ~ running'
  BY DEF PruneResultsBefore
<1>5. Seen' = Seen
  BY <1>4, Counts
<1>6. d = Len(finished) /\ d \in Nat /\ DOMAIN finished = 1 .. d
  BY <1>1, <1>3, <1>4, LenProperties DEF SeenInv, LoopInv, LoopTypeOK
<1>7. id \in 1 .. d
  <2>1. PICK j \in DOMAIN finished : results[k] = finished[j]
    BY DEF SeenInv
  <2>2. {finished[i].txn_id : i \in 1 .. d} = 1 .. d
    BY <1>3 DEF SeenInv
  <2> QED
    BY <1>2, <1>6, <2>1, <2>2
<1>8. Unseen = 0 /\ Unseen' = 0
  BY <1>3, <1>4, <1>5, <1>6 DEF Unseen
<1>9. PICK m \in Nat : m = Len(results) /\ DOMAIN results = 1 .. m
  BY <1>1, LenProperties DEF LoopInv, LoopTypeOK
<1>10. PICK ids : ids = IdsSeen
  OBVIOUS
<1>11. FirstIds(results, m, ids)
  <2>1. Len(results) - Unseen = m
    BY <1>8, <1>9
  <2> QED
    BY <1>1, <1>10, <2>1, IdsSeenFacts
<1>12. PICK place, n : Moves(place, n, id)
  BY <1>1, <1>2, PruneMoves
<1>13. PICK left : left = IdsSeen'
  OBVIOUS
<1>14. FirstIds(results', n, left)
  <2>1. n \in Nat /\ Len(results') = n
    BY <1>12 DEF Moves
  <2>2. Len(results') - Unseen' = n
    BY <1>8, <2>1
  <2> QED
    BY <1>13, <2>2, IdsSeenNext
<1>15. Calls!Kept(id) = Kept(id)
  BY <1>9, <1>10, <1>11 DEF FirstIds, Kept, Calls!Kept
<1>16. DOMAIN place = 1 .. n /\ \A p \in 1 .. n : place[p] \in 1 .. m
  BY <1>9, <1>12 DEF Moves
<1>17. left = [p \in DOMAIN place |-> ids[place[p]]]
  <2>1. left \in [1 .. n -> Nat]
    BY <1>14, LenProperties DEF FirstIds
  <2>2. \A p \in 1 .. n : results'[p] = results[place[p]]
    BY <1>12 DEF Moves
  <2>3. ASSUME NEW p \in 1 .. n PROVE left[p] = ids[place[p]]
    <3>1. PICK j \in 1 .. m : j = place[p]
      BY <1>16
    <3>2. left[p] = results'[p].txn_id /\ ids[j] = results[j].txn_id
      BY <1>11, <1>14 DEF FirstIds
    <3> QED
      BY <2>2, <3>1, <3>2
  <2>4. left = [p \in 1 .. n |-> left[p]]
    BY <2>1
  <2>5. left = [p \in 1 .. n |-> ids[place[p]]]
    BY <2>3, <2>4
  <2> QED
    BY <1>16, <2>5
<1>18. CallsSeen' = Append(CallsSeen, [kind |-> "prune", txn_id |-> id])
  <2>1. PICK call : call = [kind |-> "prune", txn_id |-> id]
    OBVIOUS
  <2>2. id \in Nat
    BY <1>6, <1>7
  <2>3. call \in CallRecord /\ SeenAs(call) = call
    BY <2>1, <2>2 DEF CallRecord, SeenAs
  <2>4. calls' = Append(calls, call)
    BY <1>2, <2>1 DEF PruneResultsBefore
  <2> QED
    BY <1>1, <2>1, <2>3, <2>4, CallsSeenAppend
<1>19. place \in Calls!Bijection(1 .. Calls!Cardinality(Calls!Kept(id)), Calls!Kept(id))
  <2>1. place \in Bijection(1 .. Cardinality(Kept(id)), Kept(id))
    BY <1>12 DEF Moves
  <2> QED
    BY <1>15, <2>1, BijectionSeen, CardinalitySeen
<1>20. \A p, q \in DOMAIN place : p < q => place[p] < place[q]
  BY <1>12 DEF Moves
<1>21. IdsSeen' = [p \in DOMAIN place |-> IdsSeen[place[p]]]
  BY <1>10, <1>13, <1>17
<1>22. Calls!PruneResultsBefore(id)
  BY <1>5, <1>18, <1>19, <1>20, <1>21 DEF Calls!PruneResultsBefore, Seen
<1> QED
  BY <1>3, <1>7, <1>22

(* Transactions of one stream, and those with a barrier between them, finish in
   the order they were pushed. *)
LEMMA OrderKept ==
  ASSUME OrderInv, CallInv, TimeInv, NEW i \in Pushed, NEW j \in Pushed,
         i < j, calls[i].core = calls[j].core,
         \/ calls[i].axi = calls[j].axi
         \/ \E b \in DOMAIN calls : i < b /\ b < j /\ Bars(b, calls[i].core),
         NEW k \in DOMAIN finished, NEW l \in DOMAIN finished,
         finished[k].txn_id = calls[i].txn_id, finished[l].txn_id = calls[j].txn_id
  PROVE  k < l
<1>1. LoopInv /\ IdInv /\ PlaceInv
  BY DEF OrderInv
<1>2. PICK s, t : s = StreamOf(finished[k]) /\ t = StreamOf(finished[l])
  OBVIOUS
<1>3. /\ s \in DOMAIN cursors /\ k \in OverIn(s) /\ k \in Nat /\ finished[k].txn_id \in Nat
      /\ CoreOf(s) = finished[k].core /\ SegmentOf(s) = finished[k].segment
      /\ AxiOf(s) = finished[k].axi /\ SegmentOf(s) \in Nat
  BY <1>1, <1>2, ResultFacts
<1>4. /\ t \in DOMAIN cursors /\ l \in OverIn(t) /\ l \in Nat /\ finished[l].txn_id \in Nat
      /\ CoreOf(t) = finished[l].core /\ SegmentOf(t) = finished[l].segment
      /\ AxiOf(t) = finished[l].axi /\ SegmentOf(t) \in Nat
  BY <1>1, <1>2, ResultFacts
<1>5. finished[k].txn_id \in HeldIds(s) /\ finished[l].txn_id \in HeldIds(t)
  BY <1>3, <1>4 DEF HeldIds
<1>6. /\ CoreOf(s) = calls[i].core /\ AxiOf(s) = calls[i].axi
      /\ CoreOf(t) = calls[j].core /\ AxiOf(t) = calls[j].axi
  BY <1>3, <1>4, <1>5 DEF CallInv
<1>7. Holds(s, i) /\ Holds(t, j) /\ CoreOf(s) = CoreOf(t)
  BY <1>5, <1>6 DEF Holds
<1>8. finished[k].txn_id < finished[l].txn_id
  BY DEF CallInv
<1>9. SegmentOf(s) < SegmentOf(t) => k < l
  BY <1>3, <1>4, <1>7, ZenonT(40) DEF TimeInv, PairTimes
<1>10. CASE calls[i].axi = calls[j].axi
  <2>1. CASE SegmentOf(s) = SegmentOf(t)
    <3>1. s = t
      BY <1>2, <1>3, <1>4, <1>6, <1>7, <1>10, <2>1 DEF StreamOf
    <3>2. \A x, y \in OverIn(s) : x < y => finished[x].txn_id < finished[y].txn_id
      BY <1>1, <1>3 DEF IdInv
    <3>3. l < k => finished[l].txn_id < finished[k].txn_id
      BY <1>3, <1>4, <3>1, <3>2
    <3>4. k # l
      BY <1>3, <1>8
    <3> QED
      BY <1>3, <1>4, <1>8, <3>3, <3>4
  <2>2. ~ (SegmentOf(t) < SegmentOf(s))
    <3>1. SegmentOf(t) < SegmentOf(s) => finished[l].txn_id < finished[k].txn_id
      BY <1>1, <1>3, <1>4, <1>5, <1>7 DEF IdInv
    <3> QED
      BY <1>3, <1>4, <1>8, <3>1
  <2> QED
    BY <1>3, <1>4, <1>9, <2>1, <2>2
<1>11. CASE \E b \in DOMAIN calls : i < b /\ b < j /\ Bars(b, calls[i].core)
  <2>1. PICK b \in DOMAIN calls : i < b /\ b < j /\ Bars(b, CoreOf(s))
    BY <1>6, <1>11
  <2>2. SegmentOf(s) < SegmentOf(t)
    BY <1>1, <1>3, <1>4, <1>7, <2>1 DEF PlaceInv
  <2> QED
    BY <1>9, <2>2
<1> QED
  BY <1>10, <1>11

(* The ids a run finished, in the order it finished them. *)
NewIds == [p \in 1 .. Unseen |-> finished[Seen + p].txn_id]

LEMMA NewIdsFacts ==
  ASSUME OrderInv, CallInv, SeenInv, Settled
  PROVE  /\ Seen \in Nat /\ Unseen \in Nat /\ NumPushed \in Nat /\ Unseen = NumPushed - Seen
         /\ NewIds \in Seq(Nat) /\ Len(NewIds) = Unseen
         /\ NewIds \in Bijection(1 .. NumPushed - Seen, Seen + 1 .. NumPushed)
<1>1. LoopInv /\ IdInv
  BY DEF OrderInv
<1>2. PICK n \in Nat : n = Len(finished) /\ n = NumPushed /\ DOMAIN finished = 1 .. n
  BY <1>1, AllOver, LenProperties DEF LoopInv, LoopTypeOK
<1>3. PICK d \in 0 .. n : d = Seen
  BY <1>2 DEF SeenInv
<1>4. PICK u \in Nat : u = n - d /\ u = Unseen
  BY <1>2, <1>3 DEF Unseen
<1>5. /\ {finished[k].txn_id : k \in 1 .. n} = 1 .. n
      /\ {finished[k].txn_id : k \in 1 .. d} = 1 .. d
  BY <1>2, <1>3, AllOver DEF SeenInv
<1>6. \A k, l \in 1 .. n : finished[k].txn_id = finished[l].txn_id => k = l
  BY <1>1, <1>2, FinishedOnce
<1>7. PICK f : f = [p \in 1 .. u |-> finished[d + p].txn_id]
  OBVIOUS
<1>8. ASSUME NEW p \in 1 .. u PROVE d + p \in 1 .. n /\ d + p \notin 1 .. d /\ f[p] \in d + 1 .. n
  <2>1. d + p \in 1 .. n /\ d + p \notin 1 .. d
    BY <1>3, <1>4
  <2>2. finished[d + p].txn_id \in 1 .. n
    BY <1>5, <2>1
  <2>3. ASSUME finished[d + p].txn_id \in 1 .. d PROVE FALSE
    <3>1. PICK k \in 1 .. d : finished[k].txn_id = finished[d + p].txn_id
      BY <1>5, <2>3
    <3>2. k \in 1 .. n
      BY <1>3
    <3> QED
      BY <1>6, <2>1, <3>1, <3>2
  <2>4. f[p] = finished[d + p].txn_id
    BY <1>7
  <2> QED
    BY <1>3, <2>1, <2>2, <2>3, <2>4
<1>9. f \in [1 .. u -> d + 1 .. n]
  BY <1>7, <1>8
<1>10. ASSUME NEW p \in 1 .. u, NEW q \in 1 .. u, f[p] = f[q] PROVE p = q
  <2>1. finished[d + p].txn_id = finished[d + q].txn_id
    BY <1>7, <1>10
  <2>2. d + p = d + q
    BY <1>6, <1>8, <2>1
  <2> QED
    BY <1>3, <2>2
<1>11. ASSUME NEW id \in d + 1 .. n PROVE \E p \in 1 .. u : f[p] = id
  <2>1. id \in 1 .. n /\ id \notin 1 .. d
    BY <1>3
  <2>2. PICK k \in 1 .. n : finished[k].txn_id = id
    BY <1>5, <2>1
  <2>3. k \notin 1 .. d
    BY <1>5, <2>1, <2>2
  <2>4. PICK p : p = k - d
    OBVIOUS
  <2>5. p \in 1 .. u /\ d + p = k
    BY <1>3, <1>4, <2>3, <2>4
  <2>6. f[p] = id
    BY <1>7, <2>2, <2>5
  <2> QED
    BY <2>5, <2>6
<1>12. f \in Bijection(1 .. u, d + 1 .. n)
  BY <1>9, <1>10, <1>11, Zenon DEF Bijection, Injection, IsInjective, Surjection
<1>13. f \in Seq(Nat) /\ Len(f) = u
  <2>1. f \in [1 .. u -> Nat]
    BY <1>3, <1>9
  <2> QED
    BY <2>1, FunctionIsSequence
<1>14. NewIds = f
  BY <1>3, <1>4, <1>7 DEF NewIds
<1> QED
  BY <1>2, <1>3, <1>4, <1>12, <1>13, <1>14

(* As run() returns, all it has finished comes into sight at once. *)
LEMMA RunSeen ==
  ASSUME OrderInv, CallInv, SeenInv, TimeInv, LoopInv', SeenInv', Return, [Next]_vars
  PROVE  Calls!Run
<1>1. LoopInv
  BY DEF OrderInv
<1>2. /\ finished' = finished /\ results' = results /\ calls' = calls
      /\ running /\ ~ running' /\ Settled
  BY DEF Return, ReturnFromRun, Busy, Settled
<1>3. PICK order, u, d : order = NewIds /\ u = Unseen /\ d = Seen
  OBVIOUS
<1>4. /\ d \in Nat /\ u \in Nat /\ NumPushed \in Nat /\ u = NumPushed - d
      /\ order \in Seq(Nat) /\ Len(order) = u
      /\ order \in Bijection(1 .. NumPushed - d, d + 1 .. NumPushed)
  BY <1>2, <1>3, NewIdsFacts
<1>5. PICK n \in Nat : n = Len(finished) /\ n = NumPushed /\ DOMAIN finished = 1 .. n
  BY <1>1, <1>2, AllOver, LenProperties DEF LoopInv, LoopTypeOK
<1>6. Seen' = n
  BY <1>2, <1>5, Counts DEF SeenInv
<1>7. Unseen' = 0
  BY <1>2, <1>5, <1>6 DEF Unseen
<1>8. PICK m \in Nat : m = Len(results) /\ DOMAIN results = 1 .. m
  BY <1>1, LenProperties DEF LoopInv, LoopTypeOK
<1>9. PICK ids, all, k : ids = IdsSeen /\ all = IdsSeen' /\ k = m - u
  OBVIOUS
<1>10. k \in Nat /\ FirstIds(results, k, ids)
  <2>1. Len(results) - Unseen = k
    BY <1>3, <1>8, <1>9
  <2> QED
    BY <1>1, <1>9, <2>1, IdsSeenFacts
<1>11. FirstIds(results, m, all)
  <2>1. Len(results') - Unseen' = m
    BY <1>2, <1>7, <1>8
  <2> QED
    BY <1>2, <1>9, <2>1, IdsSeenNext
<1>12. DOMAIN order = 1 .. u /\ \A p \in 1 .. u : order[p] = finished[d + p].txn_id
  BY <1>3, <1>4 DEF NewIds
<1>13. \A p \in 1 .. u : results[k + p] = finished[d + p]
  <2>1. \A p \in 1 .. u : results[m - u + p] = finished[d + p]
    BY <1>3, <1>8 DEF SeenInv
  <2> QED
    BY <1>9, <2>1
<1>14. all = ids \o order
  <2>1. ids \in Seq(Nat) /\ Len(ids) = k /\ all \in Seq(Nat) /\ Len(all) = m
    BY <1>10, <1>11 DEF FirstIds
  <2>2. /\ ids \o order \in Seq(Nat) /\ Len(ids \o order) = k + u
        /\ \A i \in 1 .. k + u : (ids \o order)[i] = IF i <= k THEN ids[i] ELSE order[i - k]
    <3>1. order \in Seq(Nat) /\ Len(order) = u
      BY <1>4
    <3>2. /\ ids \o order \in Seq(Nat) /\ Len(ids \o order) = Len(ids) + Len(order)
          /\ \A i \in 1 .. Len(ids) + Len(order) :
               (ids \o order)[i] = IF i <= Len(ids) THEN ids[i] ELSE order[i - Len(ids)]
      BY <2>1, <3>1, ConcatProperties
    <3> QED
      BY <2>1, <3>1, <3>2
  <2>3. k + u = m
    BY <1>4, <1>8, <1>9
  <2>4. ASSUME NEW i \in 1 .. m PROVE all[i] = (ids \o order)[i]
    <3>1. all[i] = results[i].txn_id
      BY <1>11 DEF FirstIds
    <3>2. CASE i <= k
      <4>1. i \in 1 .. k
        BY <1>10, <3>2
      <4>2. ids[i] = results[i].txn_id
        BY <1>10, <4>1 DEF FirstIds
      <4> QED
        BY <2>2, <2>3, <3>1, <3>2, <4>2
    <3>3. CASE ~ (i <= k)
      <4>1. PICK p : p = i - k
        OBVIOUS
      <4>2. p \in 1 .. u /\ k + p = i
        BY <1>4, <1>10, <2>3, <3>3, <4>1
      <4>3. order[p] = results[i].txn_id
        BY <1>12, <1>13, <4>2
      <4> QED
        BY <2>2, <2>3, <3>1, <3>3, <4>1, <4>3
    <3> QED
      BY <3>2, <3>3
  <2> QED
    BY <2>1, <2>2, <2>3, <2>4, SeqEqual
<1>15. ASSUME NEW i \in Calls!Pushes, NEW j \in Calls!Pushes,
              NEW p \in DOMAIN order, NEW q \in DOMAIN order,
              Calls!Ordered(i, j), order[p] = CallsSeen[i].txn_id, order[q] = CallsSeen[j].txn_id
       PROVE  p < q
  <2>1. i \in Pushed /\ j \in Pushed
    BY <1>1, PushesSeen
  <2>2. /\ CallsSeen[i].core = calls[i].core /\ CallsSeen[i].axi = calls[i].axi
        /\ CallsSeen[j].core = calls[j].core /\ CallsSeen[j].axi = calls[j].axi
        /\ CallsSeen[i].txn_id = calls[i].txn_id /\ CallsSeen[j].txn_id = calls[j].txn_id
    BY <1>1, <2>1, PushesSeen
  <2>3. i < j /\ calls[i].core = calls[j].core
    BY <1>15, <2>2 DEF Calls!Ordered
  <2>4. ASSUME NEW b \in i .. j, CallsSeen[b].kind = "barrier", CallsSeen[b].core = CallsSeen[i].core
        PROVE  \E x \in DOMAIN calls : i < x /\ x < j /\ Bars(x, calls[i].core)
    <3>1. DOMAIN calls = 1 .. Len(calls) /\ Len(calls) \in Nat
      BY <1>1, LenProperties DEF LoopInv, LoopTypeOK
    <3>2. i \in DOMAIN calls /\ j \in DOMAIN calls /\ calls[i].kind = "txn" /\ calls[j].kind = "txn"
      BY <2>1 DEF Pushed
    <3>3. b \in DOMAIN calls
      BY <3>1, <3>2
    <3>4. calls[b].kind = "barrier" /\ calls[b].core = calls[i].core
      BY <1>1, <2>2, <2>4, <3>3, CallsSeenFacts, SeenAsTyped
    <3>5. b # i /\ b # j
      BY <3>2, <3>4
    <3>6. i < b /\ b < j
      BY <3>1, <3>2, <3>3, <3>5
    <3> QED
      BY <3>3, <3>4, <3>6 DEF Bars
  <2>5. \/ calls[i].axi = calls[j].axi
        \/ \E b \in DOMAIN calls : i < b /\ b < j /\ Bars(b, calls[i].core)
    BY <1>15, <2>2, <2>4 DEF Calls!Ordered
  <2>6. d + p \in DOMAIN finished /\ d + q \in DOMAIN finished
    BY <1>4, <1>5, <1>12
  <2>7. finished[d + p].txn_id = calls[i].txn_id /\ finished[d + q].txn_id = calls[j].txn_id
    BY <1>12, <1>15, <2>2
  <2>8. d + p < d + q
    BY <2>1, <2>3, <2>5, <2>6, <2>7, OrderKept
  <2> QED
    BY <1>4, <1>12, <2>8
<1>16. order \in Calls!FinishingOrders
  <2>1. order \in Calls!Bijection(1 .. Calls!NumPushed - d, d + 1 .. Calls!NumPushed)
    BY <1>1, <1>4, BijectionSeen, PushesSeen
  <2> QED
    BY <1>3, <1>15, <2>1 DEF Calls!FinishingOrders, Seen
<1>17. CallsSeen' = CallsSeen
  BY <1>2 DEF CallsSeen, Pushed
<1>18. IdsSeen' = IdsSeen \o order /\ summary.total_txns' = Calls!NumPushed
  BY <1>1, <1>5, <1>6, <1>9, <1>14, PushesSeen DEF Seen
<1> QED
  BY <1>16, <1>17, <1>18 DEF Calls!Run

LEMMA InitSees == Init => Calls!Init
<1> SUFFICES ASSUME Init PROVE Calls!Init
  OBVIOUS
<1>1. /\ finished = <<>> /\ results = <<>> /\ calls = <<>>
      /\ totals.txns = 0 /\ summary.total_txns = 0
  BY DEF Init, FrontInit, NoSummary
<1>2. DOMAIN calls = {} /\ CallsSeen = <<>>
  BY <1>1 DEF CallsSeen
<1>3. ResultsSeen = <<>>
  <2>1. Len(results) = 0
    BY <1>1
  <2>2. Len(results) - (totals.txns - summary.total_txns) = 0
    BY <1>1, <2>1
  <2> QED
    BY <1>1, <2>2 DEF ResultsSeen
<1>4. IdsSeen = <<>>
  BY <1>3 DEF IdsSeen
<1> QED
  BY <1>1, <1>2, <1>4 DEF Calls!Init

(* To its callers a run is one step that finishes everything pushed before it,
   each transaction once and in the order of its stream and its core's barriers,
   and nothing but a pruning takes a result away (ImplementsCalls; Engine::run,
   push_txn, push_barrier, prune_results_before). *)
THEOREM CallersSeeWholeRuns == Spec => ImplementsCalls
<1>1. ASSUME OrderInv, CallInv, SeenInv, TimeInv, (OrderInv /\ SeenInv)', [Next]_vars
      PROVE  [Calls!Next]_(Calls!callVars)
  <2>1. LoopInv /\ LoopInv' /\ SeenInv'
    BY <1>1 DEF OrderInv
  <2>2. ASSUME NEW core \in Cores, NEW axi \in AxiIds, NEW txn \in Txns,
               PushTxn(core, axi, txn), SeesSame
        PROVE  Calls!Next
    BY <1>1, <2>1, <2>2, PushTxnSeen DEF Calls!Next
  <2>3. ASSUME NEW core \in Cores, PushBarrier(core), SeesSame PROVE Calls!Next
    BY <1>1, <2>1, <2>3, PushBarrierSeen DEF Calls!Next
  <2>4. ASSUME NEW k \in DOMAIN results, PruneResultsBefore(results[k].txn_id) PROVE Calls!Next
    BY <1>1, <2>1, <2>4, PruneSeen DEF Calls!Next, Seen
  <2>5. CASE calls' = calls /\ SeesSame
    <3>1. CallsSeen' = CallsSeen
      BY <2>5 DEF CallsSeen, Pushed
    <3> QED
      BY <1>1, <2>5, <3>1, SeenNothing DEF Calls!callVars, Seen
  <2>6. ASSUME NEW r \in Result, Adds(r) PROVE UNCHANGED Calls!callVars
    BY <1>1, <2>1, <2>6, AddsUnseen DEF Calls!callVars, Seen
  <2>7. CASE Return
    BY <1>1, <2>1, <2>7, RunSeen DEF Calls!Next
  <2> QED
    BY <1>1, <2>1, <2>2, <2>3, <2>4, <2>5, <2>6, <2>7, SeenCases
<1> QED
  BY <1>1, InitSees, AlwaysTimed, AlwaysSeen, PTL DEF Spec, ImplementsCalls, Calls!Spec

-----------------------------------------------------------------------------
(***************************************************************************)
(* Waiting for the cap.  When a transaction is issued its core's port and  *)
(* the gate of its segment are the last issue of the core and the last     *)
(* completion in front of the segment, and from then on until it issued    *)
(* the stream was at its cap.                                              *)
(***************************************************************************)
(* What is recorded of a transaction that has been issued. *)
Start(core, axi, segment, issue, wait) ==
  [core |-> core, axi |-> axi, segment |-> segment, issue |-> issue, wait |-> wait]

StartOf(r) == Start(r.core, r.axi, r.segment, r.issue, r.wait)
StartIn(s) ==
  Start(CoreOf(s), AxiOf(s), SegmentOf(s), cursors[s].in_progress.issue_cycle,
        cursors[s].in_progress.outstanding_wait_cycles)

Begun == {StartOf(finished[k]) : k \in DOMAIN finished} \cup {StartIn(s) : s \in Serving}

(* The ends of what is over in front of segment m of a core. *)
EndsBefore(core, m) ==
  {finished[k].complete : k \in {j \in DOMAIN finished : finished[j].core = core /\ finished[j].segment < m}}

(* The cycles from which a core's port was free again, and those before it issued
   at `cycle`. *)
Ports(core) == {b.issue + 1 : b \in {a \in Begun : a.core = core}}
PortsBefore(core, cycle) == {b.issue + 1 : b \in {a \in Begun : a.core = core /\ a.issue < cycle}}

(* What a stream had in flight at a cycle. *)
Flight(core, axi, cycle) ==
  {k \in DOMAIN finished : /\ finished[k].core = core /\ finished[k].axi = axi
                           /\ finished[k].issue <= cycle /\ cycle < finished[k].complete}

(* The cycle from which the cap alone held b back, and what it is the latest of. *)
HeldFrom(b) == b.issue - b.wait
PortOrGate(b) == {0} \cup PortsBefore(b.core, b.issue) \cup EndsBefore(b.core, b.segment)

StartOK(b) ==
  /\ b.wait <= b.issue
  /\ HeldFrom(b) \in PortOrGate(b) /\ \A x \in PortOrGate(b) : x <= HeldFrom(b)
  /\ \A cycle \in HeldFrom(b) .. b.issue - 1 : Cardinality(Flight(b.core, b.axi, cycle)) = MaxOutstanding

(* The end of a segment, and the gate of one that is open, is the end of something. *)
EndReached(core, m) == segments[core][m].max_complete \in {0} \cup EndsBefore(core, m + 1)
GateReached(core, m) ==
  segments[core][m].gate_known => segments[core][m].gate_cycle \in {0} \cup EndsBefore(core, m)

Tagged(s) == \A o \in cursors[s].outstanding : \E k \in OverIn(s) : o = TagOf(finished[k])

WaitInv ==
  /\ \A core \in Cores : \A m \in DOMAIN segments[core] : EndReached(core, m) /\ GateReached(core, m)
  /\ \A core \in Cores : port_free[core] \in {0} \cup Ports(core)
  /\ \A s \in DOMAIN cursors : Tagged(s)
  /\ \A b \in Begun : StartOK(b)
  /\ ~ running => Serving = {}

LEMMA BegunFacts ==
  ASSUME LoopInv, SegInv, IdInv, TimeInv, NEW b \in Begun
  PROVE  /\ b.core \in Cores /\ b.issue \in Nat /\ b.wait \in Nat /\ b.segment \in Nat
         /\ b.segment \in DOMAIN segments[b.core] /\ segments[b.core][b.segment].gate_known
         /\ b.issue < port_free[b.core]
<1>1. ASSUME NEW k \in DOMAIN finished, b = StartOf(finished[k])
      PROVE  /\ b.core \in Cores /\ b.issue \in Nat /\ b.wait \in Nat /\ b.segment \in Nat
             /\ b.segment \in DOMAIN segments[b.core] /\ segments[b.core][b.segment].gate_known
             /\ b.issue < port_free[b.core]
  <2>1. PICK r : r = finished[k]
    OBVIOUS
  <2>2. b.core = r.core /\ b.issue = r.issue /\ b.wait = r.wait /\ b.segment = r.segment
    BY <1>1, <2>1 DEF StartOf, Start
  <2>3. /\ r \in Result /\ r.core \in Cores /\ r.segment \in Nat /\ r.segment \in DOMAIN segments[r.core]
        /\ r.issue \in Nat /\ CoreOf(StreamOf(r)) = r.core /\ SegmentOf(StreamOf(r)) = r.segment
    BY <2>1, ResultFacts
  <2>4. r.wait \in Nat
    BY <2>3 DEF Result
  <2>5. r.issue < port_free[r.core] /\ Known(StreamOf(r))
    BY <2>1 DEF TimeInv, ResultTimes
  <2> QED
    BY <2>2, <2>3, <2>4, <2>5 DEF Known
<1>2. ASSUME NEW s \in Serving, b = StartIn(s)
      PROVE  /\ b.core \in Cores /\ b.issue \in Nat /\ b.wait \in Nat /\ b.segment \in Nat
             /\ b.segment \in DOMAIN segments[b.core] /\ segments[b.core][b.segment].gate_known
             /\ b.issue < port_free[b.core]
  <2>1. PICK ip : ip = cursors[s].in_progress
    OBVIOUS
  <2>2. /\ b.core = CoreOf(s) /\ b.issue = ip.issue_cycle /\ b.wait = ip.outstanding_wait_cycles
        /\ b.segment = SegmentOf(s)
    BY <1>2, <2>1 DEF StartIn, Start
  <2>3. s \in DOMAIN cursors /\ Known(s)
    BY ServingFacts
  <2>4. /\ CoreOf(s) \in Cores /\ SegmentOf(s) \in Nat /\ SegmentOf(s) \in DOMAIN segments[CoreOf(s)]
        /\ ip \in InProgress
    BY <2>1, <2>3, StreamFacts DEF Cursor
  <2>5. ip.issue_cycle < port_free[CoreOf(s)]
    BY <2>1 DEF TimeInv, ServingTimes
  <2>6. ip.issue_cycle \in Nat /\ ip.outstanding_wait_cycles \in Nat
    BY <2>4 DEF InProgress
  <2> QED
    BY <2>2, <2>3, <2>4, <2>5, <2>6 DEF Known
<1> QED
  BY <1>1, <1>2 DEF Begun

(* Steps that issue nothing leave what has begun; the end of a transaction only
   moves it from the streams to the results. *)
LEMMA BegunPushes ==
  ASSUME LoopInv, NEW s \in Streams, NEW entry \in Entry, StepPushes(s, entry)
  PROVE  Begun' = Begun
<1>1. /\ Serving' = Serving /\ finished' = finished
      /\ SameTimes(CursorBefore(s), cursors'[s])
      /\ \A t \in DOMAIN cursors \ {s} : cursors'[t] = cursors[t]
  BY DEF StepPushes
<1>2. \A t \in Serving : cursors'[t].in_progress = cursors[t].in_progress
  BY <1>1 DEF Serving, SameTimes, CursorBefore
<1>3. \A t \in Serving : StartIn(t)' = StartIn(t)
  BY <1>2 DEF StartIn
<1>4. \A k \in DOMAIN finished : StartOf(finished[k])' = StartOf(finished[k])
  BY <1>1 DEF StartOf
<1> QED
  BY <1>1, <1>3, <1>4 DEF Begun

LEMMA BegunSame ==
  ASSUME Serving' = Serving, finished' = finished,
         \A t \in DOMAIN cursors :
           /\ cursors'[t].in_progress.issue_cycle = cursors[t].in_progress.issue_cycle
           /\ cursors'[t].in_progress.outstanding_wait_cycles = cursors[t].in_progress.outstanding_wait_cycles
  PROVE  Begun' = Begun
<1>1. \A t \in Serving : StartIn(t)' = StartIn(t)
  BY DEF Serving, StartIn
<1>2. \A k \in DOMAIN finished : StartOf(finished[k])' = StartOf(finished[k])
  BY DEF StartOf
<1> QED
  BY <1>1, <1>2 DEF Begun

LEMMA BegunFinishes ==
  ASSUME LoopInv, NEW s \in DOMAIN cursors, NEW complete \in Nat, NEW gate \in Nat,
         NEW ip, NEW opened, StepFinishes(s, ip, complete, gate, opened)
  PROVE  Begun' = Begun
<1>1. PICK n \in Nat, q \in Result : Reports(s, ip, complete, n, q)
  BY FinishedAppend
<1>2. /\ s \in Serving /\ Serving' = Serving \ {s}
      /\ ip.issue_cycle = cursors[s].in_progress.issue_cycle
      /\ ip.outstanding_wait_cycles = cursors[s].in_progress.outstanding_wait_cycles
      /\ \A t \in DOMAIN cursors \ {s} : SameTimes(cursors[t], cursors'[t])
  BY DEF StepFinishes
<1>3. /\ DOMAIN finished' = DOMAIN finished \cup {n + 1}
      /\ \A k \in DOMAIN finished : finished'[k] = finished[k]
      /\ finished'[n + 1] = q /\ q.core = CoreOf(s) /\ q.segment = SegmentOf(s) /\ q.axi = AxiOf(s)
      /\ q.issue = ip.issue_cycle /\ q.wait = ip.outstanding_wait_cycles
  BY <1>1 DEF Reports
<1>4. StartOf(q) = StartIn(s)
  BY <1>2, <1>3 DEF StartOf, StartIn
<1>5. \A t \in Serving \ {s} : StartIn(t)' = StartIn(t)
  BY <1>2 DEF Serving, StartIn, SameTimes
<1>6. PICK over, serving : /\ over = {StartOf(finished[k]) : k \in DOMAIN finished}
                           /\ serving = {StartIn(t) : t \in Serving \ {s}}
  OBVIOUS
<1>7. {StartOf(finished'[k]) : k \in DOMAIN finished'} = over \cup {StartOf(q)}
  BY <1>3, <1>6
<1>8. {StartIn(t)' : t \in Serving'} = serving
  BY <1>2, <1>5, <1>6
<1>9. Begun = over \cup serving \cup {StartIn(s)}
  BY <1>2, <1>6 DEF Begun
<1>10. Begun' = over \cup {StartOf(q)} \cup serving
  <2>1. Begun' = {StartOf(finished'[k]) : k \in DOMAIN finished'} \cup {StartIn(t)' : t \in Serving'}
    BY DEF Begun, StartOf
  <2> QED
    BY <1>7, <1>8, <2>1
<1> QED
  BY <1>4, <1>9, <1>10

LEMMA BegunIssues ==
  ASSUME LoopInv, NEW s \in DOMAIN cursors, NEW issue \in Nat, StepIssues(s, issue)
  PROVE  Begun' = Begun \cup {Start(CoreOf(s), AxiOf(s), SegmentOf(s), issue, OutstandingWait(s, cursors[s]))}
<1>1. PICK wait : wait = OutstandingWait(s, cursors[s])
  OBVIOUS
<1>2. /\ s \notin Serving /\ Serving' = Serving \cup {s} /\ finished' = finished
      /\ cursors'[s].in_progress.issue_cycle = issue
      /\ cursors'[s].in_progress.outstanding_wait_cycles = wait
      /\ \A t \in DOMAIN cursors \ {s} : cursors'[t] = cursors[t]
  BY <1>1 DEF StepIssues
<1>3. \A t \in Serving : StartIn(t)' = StartIn(t)
  BY <1>2 DEF Serving, StartIn
<1>4. StartIn(s)' = Start(CoreOf(s), AxiOf(s), SegmentOf(s), issue, wait)
  BY <1>2 DEF StartIn
<1>5. Begun' = {StartOf(finished[k]) : k \in DOMAIN finished} \cup {StartIn(t)' : t \in Serving \cup {s}}
  BY <1>2 DEF Begun, StartOf
<1> QED
  BY <1>1, <1>3, <1>4, <1>5 DEF Begun

(* What is over stays over. *)
LEMMA EndsGrow ==
  ASSUME LoopInv, NEW s \in DOMAIN cursors, NEW complete \in Nat, NEW gate \in Nat,
         NEW ip, NEW opened, StepFinishes(s, ip, complete, gate, opened)
  PROVE  /\ \A core, m : EndsBefore(core, m) \subseteq EndsBefore(core, m)'
         /\ complete \in EndsBefore(CoreOf(s), SegmentOf(s) + 1)'
         /\ \A core, m : core # CoreOf(s) \/ ~ (SegmentOf(s) < m) => EndsBefore(core, m)' = EndsBefore(core, m)
<1>1. PICK n \in Nat, q \in Result : Reports(s, ip, complete, n, q)
  BY FinishedAppend
<1>2. /\ DOMAIN finished' = DOMAIN finished \cup {n + 1} /\ n + 1 \notin DOMAIN finished
      /\ \A k \in DOMAIN finished : finished'[k] = finished[k]
      /\ finished'[n + 1] = q /\ q.core = CoreOf(s) /\ q.segment = SegmentOf(s) /\ q.complete = complete
  BY <1>1 DEF Reports
<1>3. SegmentOf(s) < SegmentOf(s) + 1
  <2>1. SegmentOf(s) \in Nat
    BY StreamFacts
  <2> QED
    BY <2>1
<1>4. \A core, m : EndsBefore(core, m) \subseteq EndsBefore(core, m)'
  BY <1>2 DEF EndsBefore
<1>5. complete \in EndsBefore(CoreOf(s), SegmentOf(s) + 1)'
  BY <1>2, <1>3 DEF EndsBefore
<1>6. ASSUME NEW core, NEW m, core # CoreOf(s) \/ ~ (SegmentOf(s) < m)
      PROVE  EndsBefore(core, m)' = EndsBefore(core, m)
  <2>1. {j \in DOMAIN finished' : finished'[j].core = core /\ finished'[j].segment < m}
          = {j \in DOMAIN finished : finished[j].core = core /\ finished[j].segment < m}
    BY <1>2, <1>6
  <2> QED
    BY <1>2, <2>1 DEF EndsBefore
<1> QED
  BY <1>4, <1>5, <1>6

LEMMA EndsPushes ==
  ASSUME LoopInv, WaitInv, NEW s \in Streams, NEW entry \in Entry, StepPushes(s, entry)
  PROVE  \A core \in Cores : \A m \in DOMAIN segments'[core] : EndReached(core, m)' /\ GateReached(core, m)'
<1> SUFFICES ASSUME NEW core \in Cores, NEW m \in DOMAIN segments'[core]
             PROVE  EndReached(core, m)' /\ GateReached(core, m)'
  OBVIOUS
<1>1. finished' = finished /\ segments' = [segments EXCEPT ![CoreOf(s)] = OpenSegments(CoreOf(s))]
  BY DEF StepPushes
<1>2. EndsBefore(core, m)' = EndsBefore(core, m) /\ EndsBefore(core, m + 1)' = EndsBefore(core, m + 1)
  BY <1>1 DEF EndsBefore
<1>3. segments \in [Cores -> Seq(Segment)]
  BY DEF LoopInv, LoopTypeOK
<1>4. CASE m \in DOMAIN segments[core] /\ segments'[core] = segments[core]
  BY <1>2, <1>4 DEF WaitInv, EndReached, GateReached
<1>5. CASE ~ (m \in DOMAIN segments[core] /\ segments'[core] = segments[core])
  <2>1. core = CoreOf(s) /\ segments[core] = <<>>
    BY <1>1, <1>3, <1>5 DEF OpenSegments
  <2>2. segments'[core] = <<NewSegment(TRUE, 0)>>
    BY <1>1, <1>3, <2>1 DEF OpenSegments
  <2>3. segments'[core][m] = NewSegment(TRUE, 0)
    <3>1. PICK new : new = NewSegment(TRUE, 0)
      OBVIOUS
    <3>2. \A i \in DOMAIN <<new>> : <<new>>[i] = new
      OBVIOUS
    <3> QED
      BY <2>2, <3>1, <3>2
  <2> QED
    BY <2>3 DEF EndReached, GateReached, NewSegment
<1> QED
  BY <1>4, <1>5

LEMMA EndsBars ==
  ASSUME LoopInv, WaitInv, NEW x \in Cores, StepBars(x)
  PROVE  \A core \in Cores : \A m \in DOMAIN segments'[core] : EndReached(core, m)' /\ GateReached(core, m)'
<1> SUFFICES ASSUME NEW core \in Cores, NEW m \in DOMAIN segments'[core]
             PROVE  EndReached(core, m)' /\ GateReached(core, m)'
  OBVIOUS
<1>1. PushBarrier(x) /\ finished' = finished
  BY DEF StepBars, PushBarrier
<1>2. EndsBefore(core, m)' = EndsBefore(core, m) /\ EndsBefore(core, m + 1)' = EndsBefore(core, m + 1)
  BY <1>1 DEF EndsBefore
<1>3. PICK k : k = Len(segments[x])
  OBVIOUS
<1>4. /\ k \in Nat \ {0} /\ Len(segments'[x]) = k + 1 /\ segments'[x][k + 1] = SegmentAfter(x, k)
      /\ \A y \in Cores : y # x => segments'[y] = segments[y]
      /\ \A j \in DOMAIN segments[x] : /\ segments'[x][j].gate_known = segments[x][j].gate_known
                                       /\ segments'[x][j].gate_cycle = segments[x][j].gate_cycle
                                       /\ segments'[x][j].max_complete = segments[x][j].max_complete
      /\ segments' \in [Cores -> Seq(Segment)]
  BY <1>1, <1>3, BarrierSegments
<1>5. segments[x] \in Seq(Segment) /\ segments'[x] \in Seq(Segment)
  BY <1>4 DEF LoopInv, LoopTypeOK
<1>6. DOMAIN segments[x] = 1 .. k /\ DOMAIN segments'[x] = 1 .. k + 1
  BY <1>3, <1>4, <1>5, LenProperties
<1>7. CASE m \in DOMAIN segments[core]
  <2>1. EndReached(core, m) /\ GateReached(core, m)
    BY <1>7 DEF WaitInv
  <2>2. /\ segments'[core][m].gate_known = segments[core][m].gate_known
        /\ segments'[core][m].gate_cycle = segments[core][m].gate_cycle
        /\ segments'[core][m].max_complete = segments[core][m].max_complete
    BY <1>4, <1>7
  <2> QED
    BY <1>2, <2>1, <2>2 DEF EndReached, GateReached
<1>8. CASE m \notin DOMAIN segments[core]
  <2>1. core = x /\ m = k + 1
    BY <1>4, <1>6, <1>8
  <2>2. k \in DOMAIN segments[x] /\ EndReached(x, k)
    BY <1>4, <1>6 DEF WaitInv
  <2>3. PICK new : new = segments'[core][m]
    OBVIOUS
  <2>4. new = SegmentAfter(x, k)
    BY <1>4, <2>1, <2>3
  <2>5. new.max_complete = 0 /\ (new.gate_known => new.gate_cycle = segments[x][k].max_complete)
    BY <2>4 DEF SegmentAfter, NewSegment
  <2> QED
    BY <1>2, <2>1, <2>2, <2>3, <2>5 DEF EndReached, GateReached
<1> QED
  BY <1>7, <1>8

LEMMA EndsFinishes ==
  ASSUME LoopInv, WaitInv, NEW s \in DOMAIN cursors, NEW complete \in Nat, NEW gate \in Nat,
         NEW ip, NEW opened, StepFinishes(s, ip, complete, gate, opened)
  PROVE  \A core \in Cores : \A m \in DOMAIN segments'[core] : EndReached(core, m)' /\ GateReached(core, m)'
<1> SUFFICES ASSUME NEW core \in Cores, NEW m \in DOMAIN segments'[core]
             PROVE  EndReached(core, m)' /\ GateReached(core, m)'
  OBVIOUS
<1>1. m \in DOMAIN segments[core]
  BY FinishedSegments
<1>2. EndReached(core, m) /\ GateReached(core, m)
  BY <1>1 DEF WaitInv
<1>3. /\ EndsBefore(core, m) \subseteq EndsBefore(core, m)'
      /\ EndsBefore(core, m + 1) \subseteq EndsBefore(core, m + 1)'
  BY EndsGrow
<1>4. PICK old, new : old = segments[core][m] /\ new = segments'[core][m]
  OBVIOUS
<1>5. CASE core # CoreOf(s)
  <2>1. new = old
    BY <1>4, <1>5, FinishedSegments
  <2> QED
    BY <1>2, <1>3, <1>4, <2>1 DEF EndReached, GateReached
<1>6. CASE core = CoreOf(s)
  <2>1. /\ new.gate_known <=> old.gate_known \/ m \in opened
        /\ new.max_complete = IF m = SegmentOf(s) THEN gate ELSE old.max_complete
        /\ new.gate_cycle = IF m \in opened THEN gate ELSE old.gate_cycle
        /\ m \in opened => m = SegmentOf(s) + 1
    BY <1>1, <1>4, <1>6, FinishedSegments
  <2>2. gate \in {0} \cup EndsBefore(core, SegmentOf(s) + 1)'
    <3>1. gate = Later(segments[core][SegmentOf(s)].max_complete, complete)
      BY <1>6 DEF StepFinishes, GateAfter
    <3>2. EndReached(core, SegmentOf(s))
      BY <1>6, StreamFacts DEF WaitInv
    <3>3. segments[core][SegmentOf(s)].max_complete \in {0} \cup EndsBefore(core, SegmentOf(s) + 1)'
      BY <3>2, EndsGrow DEF EndReached
    <3> QED
      BY <1>6, <3>1, <3>3, EndsGrow DEF Later
  <2>3. EndReached(core, m)'
    BY <1>2, <1>3, <1>4, <2>1, <2>2 DEF EndReached
  <2>4. GateReached(core, m)'
    BY <1>2, <1>3, <1>4, <2>1, <2>2 DEF GateReached
  <2> QED
    BY <2>3, <2>4
<1> QED
  BY <1>5, <1>6

(* What counts as outstanding is of the stream's own transactions. *)
LEMMA TaggedFinishes ==
  ASSUME LoopInv, WaitInv, NEW s \in DOMAIN cursors, NEW complete \in Nat, NEW gate \in Nat,
         NEW ip, NEW opened, StepFinishes(s, ip, complete, gate, opened)
  PROVE  \A t \in DOMAIN cursors' : Tagged(t)'
<1> SUFFICES ASSUME NEW t \in DOMAIN cursors PROVE Tagged(t)'
  BY DEF StepFinishes
<1>1. PICK n \in Nat, q \in Result : Reports(s, ip, complete, n, q)
  BY FinishedAppend
<1>2. /\ \A k \in DOMAIN finished : finished'[k] = finished[k]
      /\ finished'[n + 1] = q /\ q.txn_id = ip.txn_id /\ q.complete = complete
      /\ OverIn(s)' = OverIn(s) \cup {n + 1}
      /\ \A u : u # s => OverIn(u)' = OverIn(u)
  BY <1>1 DEF Reports
<1>3. Tagged(t)
  BY DEF WaitInv
<1>4. \A o \in cursors[t].outstanding : \E k \in OverIn(t)' : o = TagOf(finished'[k])
  <2>1. \A k \in OverIn(t) : k \in OverIn(t)' /\ finished'[k] = finished[k]
    BY <1>2 DEF OverIn
  <2> QED
    BY <1>3, <2>1 DEF Tagged
<1>5. CASE t = s
  <2>1. cursors'[s].outstanding = cursors[s].outstanding \cup {[txn_id |-> ip.txn_id, complete |-> complete]}
    <3>1. /\ cursors[s].pending # <<>> /\ ip \in InProgress
          /\ cursors'[s] = Finished(cursors[s], ip, complete)
      BY DEF StepFinishes
    <3> QED
      BY <3>1, StreamFacts, FinishedTyped
  <2>2. [txn_id |-> ip.txn_id, complete |-> complete] = TagOf(finished'[n + 1]) /\ n + 1 \in OverIn(s)'
    BY <1>2 DEF TagOf
  <2>3. \A o \in cursors'[t].outstanding : \E k \in OverIn(t)' : o = TagOf(finished'[k])
    BY <1>4, <1>5, <2>1, <2>2
  <2> QED
    BY <2>3 DEF Tagged, TagOf
<1>6. CASE t # s
  <2>1. cursors'[t].outstanding = cursors[t].outstanding
    BY <1>6 DEF StepFinishes, SameTimes
  <2> QED
    BY <1>4, <2>1 DEF Tagged, TagOf
<1> QED
  BY <1>5, <1>6

(* A stream whose cap a step leaves alone. *)
LEMMA TaggedSame ==
  ASSUME NEW t, Tagged(t), cursors'[t].outstanding \subseteq cursors[t].outstanding, finished' = finished
  PROVE  Tagged(t)'
<1>1. OverIn(t)' = OverIn(t)
  BY DEF OverIn
<1> QED
  BY <1>1 DEF Tagged, TagOf

LEMMA TaggedPushes ==
  ASSUME WaitInv, NEW s \in Streams, NEW entry \in Entry, StepPushes(s, entry)
  PROVE  \A t \in DOMAIN cursors' : Tagged(t)'
<1> SUFFICES ASSUME NEW t \in DOMAIN cursors' PROVE Tagged(t)'
  OBVIOUS
<1>1. /\ DOMAIN cursors' = DOMAIN cursors \cup {s} /\ finished' = finished
      /\ SameTimes(CursorBefore(s), cursors'[s])
      /\ \A u \in DOMAIN cursors \ {s} : cursors'[u] = cursors[u]
  BY DEF StepPushes
<1>2. CASE t \in DOMAIN cursors
  <2>1. Tagged(t) /\ cursors'[t].outstanding = cursors[t].outstanding
    BY <1>1, <1>2 DEF WaitInv, SameTimes, CursorBefore
  <2> QED
    BY <1>1, <2>1, TaggedSame
<1>3. CASE t \notin DOMAIN cursors
  <2>1. cursors'[t].outstanding = {}
    BY <1>1, <1>3 DEF SameTimes, CursorBefore, NewCursor
  <2> QED
    BY <2>1 DEF Tagged
<1> QED
  BY <1>2, <1>3

(* A transaction waits from when its port and gate let it, and for the cap alone. *)
LEMMA WaitParts ==
  ASSUME NEW s, NEW c, NEW issue, NEW port \in Nat, NEW gate \in Nat, NEW cap \in Nat,
         port = port_free[CoreOf(s)], gate = GateOf(s), cap = IdGate(c), issue = IssueCycle(s, c, GateOf(s))
  PROVE  /\ OutstandingWait(s, c) \in Nat /\ OutstandingWait(s, c) <= issue
         /\ issue - OutstandingWait(s, c) = Later(port, gate)
         /\ Later(port, gate) \in {port, gate} /\ port <= Later(port, gate) /\ gate <= Later(port, gate)
         /\ Later(port, gate) < issue => issue = cap
BY DEF OutstandingWait, IssueCycle, Later

(* As long as the cap holds the stream back, it has as many in flight as it may. *)
LEMMA FlightFull ==
  ASSUME LoopInv, SegInv, IdInv, TimeInv, CapInv, NEW s \in DOMAIN cursors,
         Known(s), cursors[s].pending # <<>>, Tagged(s),
         NEW cycle \in Nat, port_free[CoreOf(s)] <= cycle, GateOf(s) <= cycle, cycle < IdGate(cursors[s])
  PROVE  Cardinality(Flight(CoreOf(s), AxiOf(s), cycle)) = MaxOutstanding
<1>1. PICK c : c = cursors[s]
  OBVIOUS
<1>2. /\ c \in Cursor /\ CoreOf(s) \in Cores /\ SegmentOf(s) \in Nat /\ GateOf(s) \in Nat
      /\ port_free[CoreOf(s)] \in Nat /\ SegmentOf(s) \in DOMAIN segments[CoreOf(s)]
  BY <1>1, StreamFacts
<1>3. PICK out, flight : out = c.outstanding /\ flight = Flight(CoreOf(s), AxiOf(s), cycle)
  OBVIOUS
<1>4. out \in SUBSET [txn_id : Nat, complete : Nat] /\ MaxOutstanding \in Nat \ {0}
  BY <1>2, <1>3, FrontEndAssumption DEF Cursor
<1>5. /\ IsFiniteSet(out) /\ Cardinality(out) <= MaxOutstanding /\ Cardinality(out) \in Nat
      /\ \A k \in OverIn(s) : finished[k].complete > c.in_progress.issue_cycle => TagOf(finished[k]) \in out
  BY <1>1, <1>3, FS_CardinalityType DEF CapInv, StreamCapped
<1>6. Cardinality(out) >= MaxOutstanding
  <2>1. ~ (Cardinality(out) >= MaxOutstanding) => IdGate(c) = 0
    BY <1>3 DEF IdGate
  <2> QED
    BY <1>1, <2>1
<1>7. Cardinality(out) = MaxOutstanding
  BY <1>4, <1>5, <1>6
<1>8. \A o \in out : cycle < o.complete
  <2>1. PICK ends : ends = {o.complete : o \in out}
    OBVIOUS
  <2>2. out # {}
    BY <1>4, <1>7, FS_EmptySet
  <2>3. ends \in SUBSET Nat /\ ends # {}
    BY <1>4, <2>1, <2>2
  <2>4. PICK first : first = Min(ends) /\ first \in Nat /\ \A x \in ends : first <= x
    BY <2>3, NatMin
  <2>5. cycle < first
    <3>1. IdGate(c) = Min(ends)
      BY <1>3, <1>6, <2>1 DEF IdGate
    <3> QED
      BY <1>1, <2>4, <3>1
  <2>6. \A o \in out : o.complete \in Nat /\ first <= o.complete
    BY <1>4, <2>1, <2>4
  <2> QED
    BY <2>4, <2>5, <2>6
<1>9. ASSUME NEW k \in flight PROVE k \in OverIn(s) /\ TagOf(finished[k]) \in out
  <2>1. PICK r : r = finished[k]
    OBVIOUS
  <2>2. /\ k \in DOMAIN finished /\ r.core = CoreOf(s) /\ r.axi = AxiOf(s) /\ cycle < r.complete
    BY <1>3, <2>1 DEF Flight
  <2>3. /\ r.complete \in Nat /\ r.segment \in Nat /\ r.segment \in DOMAIN segments[r.core]
        /\ CoreOf(StreamOf(r)) = r.core /\ SegmentOf(StreamOf(r)) = r.segment
    BY <2>1, <2>2, ResultFacts
  <2>4. /\ Known(StreamOf(r))
        /\ \A m \in DOMAIN segments[r.core] :
             r.segment < m /\ segments[r.core][m].gate_known => r.complete <= segments[r.core][m].gate_cycle
    BY <2>1, <2>2 DEF TimeInv, ResultTimes
  <2>5. ~ (SegmentOf(s) < r.segment)
    <3>1. segments[CoreOf(s)][r.segment].gate_known
      BY <2>2, <2>3, <2>4 DEF Known
    <3> QED
      BY <2>2, <2>3, <3>1, WorkFirst
  <2>6. ~ (r.segment < SegmentOf(s))
    <3>1. r.segment < SegmentOf(s) => r.complete <= GateOf(s)
      BY <1>2, <2>2, <2>4 DEF Known, GateOf
    <3> QED
      BY <1>2, <2>2, <2>3, <3>1
  <2>7. r.segment = SegmentOf(s)
    BY <1>2, <2>3, <2>5, <2>6
  <2>8. StreamOf(r) = s
    BY <2>2, <2>7, StreamFacts DEF StreamOf
  <2>9. k \in OverIn(s)
    BY <2>1, <2>2, <2>8 DEF OverIn
  <2>10. r.complete > c.in_progress.issue_cycle
    <3>1. c.in_progress.issue_cycle <= port_free[CoreOf(s)]
      BY <1>1 DEF TimeInv, StreamTimes
    <3>2. c.in_progress.issue_cycle \in Nat
      BY <1>2 DEF Cursor, InProgress
    <3> QED
      BY <1>2, <2>2, <2>3, <3>1, <3>2
  <2> QED
    BY <1>5, <2>1, <2>9, <2>10
<1>10. ASSUME NEW o \in out PROVE \E k \in flight : TagOf(finished[k]) = o
  <2>1. PICK k \in OverIn(s) : o = TagOf(finished[k])
    BY <1>1, <1>3 DEF Tagged
  <2>2. PICK r : r = finished[k]
    OBVIOUS
  <2>3. k \in DOMAIN finished /\ StreamOf(r) = s /\ r.complete = o.complete
    BY <2>1, <2>2 DEF OverIn, TagOf
  <2>4. r.core = CoreOf(s) /\ r.axi = AxiOf(s) /\ r.issue \in Nat
    BY <2>2, <2>3, ResultFacts
  <2>5. r.issue < port_free[CoreOf(s)]
    BY <2>2, <2>3, <2>4 DEF TimeInv, ResultTimes
  <2>6. r.issue <= cycle
    BY <1>2, <2>4, <2>5
  <2>7. k \in flight
    BY <1>3, <1>8, <2>2, <2>3, <2>4, <2>6 DEF Flight
  <2> QED
    BY <2>1, <2>7
<1>11. \A j, k \in flight : TagOf(finished[j]) = TagOf(finished[k]) => j = k
  <2> SUFFICES ASSUME NEW j \in flight, NEW k \in flight, TagOf(finished[j]) = TagOf(finished[k])
               PROVE  j = k
    OBVIOUS
  <2>1. j \in DOMAIN finished /\ k \in DOMAIN finished
    BY <1>3 DEF Flight
  <2>2. finished[j].txn_id = finished[k].txn_id
    BY DEF TagOf
  <2> QED
    BY <2>1, <2>2, FinishedOnce
<1>12. PICK f : f = [o \in out |-> CHOOSE k \in flight : TagOf(finished[k]) = o]
  OBVIOUS
<1>13. \A o \in out : f[o] \in flight /\ TagOf(finished[f[o]]) = o
  BY <1>10, <1>12
<1>14. /\ f \in [out -> flight] /\ (\A o, p \in out : f[o] = f[p] => o = p)
       /\ \A k \in flight : \E o \in out : f[o] = k
  <2>1. \A k \in flight : f[TagOf(finished[k])] = k
    BY <1>9, <1>11, <1>13
  <2>2. f \in [out -> flight]
    BY <1>12, <1>13
  <2> QED
    BY <1>9, <1>13, <2>1, <2>2
<1>15. ExistsBijection(out, flight)
  BY <1>14, Zenon DEF ExistsBijection, Bijection, Injection, IsInjective, Surjection
<1>16. Cardinality(flight) = Cardinality(out)
  BY <1>5, <1>15, FS_Bijection
<1> QED
  BY <1>3, <1>7, <1>16

LEMMA StartFrame ==
  ASSUME NEW b, StartOK(b),
         PortsBefore(b.core, b.issue)' = PortsBefore(b.core, b.issue),
         EndsBefore(b.core, b.segment)' = EndsBefore(b.core, b.segment),
         \A cycle \in HeldFrom(b) .. b.issue - 1 :
           Flight(b.core, b.axi, cycle)' = Flight(b.core, b.axi, cycle)
  PROVE  StartOK(b)'
<1>1. PortOrGate(b)' = PortOrGate(b) /\ HeldFrom(b)' = HeldFrom(b)
  BY DEF PortOrGate, HeldFrom
<1> QED
  BY <1>1 DEF StartOK

LEMMA StartSame ==
  ASSUME WaitInv, Begun' = Begun, finished' = finished
  PROVE  \A b \in Begun' : StartOK(b)'
<1> SUFFICES ASSUME NEW b \in Begun PROVE StartOK(b)'
  OBVIOUS
<1>1. StartOK(b)
  BY DEF WaitInv
<1>2. /\ PortsBefore(b.core, b.issue)' = PortsBefore(b.core, b.issue)
      /\ EndsBefore(b.core, b.segment)' = EndsBefore(b.core, b.segment)
      /\ \A cycle : Flight(b.core, b.axi, cycle)' = Flight(b.core, b.axi, cycle)
  BY DEF PortsBefore, EndsBefore, Flight
<1> QED
  BY <1>1, <1>2, StartFrame

(* What ends was issued no earlier than any transaction of its core and id that
   has begun, and in front of none that has. *)
LEMMA StartFinishes ==
  ASSUME LoopInv, SegInv, IdInv, TimeInv, WaitInv,
         NEW s \in DOMAIN cursors, NEW complete \in Nat, NEW gate \in Nat,
         NEW ip, NEW opened, StepFinishes(s, ip, complete, gate, opened)
  PROVE  \A b \in Begun' : StartOK(b)'
<1>1. Begun' = Begun
  BY BegunFinishes
<1> SUFFICES ASSUME NEW b \in Begun PROVE StartOK(b)'
  BY <1>1
<1>2. PICK n \in Nat, q \in Result : Reports(s, ip, complete, n, q)
  BY FinishedAppend
<1>3. /\ DOMAIN finished' = DOMAIN finished \cup {n + 1} /\ n + 1 \notin DOMAIN finished
      /\ \A k \in DOMAIN finished : finished'[k] = finished[k]
      /\ finished'[n + 1] = q /\ q.core = CoreOf(s) /\ q.axi = AxiOf(s) /\ q.issue = ip.issue_cycle
  BY <1>2 DEF Reports
<1>4. /\ b.core \in Cores /\ b.issue \in Nat /\ b.wait \in Nat
      /\ b.segment \in DOMAIN segments[b.core] /\ segments[b.core][b.segment].gate_known
  BY BegunFacts
<1>5. s \in Serving /\ cursors[s].pending # <<>> /\ Known(s)
  BY DEF StepFinishes
<1>6. EndsBefore(b.core, b.segment)' = EndsBefore(b.core, b.segment)
  <2>1. b.core # CoreOf(s) \/ ~ (SegmentOf(s) < b.segment)
    BY <1>4, <1>5, WorkFirst
  <2> QED
    BY <2>1, EndsGrow
<1>7. PortsBefore(b.core, b.issue)' = PortsBefore(b.core, b.issue)
  BY <1>1 DEF PortsBefore
<1>8. ASSUME b.core = CoreOf(s), b.axi = AxiOf(s) PROVE b.issue <= q.issue
  <2>1. ASSUME NEW k \in DOMAIN finished, b = StartOf(finished[k]) PROVE b.issue <= q.issue
    <3>1. b.core = finished[k].core /\ b.axi = finished[k].axi /\ b.issue = finished[k].issue
      BY <2>1 DEF StartOf, Start
    <3>2. SameId(finished[k], s)
      BY <1>8, <3>1 DEF SameId
    <3>3. finished[k].issue < ip.issue_cycle /\ ip.issue_cycle \in Nat
      BY <3>2, EndTimes
    <3> QED
      BY <1>3, <1>4, <3>1, <3>3
  <2>2. ASSUME NEW t \in Serving, b = StartIn(t) PROVE b.issue <= q.issue
    <3>1. b.core = CoreOf(t) /\ b.axi = AxiOf(t) /\ b.issue = cursors[t].in_progress.issue_cycle
      BY <2>2 DEF StartIn, Start
    <3>2. SegmentOf(t) = SegmentOf(s)
      BY <1>5, <1>8, <3>1, ServingTogether
    <3>3. t \in DOMAIN cursors
      BY DEF Serving
    <3>4. t = s
      BY <1>8, <3>1, <3>2, <3>3, StreamFacts
    <3>5. ip.issue_cycle = cursors[s].in_progress.issue_cycle
      BY DEF StepFinishes
    <3> QED
      BY <1>3, <1>4, <3>1, <3>4, <3>5
  <2> QED
    BY <2>1, <2>2 DEF Begun
<1>9. ASSUME NEW cycle \in HeldFrom(b) .. b.issue - 1
      PROVE  Flight(b.core, b.axi, cycle)' = Flight(b.core, b.axi, cycle)
  <2>1. ~ (b.core = CoreOf(s) /\ b.axi = AxiOf(s) /\ q.issue <= cycle)
    <3>1. q.issue \in Nat
      BY <1>2 DEF Result
    <3>2. cycle < b.issue /\ cycle \in Int
      BY <1>4 DEF HeldFrom
    <3> QED
      BY <1>4, <1>8, <3>1, <3>2
  <2> QED
    BY <1>3, <2>1 DEF Flight
<1>10. StartOK(b)
  BY DEF WaitInv
<1> QED
  BY <1>6, <1>7, <1>9, <1>10, StartFrame

(* A transaction is issued when its port and its gate let it, or with the first
   of its stream to end after that; nothing that has begun is issued after it. *)
LEMMA StartIssues ==
  ASSUME LoopInv, SegInv, IdInv, TimeInv, CapInv, WaitInv,
         NEW s \in DOMAIN cursors, NEW issue \in Nat, StepIssues(s, issue)
  PROVE  \A b \in Begun' : StartOK(b)'
<1>1. PICK core, port, gate, cap, wait :
        /\ core = CoreOf(s) /\ port = port_free[CoreOf(s)] /\ gate = GateOf(s)
        /\ cap = IdGate(cursors[s]) /\ wait = OutstandingWait(s, cursors[s])
  OBVIOUS
<1>2. PICK n : n = Start(core, AxiOf(s), SegmentOf(s), issue, wait)
  OBVIOUS
<1>3. /\ n.core = core /\ n.axi = AxiOf(s) /\ n.segment = SegmentOf(s) /\ n.issue = issue /\ n.wait = wait
  BY <1>2 DEF Start
<1>4. /\ Known(s) /\ cursors[s].pending # <<>> /\ finished' = finished
      /\ port <= issue /\ issue = IssueCycle(s, cursors[s], gate)
  BY <1>1 DEF StepIssues
<1>5. /\ core \in Cores /\ port \in Nat /\ gate \in Nat /\ cap \in Nat /\ SegmentOf(s) \in Nat
      /\ SegmentOf(s) \in DOMAIN segments[core] /\ cursors[s] \in Cursor
  BY <1>1, StreamFacts, IdGateNat
<1>6. Begun' = Begun \cup {n}
  BY <1>1, <1>2, BegunIssues
<1>7. \A x, m : EndsBefore(x, m)' = EndsBefore(x, m)
  BY <1>4 DEF EndsBefore
<1>8. \A x, axi, cycle : Flight(x, axi, cycle)' = Flight(x, axi, cycle)
  BY <1>4 DEF Flight
<1>9. \A a \in Begun : a.issue \in Nat /\ (a.core = core => a.issue < issue /\ a.issue < port)
  <2> SUFFICES ASSUME NEW a \in Begun PROVE a.issue \in Nat /\ (a.core = core => a.issue < issue /\ a.issue < port)
    OBVIOUS
  <2>1. a.issue \in Nat /\ a.issue < port_free[a.core]
    BY BegunFacts
  <2> QED
    BY <1>1, <1>4, <1>5, <2>1
<1>10. ASSUME NEW b \in Begun PROVE StartOK(b)'
  <2>1. ~ (n.core = b.core /\ n.issue < b.issue)
    BY <1>3, <1>9
  <2>2. {a \in Begun' : a.core = b.core /\ a.issue < b.issue} = {a \in Begun : a.core = b.core /\ a.issue < b.issue}
    BY <1>6, <2>1
  <2>3. PortsBefore(b.core, b.issue)' = PortsBefore(b.core, b.issue)
    BY <2>2 DEF PortsBefore
  <2>4. StartOK(b)
    BY DEF WaitInv
  <2> QED
    BY <1>7, <1>8, <2>3, <2>4, StartFrame
<1>11. StartOK(n)'
  <2>1. {a \in Begun' : a.core = core /\ a.issue < issue} = {a \in Begun : a.core = core}
    BY <1>3, <1>6, <1>9
  <2>2. PortsBefore(core, issue)' = Ports(core)
    BY <2>1 DEF PortsBefore, Ports
  <2>3. PICK ends : ends = EndsBefore(core, SegmentOf(s))
    OBVIOUS
  <2>4. PortOrGate(n)' = {0} \cup Ports(core) \cup ends
    BY <1>3, <1>7, <2>2, <2>3 DEF PortOrGate
  <2>5. PICK from : from = Later(port, gate)
    OBVIOUS
  <2>6. /\ wait \in Nat /\ wait <= issue /\ issue - wait = from
        /\ from \in {port, gate} /\ port <= from /\ gate <= from /\ (from < issue => issue = cap)
    <3>1. PICK c : c = cursors[s]
      OBVIOUS
    <3>2. /\ port = port_free[CoreOf(s)] /\ gate = GateOf(s) /\ cap = IdGate(c)
          /\ issue = IssueCycle(s, c, GateOf(s)) /\ wait = OutstandingWait(s, c)
      BY <1>1, <1>4, <3>1
    <3> QED
      BY <1>5, <2>5, <3>2, WaitParts
  <2>7. HeldFrom(n)' = from
    BY <1>3, <2>6 DEF HeldFrom
  <2>8. port \in {0} \cup Ports(core) /\ gate \in {0} \cup ends
    BY <1>1, <1>4, <1>5, <2>3 DEF WaitInv, GateReached, Known, GateOf
  <2>9. \A x \in Ports(core) : x \in Nat /\ x <= port
    BY <1>5, <1>9 DEF Ports
  <2>10. \A x \in ends : x \in Nat /\ x <= gate
    <3> SUFFICES ASSUME NEW k \in DOMAIN finished, finished[k].core = core, finished[k].segment < SegmentOf(s)
                 PROVE  finished[k].complete \in Nat /\ finished[k].complete <= gate
      BY <2>3 DEF EndsBefore
    <3>1. finished[k].complete \in Nat
      BY ResultFacts
    <3>2. ResultTimes(k)
      BY DEF TimeInv
    <3> QED
      BY <1>1, <1>4, <1>5, <3>1, <3>2 DEF ResultTimes, Known, GateOf
  <2>11. \A x \in {0} \cup Ports(core) \cup ends : x <= from
    BY <1>5, <2>6, <2>9, <2>10
  <2>12. from \in {0} \cup Ports(core) \cup ends
    BY <2>6, <2>8
  <2>13. ASSUME NEW cycle \in from .. issue - 1
         PROVE  Cardinality(Flight(core, AxiOf(s), cycle)) = MaxOutstanding
    <3>1. cycle \in Nat /\ port <= cycle /\ gate <= cycle /\ cycle < issue /\ from < issue
      BY <1>5, <2>6
    <3>2. cycle < IdGate(cursors[s])
      BY <1>1, <2>6, <3>1
    <3>3. Tagged(s)
      BY DEF WaitInv
    <3> QED
      BY <1>1, <1>4, <3>1, <3>2, <3>3, FlightFull
  <2> QED
    BY <1>3, <1>8, <2>4, <2>6, <2>7, <2>11, <2>12, <2>13 DEF StartOK
<1> QED
  BY <1>6, <1>10, <1>11

(* The port of a core is that behind the last issue of the core. *)
LEMMA PortsSame ==
  ASSUME WaitInv, Begun' = Begun, port_free' = port_free
  PROVE  \A core \in Cores : port_free'[core] \in {0} \cup Ports(core)'
BY DEF WaitInv, Ports

LEMMA PortsIssues ==
  ASSUME LoopInv, WaitInv, NEW s \in DOMAIN cursors, NEW issue \in Nat, StepIssues(s, issue)
  PROVE  \A core \in Cores : port_free'[core] \in {0} \cup Ports(core)'
<1>1. PICK n : n = Start(CoreOf(s), AxiOf(s), SegmentOf(s), issue, OutstandingWait(s, cursors[s]))
  OBVIOUS
<1>2. n.core = CoreOf(s) /\ n.issue = issue
  BY <1>1 DEF Start
<1>3. Begun' = Begun \cup {n}
  BY <1>1, BegunIssues
<1>4. port_free' = [port_free EXCEPT ![CoreOf(s)] = issue + 1] /\ port_free \in [Cores -> Nat] /\ CoreOf(s) \in Cores
  BY StreamFacts DEF StepIssues, LoopInv, LoopTypeOK
<1>5. ASSUME NEW core \in Cores, core # CoreOf(s) PROVE port_free'[core] \in {0} \cup Ports(core)'
  <2>1. port_free'[core] = port_free[core] /\ port_free[core] \in {0} \cup Ports(core)
    BY <1>4, <1>5 DEF WaitInv
  <2>2. Ports(core) \subseteq Ports(core)'
    BY <1>3 DEF Ports
  <2> QED
    BY <2>1, <2>2
<1>6. port_free'[CoreOf(s)] \in Ports(CoreOf(s))'
  <2>1. port_free'[CoreOf(s)] = n.issue + 1
    BY <1>2, <1>4
  <2> QED
    BY <1>2, <1>3, <2>1 DEF Ports
<1> QED
  BY <1>5, <1>6

(* Steps that neither end a transaction nor touch a segment. *)
LEMMA EndsSame ==
  ASSUME WaitInv, finished' = finished, segments' = segments
  PROVE  \A core \in Cores : \A m \in DOMAIN segments'[core] : EndReached(core, m)' /\ GateReached(core, m)'
<1>1. \A core, m : EndsBefore(core, m)' = EndsBefore(core, m)
  BY DEF EndsBefore
<1> QED
  BY <1>1 DEF WaitInv, EndReached, GateReached

(* Between runs nothing is in service. *)
LEMMA SettledServes ==
  ASSUME LoopInv, Settled
  PROVE  Serving = {}
<1> SUFFICES ASSUME NEW s \in Serving PROVE FALSE
  OBVIOUS
<1>1. s \in DOMAIN cursors /\ Known(s) /\ cursors[s].pending # <<>>
  BY ServingFacts
<1> QED
  BY <1>1, RestingStreams

LEMMA RestStep ==
  ASSUME LoopInv, LoopInv', WaitInv, [Next]_vars
  PROVE  ~ running' => Serving' = {}
<1> SUFFICES ASSUME ~ running' PROVE Serving' = {}
  OBVIOUS
<1>1. CASE Return
  <2>1. Settled'
    BY <1>1 DEF Return, ReturnFromRun, Busy, Settled
  <2>2. Settled
    BY <1>1 DEF Return, ReturnFromRun, Busy, Settled
  <2>3. Serving = {}
    BY <2>2, SettledServes
  <2>4. Serving' = Serving
    BY <1>1 DEF Return, ReturnFromRun, Serving, EventsOf
  <2> QED
    BY <2>3, <2>4
<1>2. CASE ~ running
  <2>1. Serving = {}
    BY <1>2 DEF WaitInv
  <2>2. Call \/ UNCHANGED vars
    BY <1>2 DEF Next, Loop, LoopInv, AtRest, Reschedule, Issue, Resume, AtTop, MakeRoom, Admit, DrainIdle,
                Return, ReturnFromRun
  <2>3. ASSUME UNCHANGED <<cursors, heap>> PROVE Serving' = Serving
    BY <2>3 DEF Serving, EventsOf
  <2>4. ASSUME NEW core \in Cores, NEW axi \in AxiIds, NEW txn \in Txns, PushTxn(core, axi, txn)
        PROVE  Serving' = Serving
    <3>1. \E s \in Streams, entry \in Entry : StepPushes(s, entry)
      BY <2>4, PushTxnPushes, PushKind
    <3> QED
      BY <3>1 DEF StepPushes
  <2>5. ASSUME NEW core \in Cores, PushBarrier(core) PROVE Serving' = Serving
    BY <2>3, <2>5 DEF PushBarrier
  <2>6. ASSUME NEW id, PruneResultsBefore(id) PROVE Serving' = Serving
    BY <2>3, <2>6 DEF PruneResultsBefore
  <2>7. ~ BeginRun
    BY DEF BeginRun
  <2>8. UNCHANGED vars => Serving' = Serving
    BY <2>3 DEF vars, frontVars, controlVars
  <2> QED
    BY <2>1, <2>2, <2>4, <2>5, <2>6, <2>7, <2>8 DEF Call
<1>3. CASE ~ Return /\ running
  <2>1. running'
    BY <1>3, SeenCases DEF SeesSame, Adds, PruneResultsBefore
  <2> QED
    BY <2>1
<1> QED
  BY <1>1, <1>2, <1>3

LEMMA WaitInvStep ==
  ASSUME LoopInv, LoopInv', SegInv, IdInv, TimeInv, CapInv, WaitInv, [Next]_vars
  PROVE  WaitInv'
<1>1. ~ running' => Serving' = {}
  BY RestStep
<1>2. ASSUME NEW s \in Streams, NEW entry \in Entry, StepPushes(s, entry) PROVE WaitInv'
  <2>1. Begun' = Begun
    BY <1>2, BegunPushes
  <2>2. finished' = finished /\ port_free' = port_free
    BY <1>2 DEF StepPushes
  <2>3. \A core \in Cores : \A m \in DOMAIN segments'[core] : EndReached(core, m)' /\ GateReached(core, m)'
    BY <1>2, EndsPushes
  <2>4. \A core \in Cores : port_free'[core] \in {0} \cup Ports(core)'
    BY <2>1, <2>2, PortsSame
  <2>5. \A t \in DOMAIN cursors' : Tagged(t)'
    BY <1>2, TaggedPushes
  <2>6. \A b \in Begun' : StartOK(b)'
    BY <2>1, <2>2, StartSame
  <2> QED
    BY <1>1, <2>3, <2>4, <2>5, <2>6 DEF WaitInv
<1>3. ASSUME NEW core \in Cores, StepBars(core) PROVE WaitInv'
  <2>1. Serving' = Serving /\ finished' = finished /\ port_free' = port_free /\ cursors' = cursors
    BY <1>3 DEF StepBars, PushBarrier
  <2>2. Begun' = Begun
    BY <2>1, BegunSame
  <2>3. \A x \in Cores : \A m \in DOMAIN segments'[x] : EndReached(x, m)' /\ GateReached(x, m)'
    BY <1>3, EndsBars
  <2>4. \A x \in Cores : port_free'[x] \in {0} \cup Ports(x)'
    BY <2>1, <2>2, PortsSame
  <2>5. \A t \in DOMAIN cursors' : Tagged(t)'
    BY <2>1, TaggedSame DEF WaitInv
  <2>6. \A b \in Begun' : StartOK(b)'
    BY <2>1, <2>2, StartSame
  <2> QED
    BY <1>1, <2>3, <2>4, <2>5, <2>6 DEF WaitInv
<1>4. ASSUME NEW s \in DOMAIN cursors, NEW issue \in Nat, StepIssues(s, issue) PROVE WaitInv'
  <2>1. finished' = finished /\ segments' = segments /\ DOMAIN cursors' = DOMAIN cursors
    BY <1>4 DEF StepIssues
  <2>2. \A core \in Cores : \A m \in DOMAIN segments'[core] : EndReached(core, m)' /\ GateReached(core, m)'
    BY <2>1, EndsSame
  <2>3. \A core \in Cores : port_free'[core] \in {0} \cup Ports(core)'
    BY <1>4, PortsIssues
  <2>4. \A t \in DOMAIN cursors : cursors'[t].outstanding \subseteq cursors[t].outstanding
    BY <1>4 DEF StepIssues, StillOutstanding
  <2>5. \A t \in DOMAIN cursors' : Tagged(t)'
    BY <2>1, <2>4, TaggedSame DEF WaitInv
  <2>6. \A b \in Begun' : StartOK(b)'
    BY <1>4, StartIssues
  <2> QED
    BY <1>1, <2>2, <2>3, <2>5, <2>6 DEF WaitInv
<1>5. ASSUME NEW s \in DOMAIN cursors, NEW complete \in Nat, NEW gate \in Nat, NEW ip, NEW opened,
             StepFinishes(s, ip, complete, gate, opened)
      PROVE  WaitInv'
  <2>1. Begun' = Begun
    BY <1>5, BegunFinishes
  <2>2. port_free' = port_free
    BY <1>5 DEF StepFinishes
  <2>3. \A core \in Cores : \A m \in DOMAIN segments'[core] : EndReached(core, m)' /\ GateReached(core, m)'
    BY <1>5, EndsFinishes
  <2>4. \A core \in Cores : port_free'[core] \in {0} \cup Ports(core)'
    BY <2>1, <2>2, PortsSame
  <2>5. \A t \in DOMAIN cursors' : Tagged(t)'
    BY <1>5, TaggedFinishes
  <2>6. \A b \in Begun' : StartOK(b)'
    BY <1>5, StartFinishes
  <2> QED
    BY <1>1, <2>3, <2>4, <2>5, <2>6 DEF WaitInv
<1>6. ASSUME StepSteady PROVE WaitInv'
  <2>1. /\ Serving' = Serving /\ finished' = finished /\ port_free' = port_free /\ segments' = segments
        /\ DOMAIN cursors' = DOMAIN cursors
        /\ \A t \in DOMAIN cursors :
             /\ cursors'[t].outstanding = cursors[t].outstanding
             /\ cursors'[t].in_progress.issue_cycle = cursors[t].in_progress.issue_cycle
             /\ cursors'[t].in_progress.outstanding_wait_cycles = cursors[t].in_progress.outstanding_wait_cycles
    BY <1>6 DEF StepSteady, Advances
  <2>2. Begun' = Begun
    BY <2>1, BegunSame
  <2>3. \A core \in Cores : \A m \in DOMAIN segments'[core] : EndReached(core, m)' /\ GateReached(core, m)'
    BY <2>1, EndsSame
  <2>4. \A core \in Cores : port_free'[core] \in {0} \cup Ports(core)'
    BY <2>1, <2>2, PortsSame
  <2>5. \A t \in DOMAIN cursors' : Tagged(t)'
    BY <2>1, TaggedSame DEF WaitInv
  <2>6. \A b \in Begun' : StartOK(b)'
    BY <2>1, <2>2, StartSame
  <2> QED
    BY <1>1, <2>3, <2>4, <2>5, <2>6 DEF WaitInv
<1> QED
  BY <1>2, <1>3, <1>4, <1>5, <1>6, StepKinds

LEMMA InitWaits == Init => WaitInv
<1> SUFFICES ASSUME Init PROVE WaitInv
  OBVIOUS
<1>1. /\ segments = [c \in Cores |-> <<>>] /\ port_free = [c \in Cores |-> 0]
      /\ DOMAIN finished = {} /\ DOMAIN cursors = {}
  BY DEF Init, FrontInit
<1>2. Serving = {}
  BY <1>1 DEF Serving
<1>3. Begun = {}
  BY <1>1, <1>2 DEF Begun
<1>4. \A core \in Cores : DOMAIN segments[core] = {}
  BY <1>1
<1> QED
  BY <1>1, <1>2, <1>3, <1>4 DEF WaitInv

LEMMA AlwaysWaits == Spec => [](OrderInv /\ TimeInv /\ CapInv /\ WaitInv)
<1>1. OrderInv /\ TimeInv /\ CapInv /\ WaitInv /\ [Next]_vars => (OrderInv /\ TimeInv /\ CapInv /\ WaitInv)'
  BY LoopStep, SegInvStep, IdInvStep, PlaceInvStep, TimeInvStep, CapInvStep, WaitInvStep DEF OrderInv
<1>2. Init => OrderInv /\ TimeInv /\ CapInv /\ WaitInv
  BY InitOrder, InitTimes, InitCapped, InitWaits
<1> QED
  BY <1>1, <1>2, PTL DEF Spec

(* The greatest element of a set that has one. *)
LEMMA MaxIs ==
  ASSUME NEW S \in SUBSET Int, NEW m \in S, \A x \in S : x <= m
  PROVE  Max(S) = m
<1>1. PICK g : g = Max(S)
  OBVIOUS
<1>2. g \in S /\ \A x \in S : g >= x
  BY <1>1 DEF Max
<1> QED
  BY <1>1, <1>2

(* The wait charged to the outstanding cap is the time from the cycle at which
   the core's port was free and all in front of the last barrier was over to the
   issue, and all that time the stream was at its cap
   (WaitExact; Engine::next_issue_cycle, start_next_txn). *)
THEOREM WaitsAreForTheCap == Spec => []WaitExact
<1>1. ASSUME OrderInv, TimeInv, CapInv, WaitInv PROVE WaitExact
  <2>1. LoopInv /\ SegInv /\ IdInv
    BY <1>1 DEF OrderInv
  <2> SUFFICES ASSUME ~ running, NEW k \in DOMAIN finished
               PROVE  LET r == finished[k]
                          held == HeldByCapFrom(r) .. r.issue - 1
                      IN  /\ r.wait = Cardinality(held)
                          /\ \A cycle \in held : Cardinality(InFlightAt(r, cycle)) = MaxOutstanding
    BY DEF WaitExact
  <2>2. PICK r, b : r = finished[k] /\ b = StartOf(finished[k])
    OBVIOUS
  <2>3. b.core = r.core /\ b.axi = r.axi /\ b.segment = r.segment /\ b.issue = r.issue /\ b.wait = r.wait
    BY <2>2 DEF StartOf, Start
  <2>4. b \in Begun
    BY <2>2 DEF Begun
  <2>5. StartOK(b) /\ b.issue \in Nat /\ b.wait \in Nat
    BY <1>1, <2>1, <2>4, BegunFacts DEF WaitInv
  <2>6. PICK from : from = HeldFrom(b)
    OBVIOUS
  <2>7. from \in Nat /\ from = r.issue - r.wait /\ r.issue \in Nat /\ r.wait \in Nat
    BY <2>3, <2>5, <2>6 DEF StartOK, HeldFrom
  <2>8. PICK S, ports, ends :
          /\ S = {0} \cup ports \cup ends
          /\ ports = {finished[j].issue + 1 : j \in {i \in DOMAIN finished : finished[i].core = r.core /\ finished[i].issue < r.issue}}
          /\ ends = {finished[j].complete : j \in {i \in DOMAIN finished : finished[i].core = r.core /\ finished[i].segment < r.segment}}
    OBVIOUS
  <2>9. HeldByCapFrom(r) = Max(S)
    <3>1. PICK before : before = {j \in DOMAIN finished : finished[j].core = r.core}
      OBVIOUS
    <3>2. {finished[j].issue + 1 : j \in {i \in before : finished[i].issue < r.issue}} = ports
      BY <2>8, <3>1
    <3>3. {finished[j].complete : j \in {i \in before : finished[i].segment < r.segment}} = ends
      BY <2>8, <3>1
    <3> QED
      BY <2>8, <3>1, <3>2, <3>3 DEF HeldByCapFrom
  <2>10. PortOrGate(b) = S
    <3>1. Serving = {}
      BY <1>1 DEF WaitInv
    <3>2. Begun = {StartOf(finished[j]) : j \in DOMAIN finished}
      BY <3>1 DEF Begun
    <3>3. \A j : /\ StartOf(finished[j]).core = finished[j].core
                 /\ StartOf(finished[j]).issue = finished[j].issue
      BY DEF StartOf, Start
    <3>4. PortsBefore(r.core, r.issue) = ports
      BY <2>8, <3>2, <3>3 DEF PortsBefore
    <3>5. EndsBefore(r.core, r.segment) = ends
      BY <2>8 DEF EndsBefore
    <3> QED
      BY <2>3, <2>8, <3>4, <3>5 DEF PortOrGate
  <2>11. S \in SUBSET Int
    <3>1. \A j \in DOMAIN finished : finished[j].issue \in Nat /\ finished[j].complete \in Nat
      BY <2>1, ResultFacts
    <3> QED
      BY <2>8, <3>1
  <2>12. Max(S) = from
    <3>1. from \in S /\ \A x \in S : x <= from
      BY <2>5, <2>6, <2>10 DEF StartOK
    <3> QED
      BY <2>11, <3>1, MaxIs
  <2>13. r.wait = Cardinality(from .. r.issue - 1)
    <3>1. PICK last \in Int : last = r.issue - 1
      BY <2>7
    <3>4. from \in Int
      BY <2>7
    <3>2. Cardinality(from .. last) = IF from > last THEN 0 ELSE last - from + 1
      BY <3>4, FS_Interval, Zenon
    <3>3. last - from + 1 = r.wait /\ (from > last => r.wait = 0)
      BY <2>7, <3>1
    <3> QED
      BY <3>1, <3>2, <3>3
  <2>14. ASSUME NEW cycle \in from .. r.issue - 1 PROVE Cardinality(InFlightAt(r, cycle)) = MaxOutstanding
    <3>1. InFlightAt(r, cycle) = Flight(r.core, r.axi, cycle)
      BY DEF InFlightAt, Flight
    <3>2. Cardinality(Flight(b.core, b.axi, cycle)) = MaxOutstanding
      BY <2>3, <2>5, <2>6 DEF StartOK
    <3> QED
      BY <2>3, <3>1, <3>2
  <2> QED
    BY <2>2, <2>9, <2>12, <2>13, <2>14
<1> QED
  BY <1>1, AlwaysWaits, PTL

-----------------------------------------------------------------------------
(***************************************************************************)
(* Types.  Beside the loop's: the statistics, and that no queue holds more *)
(* than its depth.                                                         *)
(***************************************************************************)
QueuesBounded ==
  \A ch \in Channels :
    IsFiniteSet(channels[ch].queue) /\ Cardinality(channels[ch].queue) <= QueueDepth

Histogram(hist) == \A b \in DOMAIN hist : b \in Nat /\ hist[b] \in Nat

StatInv ==
  /\ QueuesBounded
  /\ DOMAIN bursts = Cores /\ \A c \in Cores : Histogram(bursts[c])
  /\ windows \in Seq(WindowStats) /\ totals \in Totals /\ runtimes \in [Cores -> CoreRuntime]

LEMMA LatencyNat ==
  ASSUME NEW r \in Result, r.issue <= r.complete
  PROVE  Latency(r) \in Nat
BY DEF Latency, Result

LEMMA LaterNat ==
  ASSUME NEW a \in Nat, NEW b \in Nat
  PROVE  Later(a, b) \in Nat
BY DEF Later

LEMMA TotalsTyped ==
  ASSUME totals \in Totals, NEW r \in Result, r.issue <= r.complete
  PROVE  Totalled(r) \in Totals
<1>1. PICK l \in Nat : l = Latency(r)
  BY LatencyNat
<1>2. /\ totals.txns \in Nat /\ totals.bytes \in Nat /\ totals.dram_bytes \in Nat
      /\ totals.latency_sum \in Nat /\ totals.latency_max \in Nat /\ totals.max_complete \in Nat
  BY DEF Totals
<1>3. r.bytes \in Nat /\ r.dram_bytes \in Nat /\ r.complete \in Nat
  BY DEF Result
<1>4. PICK longest \in Nat, last \in Nat :
        longest = Later(totals.latency_max, l) /\ last = Later(totals.max_complete, r.complete)
  BY <1>1, <1>2, <1>3, LaterNat
<1>5. Totalled(r) = [txns |-> totals.txns + 1, bytes |-> totals.bytes + r.bytes,
                     dram_bytes |-> totals.dram_bytes + r.dram_bytes,
                     latency_sum |-> totals.latency_sum + l, latency_max |-> longest,
                     max_complete |-> last]
  BY <1>1, <1>4 DEF Totalled
<1> QED
  BY <1>2, <1>3, <1>5 DEF Totals

LEMMA OneMore ==
  ASSUME NEW S, NEW f \in [S -> Nat], NEW x, NEW n \in Nat
  PROVE  [f EXCEPT ![x] = @ + n] \in [S -> Nat]
<1>1. [f EXCEPT ![x] = @ + n] = [y \in S |-> IF y = x THEN f[y] + n ELSE f[y]]
  OBVIOUS
<1>2. \A y \in S : (IF y = x THEN f[y] + n ELSE f[y]) \in Nat
  OBVIOUS
<1> QED
  BY <1>1, <1>2

LEMMA RuntimeTyped ==
  ASSUME NEW acc \in CoreRuntime, NEW r \in Result, r.issue <= r.complete
  PROVE  RanLonger(acc, r) \in CoreRuntime
<1>1. PICK l \in Nat : l = Latency(r)
  BY LatencyNat
<1>2. PICK bucket : bucket = LatencyBucket(l)
  OBVIOUS
<1>3. /\ acc.txn_count \in Nat /\ acc.bytes \in [TxnTypes -> Nat] /\ acc.latency_sum \in Nat
      /\ acc.latency_max \in Nat /\ acc.latency_hist \in [0 .. LatencyBuckets - 1 -> Nat]
      /\ acc.outstanding_wait_sum \in Nat
  BY DEF CoreRuntime
<1>4. r.bytes \in Nat /\ r.wait \in Nat
  BY DEF Result
<1>5. PICK bytes \in [TxnTypes -> Nat] : bytes = [acc.bytes EXCEPT ![r.type] = @ + r.bytes]
  BY <1>3, <1>4, OneMore
<1>6. PICK hist \in [0 .. LatencyBuckets - 1 -> Nat] :
        hist = [acc.latency_hist EXCEPT ![bucket] = @ + 1]
  BY <1>3, OneMore
<1>7. PICK longest \in Nat : longest = Later(acc.latency_max, l)
  BY <1>3, LaterNat
<1>8. RanLonger(acc, r)
        = [acc EXCEPT !.txn_count = acc.txn_count + 1, !.bytes = bytes,
                      !.latency_sum = acc.latency_sum + l, !.latency_max = longest,
                      !.latency_hist = hist,
                      !.outstanding_wait_sum = acc.outstanding_wait_sum + r.wait]
  BY <1>1, <1>2, <1>5, <1>6, <1>7 DEF RanLonger, CoreRuntime
<1>9. acc.txn_count + 1 \in Nat /\ acc.latency_sum + l \in Nat /\ acc.outstanding_wait_sum + r.wait \in Nat
  BY <1>3, <1>4
<1> QED
  BY <1>5, <1>6, <1>7, <1>8, <1>9 DEF CoreRuntime

LEMMA WindowTyped ==
  ASSUME NEW w \in WindowStats, NEW r \in Result, NEW occupancy \in Nat
  PROVE  Delivered(w, r) \in WindowStats /\ Offered(w, r, occupancy) \in WindowStats
<1>1. /\ w.bytes \in [TxnTypes -> Nat] /\ w.dram_bytes \in Nat /\ w.txn_count \in Nat
      /\ w.offered_bytes \in Nat /\ w.offered_txn_count \in Nat /\ w.max_outstanding_count \in Nat
  BY DEF WindowStats
<1>2. r.bytes \in Nat /\ r.dram_bytes \in Nat
  BY DEF Result
<1>3. PICK bytes \in [TxnTypes -> Nat] : bytes = [w.bytes EXCEPT ![r.type] = @ + r.bytes]
  BY <1>1, <1>2, OneMore
<1>4. PICK most \in Nat : most = Later(w.max_outstanding_count, occupancy)
  BY <1>1, LaterNat
<1>5. Delivered(w, r) = [w EXCEPT !.bytes = bytes, !.dram_bytes = w.dram_bytes + r.dram_bytes,
                             !.txn_count = w.txn_count + 1]
  BY <1>3 DEF Delivered, WindowStats
<1>6. Offered(w, r, occupancy)
        = [w EXCEPT !.offered_bytes = w.offered_bytes + r.bytes,
                    !.offered_txn_count = w.offered_txn_count + 1, !.max_outstanding_count = most]
  BY <1>4 DEF Offered, WindowStats
<1>7. /\ w.dram_bytes + r.dram_bytes \in Nat /\ w.txn_count + 1 \in Nat
      /\ w.offered_bytes + r.bytes \in Nat /\ w.offered_txn_count + 1 \in Nat
  BY <1>1, <1>2
<1>8. Delivered(w, r) \in WindowStats
  BY <1>3, <1>5, <1>7 DEF WindowStats
<1>9. Offered(w, r, occupancy) \in WindowStats
  BY <1>4, <1>6, <1>7 DEF WindowStats
<1> QED
  BY <1>8, <1>9

LEMMA WindowsTyped ==
  ASSUME windows \in Seq(WindowStats), HistoryWindow # 0, NEW r \in Result, NEW occupancy \in Nat
  PROVE  Recorded(r, occupancy) \in Seq(WindowStats)
<1>1. HistoryWindow \in Nat \ {0} /\ r.complete \in Nat /\ r.issue \in Nat
  BY FrontEndAssumption DEF Result
<1>2. r.complete \div HistoryWindow \in Nat /\ r.issue \div HistoryWindow \in Nat
  BY <1>1, QuotientNat
<1>3. PICK delivered \in Nat \ {0}, offered \in Nat \ {0} :
        delivered = r.complete \div HistoryWindow + 1 /\ offered = r.issue \div HistoryWindow + 1
  BY <1>2
<1>4. DOMAIN windows = 1 .. Len(windows) /\ Len(windows) \in Nat
      /\ \A i \in DOMAIN windows : windows[i] \in WindowStats
  BY LenProperties, ElementOfSeq
<1>5. PICK n \in Nat : n = Later(Len(windows), Later(delivered, offered))
  BY <1>3, <1>4, LaterNat
<1>6. DOMAIN windows \cup 1 .. Later(delivered, offered) = 1 .. n
      /\ delivered \in 1 .. n /\ offered \in 1 .. n
  <2>1. PICK m : m = Later(delivered, offered)
    OBVIOUS
  <2>2. m \in Nat /\ delivered <= m /\ offered <= m
    BY <1>3, <2>1, SMTT(30) DEF Later
  <2>3. PICK len \in Nat : len = Len(windows)
    BY <1>4
  <2>4. m <= n /\ len <= n /\ (n = m \/ n = len)
    <3>1. n = Later(len, m)
      BY <1>5, <2>1, <2>3
    <3> QED
      BY <2>2, <2>3, <3>1 DEF Later
  <2>5. 1 .. Len(windows) \cup 1 .. m = 1 .. n
    <3>1. 1 .. len \cup 1 .. m = 1 .. n
      BY <2>2, <2>3, <2>4
    <3> QED
      BY <2>3, <3>1
  <2>6. delivered \in 1 .. n /\ offered \in 1 .. n
    BY <1>3, <2>2, <2>4
  <2> QED
    BY <1>4, <2>1, <2>5, <2>6
<1>7. NoWindow \in WindowStats
  <2>1. [t \in {"Read", "Write"} |-> 0] \in [TxnTypes -> Nat]
    BY DEF TxnTypes
  <2> QED
    BY <2>1 DEF NoWindow, WindowStats
<1>8. PICK longer : longer = [i \in 1 .. n |-> IF i \in DOMAIN windows THEN windows[i] ELSE NoWindow]
  OBVIOUS
<1>9. longer \in [1 .. n -> WindowStats]
  BY <1>4, <1>7, <1>8
<1>10. PICK paid : paid = [longer EXCEPT ![delivered] = Delivered(@, r)]
  OBVIOUS
<1>11. paid \in [1 .. n -> WindowStats]
  <2>1. Delivered(longer[delivered], r) \in WindowStats
    BY <1>6, <1>9, WindowTyped
  <2> QED
    BY <1>9, <1>10, <2>1
<1>12. PICK w : w = [paid EXCEPT ![offered] = Offered(@, r, occupancy)]
  OBVIOUS
<1>13. w \in [1 .. n -> WindowStats]
  <2>1. Offered(paid[offered], r, occupancy) \in WindowStats
    BY <1>6, <1>11, WindowTyped
  <2> QED
    BY <1>11, <1>12, <2>1
<1>14. Recorded(r, occupancy) = w
  <2>1. [i \in DOMAIN windows \cup 1 .. Later(delivered, offered) |->
           IF i \in DOMAIN windows THEN windows[i] ELSE NoWindow] = longer
    BY <1>6, <1>8
  <2> QED
    BY <1>3, <1>10, <1>12, <2>1 DEF Recorded
<1> QED
  BY <1>13, <1>14, FunctionIsSequence

(* The results grow by one at a time, each of a stream that is still there. *)
LEMMA OneResult ==
  ASSUME LoopInv, TimeInv, [Next]_vars
  PROVE  \/ finished' = finished
         \/ \E r \in Result :
              /\ finished' = Append(finished, r) /\ r.issue <= r.complete
              /\ <<r.core, r.segment, r.axi>> \in DOMAIN cursors'
<1>1. ASSUME NEW s \in DOMAIN cursors, NEW complete \in Nat, NEW gate \in Nat, NEW ip, NEW opened,
             StepFinishes(s, ip, complete, gate, opened)
      PROVE  \E r \in Result :
               /\ finished' = Append(finished, r) /\ r.issue <= r.complete
               /\ <<r.core, r.segment, r.axi>> \in DOMAIN cursors'
  <2>1. /\ s \in Serving /\ cursors[s].pending # <<>> /\ ip \in InProgress
        /\ ip.issue_cycle = cursors[s].in_progress.issue_cycle
        /\ cursors[s].in_progress.max_complete <= complete
        /\ DOMAIN cursors' = DOMAIN cursors
        /\ finished' = Append(finished, ResultOf(s, ip, complete))
    BY <1>1 DEF StepFinishes
  <2>2. PICK r \in Result : r = ResultOf(s, ip, complete)
    BY <2>1, ResultTyped
  <2>3. /\ r.issue = ip.issue_cycle /\ r.complete = complete
        /\ r.core = CoreOf(s) /\ r.segment = SegmentOf(s) /\ r.axi = AxiOf(s)
    BY <2>2 DEF ResultOf
  <2>4. PICK before : before = cursors[s].in_progress.max_complete
    OBVIOUS
  <2>5. before \in Nat
    BY <2>4, StreamFacts DEF Cursor, InProgress
  <2>6. r.issue <= before /\ before <= r.complete
    BY <2>1, <2>3, <2>4 DEF TimeInv, ServingTimes
  <2>7. r.issue \in Nat /\ r.complete \in Nat
    BY DEF Result
  <2>8. r.issue <= r.complete
    BY <2>5, <2>6, <2>7
  <2>9. <<r.core, r.segment, r.axi>> = s
    BY <2>3, StreamFacts
  <2> QED
    BY <2>1, <2>2, <2>8, <2>9
<1>2. ASSUME \A s \in DOMAIN cursors, complete \in Nat, gate \in Nat : \A ip, opened :
               ~ StepFinishes(s, ip, complete, gate, opened)
      PROVE  finished' = finished
  BY <1>2, StepKinds DEF StepPushes, StepBars, PushBarrier, StepIssues, StepSteady
<1> QED
  BY <1>1, <1>2

(* What Statistic says of a step, but for the summary. *)
StatisticGrows ==
  IF finished' = finished THEN UNCHANGED <<windows, totals, runtimes>>
  ELSE LET r == finished'[Len(finished')]
           s == <<r.core, r.segment, r.axi>>
       IN  /\ totals' = Totalled(r)
           /\ runtimes' = [runtimes EXCEPT ![r.core] = RanLonger(@, r)]
           /\ windows' = IF HistoryWindow = 0 THEN windows
                         ELSE Recorded(r, Cardinality(cursors'[s].outstanding))

LEMMA StepGrows ==
  ASSUME Next
  PROVE  StatisticGrows
BY DEF Next, Statistic, StatisticGrows

LEMMA StatisticsTyped ==
  ASSUME LoopInv, TimeInv, CapInv', StatInv, Next
  PROVE  windows' \in Seq(WindowStats) /\ totals' \in Totals /\ runtimes' \in [Cores -> CoreRuntime]
<1>1. windows \in Seq(WindowStats) /\ totals \in Totals /\ runtimes \in [Cores -> CoreRuntime]
  BY DEF StatInv
<1>2. CASE finished' = finished
  BY <1>1, <1>2, StepGrows DEF StatisticGrows
<1>3. CASE finished' # finished
  <2>1. PICK r \in Result :
          /\ finished' = Append(finished, r) /\ r.issue <= r.complete
          /\ <<r.core, r.segment, r.axi>> \in DOMAIN cursors'
    BY <1>3, OneResult
  <2>2. finished'[Len(finished')] = r
    BY <2>1, AppendProperties, LenProperties DEF LoopInv, LoopTypeOK
  <2>3. PICK s : s = <<r.core, r.segment, r.axi>>
    OBVIOUS
  <2>4. PICK occupancy : occupancy = Cardinality(cursors'[s].outstanding)
    OBVIOUS
  <2>5. occupancy \in Nat
    BY <2>1, <2>3, <2>4, FS_CardinalityType DEF CapInv, StreamCapped
  <2>6. /\ totals' = Totalled(r)
        /\ runtimes' = [runtimes EXCEPT ![r.core] = RanLonger(@, r)]
        /\ windows' = IF HistoryWindow = 0 THEN windows ELSE Recorded(r, occupancy)
    BY <1>3, <2>2, <2>3, <2>4, StepGrows DEF StatisticGrows
  <2>7. totals' \in Totals
    BY <1>1, <2>1, <2>6, TotalsTyped
  <2>8. runtimes' \in [Cores -> CoreRuntime]
    <3>1. r.core \in Cores
      BY DEF Result
    <3>2. RanLonger(runtimes[r.core], r) \in CoreRuntime
      BY <1>1, <2>1, <3>1, RuntimeTyped
    <3> QED
      BY <1>1, <2>6, <3>2
  <2>9. windows' \in Seq(WindowStats)
    BY <1>1, <2>5, <2>6, WindowsTyped
  <2> QED
    BY <2>7, <2>8, <2>9
<1> QED
  BY <1>2, <1>3

LEMMA CountedTyped ==
  ASSUME NEW hist, Histogram(hist), NEW v \in Nat
  PROVE  Histogram(Counted(hist, v))
<1> SUFFICES ASSUME NEW b \in DOMAIN hist \cup {v}
             PROVE  b \in Nat /\ Counted(hist, v)[b] \in Nat
  BY DEF Histogram, Counted
<1>1. Counted(hist, v)[b] = (IF b \in DOMAIN hist THEN hist[b] ELSE 0) + (IF b = v THEN 1 ELSE 0)
  BY DEF Counted
<1>2. CASE b \in DOMAIN hist
  <2>1. b \in Nat /\ hist[b] \in Nat
    BY <1>2 DEF Histogram
  <2> QED
    BY <1>1, <1>2, <2>1
<1>3. CASE b \notin DOMAIN hist
  BY <1>1, <1>3
<1> QED
  BY <1>2, <1>3

LEMMA BurstsSame ==
  ASSUME [Next]_vars, \A core \in Cores, axi \in AxiIds, txn \in Txns : ~ PushTxn(core, axi, txn)
  PROVE  bursts' = bursts
<1>1. ASSUME NEW ch, DrainOne(ch) PROVE bursts' = bursts
  <2>1. ASSUME NEW s, NEW ip, Finalize(s, ip) PROVE bursts' = bursts
    BY <2>1 DEF Finalize
  <2>2. ASSUME NEW chunk, NEW complete, Route(chunk, complete) PROVE bursts' = bursts
    BY <2>1, <2>2 DEF Route
  <2>3. \E chunk, complete : Route(chunk, complete)
    BY <1>1 DEF DrainOne
  <2> QED
    BY <2>2, <2>3
<1>2. CASE Call
  BY <1>2 DEF Call, PushBarrier, PruneResultsBefore, BeginRun
<1>3. CASE Loop
  BY <1>1, <1>3 DEF Loop, MakeRoom, DrainIdle, Reschedule, Issue, Resume, Admit, AdmitTurn,
     Return, ReturnFromRun
<1>4. CASE UNCHANGED vars
  BY <1>4 DEF vars, frontVars, controlVars
<1> QED
  BY <1>2, <1>3, <1>4 DEF Next

LEMMA BurstsTyped ==
  ASSUME StatInv, [Next]_vars
  PROVE  DOMAIN bursts' = Cores /\ \A c \in Cores : Histogram(bursts'[c])
<1>1. DOMAIN bursts = Cores /\ \A c \in Cores : Histogram(bursts[c])
  BY DEF StatInv
<1>2. ASSUME NEW core \in Cores, NEW axi \in AxiIds, NEW txn \in Txns, PushTxn(core, axi, txn)
      PROVE  DOMAIN bursts' = Cores /\ \A c \in Cores : Histogram(bursts'[c])
  <2>1. PICK size \in Nat : size = BurstBytes(txn)
    <3>1. txn.size_bytes \in Nat /\ txn.len_beats \in Nat
      BY FrontEndAssumption
    <3>2. txn.size_bytes * txn.len_beats \in Nat
      BY <3>1, ProductNat
    <3> QED
      BY <3>1, <3>2 DEF BurstBytes
  <2>2. Histogram(Counted(bursts[core], size))
    BY <1>1, <2>1, CountedTyped
  <2>3. bursts' = [bursts EXCEPT ![core] = Counted(bursts[core], size)]
    BY <1>2, <2>1 DEF PushTxn
  <2>4. /\ DOMAIN bursts' = Cores /\ bursts'[core] = Counted(bursts[core], size)
        /\ \A c \in Cores \ {core} : bursts'[c] = bursts[c]
    BY <1>1, <2>3
  <2> QED
    BY <1>1, <2>2, <2>4
<1> QED
  BY <1>1, <1>2, BurstsSame

LEMMA QueuesStep ==
  ASSUME LoopInv, QueuesBounded, [Next]_vars
  PROVE  QueuesBounded'
<1>1. channels \in [Channels -> ChannelState]
  BY DEF LoopInv, LoopTypeOK
<1>2. CASE Admit
  <2>0. PICK chunk : chunk = ChunkOf(turn)
    OBVIOUS
  <2>1. PICK ch \in Channels : ch = TurnChannel
    BY <1>2, TurnFacts DEF Admit
  <2>2. channels' = [channels EXCEPT
                       ![ch].queue = @ \cup {chunk}, ![ch].last_ready = Later(@, chunk.ready)]
    BY <1>2, <2>0, <2>1 DEF Admit
  <2>3. /\ channels'[ch].queue = channels[ch].queue \cup {chunk}
        /\ \A k \in Channels \ {ch} : channels'[k] = channels[k]
    BY <1>1, <2>2 DEF ChannelState
  <2>4. PICK n : n = Cardinality(channels[ch].queue)
    OBVIOUS
  <2>5. IsFiniteSet(channels[ch].queue) /\ n \in Nat
    BY <2>4, FS_CardinalityType DEF QueuesBounded
  <2>6. n < QueueDepth
    BY <1>2, <2>1, <2>4 DEF Admit, HasRoom
  <2>7. /\ IsFiniteSet(channels'[ch].queue)
        /\ Cardinality(channels'[ch].queue) = n \/ Cardinality(channels'[ch].queue) = n + 1
    BY <2>3, <2>4, <2>5, FS_AddElement
  <2>8. Cardinality(channels'[ch].queue) <= QueueDepth
    BY <2>5, <2>6, <2>7, ChannelAssumption
  <2> QED
    BY <2>3, <2>7, <2>8 DEF QueuesBounded
<1>3. CASE \A ch \in Channels : channels'[ch].queue \subseteq channels[ch].queue
  <2> SUFFICES ASSUME NEW ch \in Channels
               PROVE  /\ IsFiniteSet(channels'[ch].queue)
                      /\ Cardinality(channels'[ch].queue) <= QueueDepth
    BY DEF QueuesBounded
  <2>1. IsFiniteSet(channels[ch].queue) /\ Cardinality(channels[ch].queue) <= QueueDepth
    BY DEF QueuesBounded
  <2>2. PICK m, n : m = Cardinality(channels'[ch].queue) /\ n = Cardinality(channels[ch].queue)
    OBVIOUS
  <2>3. IsFiniteSet(channels'[ch].queue) /\ m <= n
    BY <1>3, <2>1, <2>2, FS_Subset
  <2>4. m \in Nat /\ n \in Nat
    BY <2>1, <2>2, <2>3, FS_CardinalityType
  <2>5. m <= QueueDepth
    BY <2>1, <2>2, <2>3, <2>4, ChannelAssumption
  <2> QED
    BY <2>2, <2>3, <2>5
<1>4. Admit \/ \A ch \in Channels : channels'[ch].queue \subseteq channels[ch].queue
  <2>1. ASSUME NEW s, NEW ip, Returns(s, ip)
        PROVE  \A ch \in Channels : channels'[ch].queue \subseteq channels[ch].queue
    BY <2>1 DEF Returns, Lands
  <2>2. UNCHANGED channels => \A ch \in Channels : channels'[ch].queue \subseteq channels[ch].queue
    OBVIOUS
  <2> QED
    BY <2>1, <2>2, StepCases DEF Progresses, Finishes, Quiet
<1> QED
  BY <1>2, <1>3, <1>4

LEMMA StatInvStep ==
  ASSUME LoopInv, TimeInv, CapInv', StatInv, [Next]_vars
  PROVE  StatInv'
<1>1. QueuesBounded'
  BY QueuesStep DEF StatInv
<1>2. DOMAIN bursts' = Cores /\ \A c \in Cores : Histogram(bursts[c])'
  BY BurstsTyped DEF Histogram
<1>3. windows' \in Seq(WindowStats) /\ totals' \in Totals /\ runtimes' \in [Cores -> CoreRuntime]
  <2>1. CASE Next
    BY <2>1, StatisticsTyped
  <2>2. CASE UNCHANGED vars
    BY <2>2 DEF vars, frontVars, statisticVars, StatInv
  <2> QED
    BY <2>1, <2>2
<1> QED
  BY <1>1, <1>2, <1>3 DEF StatInv

LEMMA InitStatistics == Init => StatInv
<1> SUFFICES ASSUME Init PROVE StatInv
  OBVIOUS
<1>1. QueuesBounded
  <2>1. \A ch \in Channels : channels[ch].queue = {}
    BY DEF Init
  <2>2. IsFiniteSet({}) /\ Cardinality({}) = 0
    BY FS_EmptySet
  <2>3. 0 <= QueueDepth
    BY ChannelAssumption
  <2> QED
    BY <2>1, <2>2, <2>3 DEF QueuesBounded
<1>2. DOMAIN bursts = Cores /\ \A c \in Cores : Histogram(bursts[c])
  BY DEF Init, FrontInit, Histogram
<1>3. windows \in Seq(WindowStats)
  BY EmptySeq DEF Init, FrontInit
<1>4. totals \in Totals
  BY DEF Init, FrontInit, Totals
<1>5. runtimes \in [Cores -> CoreRuntime]
  <2>1. [t \in {"Read", "Write"} |-> 0] \in [TxnTypes -> Nat]
    BY DEF TxnTypes
  <2>2. NoLatencies \in [0 .. LatencyBuckets - 1 -> Nat]
    BY DEF NoLatencies
  <2>3. NoRuntime \in CoreRuntime
    BY <2>1, <2>2 DEF NoRuntime, CoreRuntime
  <2> QED
    BY <2>3 DEF Init, FrontInit
<1> QED
  BY <1>1, <1>2, <1>3, <1>4, <1>5 DEF StatInv

LEMMA AlwaysTyped == Spec => [](OrderInv /\ TimeInv /\ CapInv /\ StatInv)
<1>1. OrderInv /\ TimeInv /\ CapInv /\ StatInv /\ [Next]_vars
        => (OrderInv /\ TimeInv /\ CapInv /\ StatInv)'
  BY LoopStep, SegInvStep, IdInvStep, PlaceInvStep, TimeInvStep, CapInvStep, StatInvStep DEF OrderInv
<1>2. Init => OrderInv /\ TimeInv /\ CapInv /\ StatInv
  BY InitOrder, InitTimes, InitCapped, InitStatistics
<1> QED
  BY <1>1, <1>2, PTL DEF Spec

(* Every member of the engine holds a value of its declared type: no cycle or
   count goes below zero, no latency is negative, no completion falls outside
   the windows kept, and no channel's queue outgrows its depth
   (TypeOK; class Engine, finalize_in_progress_txn). *)
THEOREM MembersKeepTheirTypes == Spec => []TypeOK
<1>1. LoopInv /\ StatInv => TypeOK
  <2> SUFFICES ASSUME LoopInv, StatInv PROVE TypeOK
    OBVIOUS
  <2>1. \A ch \in Channels :
          /\ channels[ch].queue \subseteq Chunk /\ Cardinality(channels[ch].queue) <= QueueDepth
          /\ {channels[ch].bus_free, channels[ch].last_ready} \subseteq Nat
    BY DEF LoopInv, LoopTypeOK, StatInv, QueuesBounded, ChannelState
  <2>2. \A c \in Cores : \A b \in DOMAIN bursts[c] : b \in Nat /\ bursts[c][b] \in Nat
    BY DEF StatInv, Histogram
  <2> QED
    BY <2>1, <2>2 DEF TypeOK, LoopInv, LoopTypeOK, StatInv
<1> QED
  BY <1>1, AlwaysTyped, PTL DEF OrderInv
-----------------------------------------------------------------------------
(***************************************************************************)
(* Windows.  The bytes of a transaction touch every window from its first  *)
(* to its last.                                                            *)
(***************************************************************************)
LEMMA QuotientBounds ==
  ASSUME NEW a \in Nat, NEW d \in Nat \ {0}, NEW q, q = a \div d
  PROVE  q \in Nat /\ q * d <= a /\ a < (q + 1) * d
BY Z3

LEMMA ProductMonotone ==
  ASSUME NEW a \in Nat, NEW b \in Nat, NEW d \in Nat, a <= b
  PROVE  a * d \in Nat /\ b * d \in Nat /\ a * d <= b * d
BY Z3

LEMMA QuotientOfProduct ==
  ASSUME NEW q \in Nat, NEW d \in Nat \ {0}
  PROVE  (q * d) \div d = q
BY Z3

LEMMA WindowsTouched ==
  ASSUME NEW txn \in Txns
  PROVE  {b \div ChunkBytes : b \in txn.addr .. txn.addr + TotalBytes(txn) - 1}
           = FirstWindow(txn) .. FirstWindow(txn) + NumChunks(txn) - 1
<1>1. PICK a \in Nat, last \in Nat, d \in Nat \ {0} :
        a = txn.addr /\ last = txn.addr + TotalBytes(txn) - 1 /\ d = ChunkBytes /\ a <= last
  <2>1. txn.addr \in Nat /\ ChunkBytes \in Nat \ {0} /\ TotalBytes(txn) \in Nat \ {0}
    BY ChunkFacts, FrontEndAssumption
  <2> QED
    BY <2>1
<1>2. PICK p, q : p = a \div d /\ q = last \div d
  OBVIOUS
<1>3. p \in Nat /\ q \in Nat /\ p <= q
  BY <1>1, <1>2, QuotientNat, QuotientMonotone
<1>4. FirstWindow(txn) = p /\ FirstWindow(txn) + NumChunks(txn) - 1 = q
  <2>1. FirstWindow(txn) = p /\ NumChunks(txn) = q - p + 1
    BY <1>1, <1>2 DEF FirstWindow, NumChunks
  <2> QED
    BY <1>3, <2>1
<1>5. ASSUME NEW b \in a .. last PROVE b \div d \in p .. q
  <2>1. b \in Nat /\ a <= b /\ b <= last
    BY <1>1
  <2>2. PICK w \in Nat : w = b \div d
    BY <2>1, QuotientNat
  <2>3. p <= w /\ w <= q
    BY <1>1, <1>2, <2>1, <2>2, QuotientMonotone
  <2> QED
    BY <1>3, <2>2, <2>3
<1>6. ASSUME NEW w \in p .. q PROVE \E b \in a .. last : b \div d = w
  <2>1. w \in Nat /\ p <= w /\ w <= q
    BY <1>3
  <2>2. CASE w = p
    BY <1>1, <1>2, <2>2
  <2>3. CASE w # p
    <3>1. PICK low, high, b : low = (p + 1) * d /\ high = q * d /\ b = w * d
      OBVIOUS
    <3>2. a < low /\ high <= last
      BY <1>1, <1>2, <3>1, QuotientBounds
    <3>3. p + 1 \in Nat /\ p + 1 <= w
      BY <1>3, <2>1, <2>3
    <3>4. low \in Nat /\ b \in Nat /\ low <= b
      BY <1>1, <2>1, <3>1, <3>3, ProductMonotone
    <3>5. high \in Nat /\ b <= high
      BY <1>1, <1>3, <2>1, <3>1, ProductMonotone
    <3>6. b \in a .. last
      BY <1>1, <3>2, <3>4, <3>5
    <3>7. b \div d = w
      BY <1>1, <2>1, <3>1, QuotientOfProduct
    <3> QED
      BY <3>6, <3>7
  <2> QED
    BY <2>2, <2>3
<1>7. {b \div d : b \in a .. last} = p .. q
  BY <1>5, <1>6
<1> QED
  BY <1>1, <1>4, <1>7

-----------------------------------------------------------------------------
(***************************************************************************)
(* What the channels served, as one log: each chunk under its channel and  *)
(* its place there.                                                        *)
(***************************************************************************)
AllServed == UNION {{<<ch, i>> : i \in DOMAIN channels[ch].served} : ch \in Channels}
ServedLog == [x \in AllServed |-> channels[x[1]].served[x[2]]]

(* Of a log, the chunks of transaction id: how many, their windows, and that each
   was on its window's channel, after the issue and by the end. *)
ServedOf(log, id) == {x \in DOMAIN log : log[x].txn_id = id}
HasServed(log, id, n) == IsFiniteSet(ServedOf(log, id)) /\ Cardinality(ServedOf(log, id)) = n
ServedWindows(log, id) == {log[x].window : x \in ServedOf(log, id)}
InTime(log, id, issue, end) ==
  \A x \in ServedOf(log, id) :
    x[1] = ChannelOf(log[x].window) /\ issue < log[x].complete /\ log[x].complete <= end

LogTyped(log) == \A x \in DOMAIN log : log[x].complete \in Nat

(* One more chunk is served. *)
Extends(new, log, x, entry) ==
  /\ x \notin DOMAIN log /\ DOMAIN new = DOMAIN log \cup {x}
  /\ new[x] = entry /\ \A y \in DOMAIN log : new[y] = log[y]

(* The transaction with this number, as it was pushed. *)
CalledIn(id, txn, made) ==
  \E i \in DOMAIN made : made[i].kind = "txn" /\ made[i].txn_id = id /\ made[i].txn = txn

(* The chunks of a transaction admitted so far, those that fly and those that
   were served, are its first windows, each once; and all that are served were
   served after the issue. *)
ServedFor(log, ip, flying) ==
  /\ \A chunk \in flying : chunk.txn_id = ip.txn_id /\ chunk.ready = ip.issue_cycle
  /\ HasServed(log, ip.txn_id, ip.chunks_dispatched)
  /\ ServedWindows(log, ip.txn_id) \cup {chunk.window : chunk \in flying}
       = ip.first_window .. ip.first_window + (ip.chunks_dispatched + Cardinality(flying)) - 1
  /\ InTime(log, ip.txn_id, ip.issue_cycle, ip.max_complete)

(* All of a transaction that is over. *)
ServedAll(log, r, txn) ==
  /\ HasServed(log, r.txn_id, NumChunks(txn)) /\ r.dram_bytes = NumChunks(txn) * ChunkBytes
  /\ ServedWindows(log, r.txn_id) = FirstWindow(txn) .. FirstWindow(txn) + NumChunks(txn) - 1
  /\ InTime(log, r.txn_id, r.issue, r.complete)

WasServed(log, r, made) == \E txn \in Txns : CalledIn(r.txn_id, txn, made) /\ ServedAll(log, r, txn)

(* The transactions that have been issued. *)
Taken == {finished[k].txn_id : k \in DOMAIN finished} \cup {cursors[s].in_progress.txn_id : s \in Serving}

AsCalled(p, made) == \A i \in DOMAIN p : CalledIn(p[i].txn_id, p[i].txn, made)

PendingCalled == \A s \in DOMAIN cursors : AsCalled(cursors[s].pending, calls)

ChunkInv ==
  /\ \A s \in Serving : ServedFor(ServedLog, cursors[s].in_progress, Flying(s))
  /\ \A k \in DOMAIN finished : WasServed(ServedLog, finished[k], calls)
  /\ \A x \in DOMAIN ServedLog : ServedLog[x].txn_id \in Taken

ServedInv == PendingCalled /\ ChunkInv

LEMMA AllServedIs ==
  ASSUME NEW x
  PROVE  /\ x \in AllServed <=> \E ch \in Channels : \E i \in DOMAIN channels[ch].served : x = <<ch, i>>
         /\ x \in AllServed' <=> \E ch \in Channels : \E i \in DOMAIN channels'[ch].served : x = <<ch, i>>
BY DEF AllServed

LEMMA ServedIs ==
  ASSUME NEW id
  PROVE  Served(id) = ServedOf(ServedLog, id)
<1>1. \A x : x \in Served(id) <=> \E ch \in Channels : \E i \in DOMAIN channels[ch].served :
                                     x = <<ch, i>> /\ channels[ch].served[i].txn_id = id
  BY DEF Served
<1>2. DOMAIN ServedLog = AllServed /\ \A x \in AllServed : ServedLog[x] = channels[x[1]].served[x[2]]
  BY DEF ServedLog
<1> QED
  BY <1>1, <1>2, AllServedIs DEF ServedOf

LEMMA LogIsTyped ==
  ASSUME LoopInv
  PROVE  LogTyped(ServedLog)
<1> SUFFICES ASSUME NEW x \in AllServed PROVE channels[x[1]].served[x[2]].complete \in Nat
  BY DEF LogTyped, ServedLog
<1>1. PICK ch \in Channels : \E i \in DOMAIN channels[ch].served : x = <<ch, i>>
  BY AllServedIs
<1>2. PICK i \in DOMAIN channels[ch].served : x = <<ch, i>>
  BY <1>1
<1>3. channels[ch].served \in Seq([stream : Streams, txn_id : Nat, window : Nat, complete : Nat])
  BY DEF LoopInv, LoopTypeOK, ChannelState
<1>4. channels[ch].served[i] \in [stream : Streams, txn_id : Nat, window : Nat, complete : Nat]
  BY <1>3, LenProperties, ElementOfSeq
<1> QED
  BY <1>2, <1>4

-----------------------------------------------------------------------------
(***************************************************************************)
(* A log with one more chunk.                                              *)
(***************************************************************************)
LEMMA ExtendedOthers ==
  ASSUME NEW log, NEW new, NEW x, NEW entry, Extends(new, log, x, entry), NEW id, id # entry.txn_id
  PROVE  /\ ServedOf(new, id) = ServedOf(log, id)
         /\ \A n : HasServed(log, id, n) => HasServed(new, id, n)
         /\ ServedWindows(new, id) = ServedWindows(log, id)
         /\ \A issue, end : InTime(log, id, issue, end) => InTime(new, id, issue, end)
<1>1. ServedOf(new, id) = ServedOf(log, id)
  BY DEF Extends, ServedOf
<1>2. \A y \in ServedOf(log, id) : new[y] = log[y]
  BY DEF Extends, ServedOf
<1>3. ServedWindows(new, id) = ServedWindows(log, id)
  BY <1>1, <1>2 DEF ServedWindows
<1>4. \A issue, end : InTime(log, id, issue, end) => InTime(new, id, issue, end)
  BY <1>1, <1>2 DEF InTime
<1>5. \A n : HasServed(log, id, n) => HasServed(new, id, n)
  BY <1>1 DEF HasServed
<1> QED
  BY <1>1, <1>3, <1>4, <1>5

LEMMA ExtendedOwn ==
  ASSUME NEW log, NEW new, NEW x, NEW entry, Extends(new, log, x, entry), LogTyped(log),
         NEW id, id = entry.txn_id, NEW n \in Nat, HasServed(log, id, n),
         NEW issue \in Nat, NEW end \in Nat, NEW last \in Nat, InTime(log, id, issue, end),
         end <= last, issue < entry.complete, entry.complete <= last,
         x[1] = ChannelOf(entry.window)
  PROVE  /\ HasServed(new, id, n + 1)
         /\ ServedWindows(new, id) = ServedWindows(log, id) \cup {entry.window}
         /\ InTime(new, id, issue, last)
<1>1. /\ ServedOf(new, id) = ServedOf(log, id) \cup {x} /\ x \notin ServedOf(log, id)
      /\ new[x] = entry /\ \A y \in ServedOf(log, id) : new[y] = log[y] /\ log[y].complete \in Nat
  BY DEF Extends, ServedOf, LogTyped
<1>2. HasServed(new, id, n + 1)
  BY <1>1, FS_AddElement DEF HasServed
<1>3. ServedWindows(new, id) = ServedWindows(log, id) \cup {entry.window}
  BY <1>1 DEF ServedWindows
<1>4. InTime(new, id, issue, last)
  <2> SUFFICES ASSUME NEW y \in ServedOf(new, id)
               PROVE  y[1] = ChannelOf(new[y].window) /\ issue < new[y].complete /\ new[y].complete <= last
    BY DEF InTime
  <2>1. CASE y = x
    BY <1>1, <2>1
  <2>2. CASE y # x
    <3>1. y \in ServedOf(log, id) /\ new[y] = log[y]
      BY <1>1, <2>2
    <3>2. PICK back \in Nat : back = log[y].complete
      BY <1>1, <3>1
    <3>3. y[1] = ChannelOf(log[y].window) /\ issue < back /\ back <= end
      BY <3>1, <3>2 DEF InTime
    <3> QED
      BY <3>1, <3>2, <3>3
  <2> QED
    BY <2>1, <2>2
<1> QED
  BY <1>2, <1>3, <1>4


-----------------------------------------------------------------------------
(***************************************************************************)
(* What is pending is as it was pushed.                                    *)
(***************************************************************************)
(* A call made stays made. *)
LEMMA CalledStays ==
  ASSUME LoopInv, [Next]_vars, NEW id, NEW txn, CalledIn(id, txn, calls)
  PROVE  CalledIn(id, txn, calls')
<1>1. PICK i \in Pushed : calls[i].txn_id = id /\ calls[i].txn = txn
  BY DEF CalledIn, Pushed
<1>2. calls' = calls \/ \E call \in CallRecord : calls' = Append(calls, call)
  <2>1. ASSUME NEW s \in Streams, NEW entry \in Entry, StepPushes(s, entry)
        PROVE  \E call \in CallRecord : calls' = Append(calls, call)
    <3>1. PICK call : call = [kind |-> "txn", core |-> CoreOf(s), axi |-> AxiOf(s),
                              txn_id |-> entry.txn_id, txn |-> entry.txn]
      OBVIOUS
    <3>2. call \in CallRecord
      BY <3>1 DEF CallRecord, Entry, Streams, CoreOf, AxiOf
    <3> QED
      BY <2>1, <3>1, <3>2 DEF StepPushes
  <2>2. \A core \in Cores : [kind |-> "barrier", core |-> core] \in CallRecord
    BY DEF CallRecord
  <2>3. \A n \in Nat : [kind |-> "prune", txn_id |-> n] \in CallRecord
    BY DEF CallRecord
  <2>4. ASSUME NEW core \in Cores, StepBars(core)
        PROVE  calls' = Append(calls, [kind |-> "barrier", core |-> core])
    BY <2>4 DEF StepBars, PushBarrier
  <2>5. StepSteady => calls' = calls \/ \E n \in Nat : calls' = Append(calls, [kind |-> "prune", txn_id |-> n])
    BY DEF StepSteady
  <2>6. ASSUME NEW s \in DOMAIN cursors, NEW issue \in Nat, StepIssues(s, issue) PROVE calls' = calls
    BY <2>6 DEF StepIssues
  <2>7. ASSUME NEW s \in DOMAIN cursors, NEW complete \in Nat, NEW gate \in Nat, NEW ip, NEW opened,
               StepFinishes(s, ip, complete, gate, opened)
        PROVE  calls' = calls
    BY <2>7 DEF StepFinishes
  <2> QED
    BY <2>1, <2>2, <2>3, <2>4, <2>5, <2>6, <2>7, StepKinds
<1>3. i \in Pushed' /\ calls'[i] = calls[i]
  <2>1. ASSUME NEW call \in CallRecord, calls' = Append(calls, call)
        PROVE  i \in Pushed' /\ calls'[i] = calls[i]
    BY <2>1, PushedAppend DEF Pushed
  <2>2. CASE calls' = calls
    BY <2>2 DEF Pushed
  <2> QED
    BY <1>2, <2>1, <2>2
<1> QED
  BY <1>1, <1>3 DEF CalledIn, Pushed

LEMMA PendingStays ==
  ASSUME LoopInv, [Next]_vars, NEW p, AsCalled(p, calls)
  PROVE  AsCalled(p, calls')
<1> SUFFICES ASSUME NEW i \in DOMAIN p PROVE CalledIn(p[i].txn_id, p[i].txn, calls')
  BY DEF AsCalled
<1>1. PICK id, txn : id = p[i].txn_id /\ txn = p[i].txn
  OBVIOUS
<1>2. CalledIn(id, txn, calls)
  BY <1>1 DEF AsCalled
<1>3. CalledIn(id, txn, calls')
  BY <1>2, CalledStays
<1> QED
  BY <1>1, <1>3

LEMMA PendingPushed ==
  ASSUME NEW p \in Seq(Entry), NEW entry \in Entry, AsCalled(p, calls), CalledIn(entry.txn_id, entry.txn, calls)
  PROVE  AsCalled(Append(p, entry), calls)
<1>1. PICK n, q : n = Len(p) /\ q = Append(p, entry)
  OBVIOUS
<1>2. /\ n \in Nat /\ DOMAIN p = 1 .. n /\ q \in Seq(Entry) /\ Len(q) = n + 1
      /\ \A i \in 1 .. n : q[i] = p[i]
      /\ q[n + 1] = entry
  BY <1>1, AppendProperties, LenProperties
<1>3. DOMAIN q = 1 .. n + 1
  BY <1>2, LenProperties
<1>4. \A i \in DOMAIN q : i \in DOMAIN p \/ i = n + 1
  BY <1>2, <1>3
<1>5. AsCalled(q, calls)
  BY <1>2, <1>4 DEF AsCalled
<1> QED
  BY <1>1, <1>5

LEMMA PendingPopped ==
  ASSUME NEW p \in Seq(Entry), p # <<>>, AsCalled(p, calls)
  PROVE  AsCalled(Tail(p), calls) /\ CalledIn(Head(p).txn_id, Head(p).txn, calls)
<1>1. PICK n, q, h : n = Len(p) /\ q = Tail(p) /\ h = Head(p)
  OBVIOUS
<1>2. /\ n \in Nat /\ n # 0 /\ DOMAIN p = 1 .. n /\ q \in Seq(Entry) /\ Len(q) = n - 1
      /\ \A i \in 1 .. n - 1 : q[i] = p[i + 1]
      /\ h = p[1]
  BY <1>1, HeadTailProperties, LenProperties, EmptySeq
<1>3. DOMAIN q = 1 .. n - 1
  BY <1>2, LenProperties
<1>4. 1 \in DOMAIN p /\ \A i \in DOMAIN q : i + 1 \in DOMAIN p /\ q[i] = p[i + 1]
  BY <1>2, <1>3
<1>5. AsCalled(q, calls) /\ CalledIn(h.txn_id, h.txn, calls)
  BY <1>2, <1>4 DEF AsCalled
<1> QED
  BY <1>1, <1>5

LEMMA PendingStep ==
  ASSUME LoopInv, PendingCalled, [Next]_vars
  PROVE  PendingCalled'
<1>1. \A s \in DOMAIN cursors : AsCalled(cursors[s].pending, calls)
  BY DEF PendingCalled
<1>2. \A s \in DOMAIN cursors : cursors[s].pending \in Seq(Entry)
  BY StreamFacts DEF Cursor, Entry
<1>3. \A p : AsCalled(p, calls) => AsCalled(p, calls')
  BY PendingStays
<1> SUFFICES \A s \in DOMAIN cursors' : AsCalled(cursors'[s].pending, calls')
  BY DEF PendingCalled
<1>4. ASSUME DOMAIN cursors' = DOMAIN cursors,
             \A s \in DOMAIN cursors : cursors'[s].pending = cursors[s].pending
      PROVE  \A s \in DOMAIN cursors' : AsCalled(cursors'[s].pending, calls')
  <2> SUFFICES ASSUME NEW s \in DOMAIN cursors PROVE AsCalled(cursors'[s].pending, calls')
    BY <1>4
  <2>1. PICK p : p = cursors[s].pending
    OBVIOUS
  <2>2. AsCalled(p, calls') /\ cursors'[s].pending = p
    BY <1>1, <1>3, <1>4, <2>1
  <2> QED
    BY <2>2
<1>5. ASSUME NEW s \in Streams, NEW entry \in Entry, StepPushes(s, entry)
      PROVE  \A t \in DOMAIN cursors' : AsCalled(cursors'[t].pending, calls')
  <2>1. PICK p : p = CursorBefore(s).pending
    OBVIOUS
  <2>2. p \in Seq(Entry) /\ AsCalled(p, calls)
    <3>1. CASE s \in DOMAIN cursors
      BY <1>1, <1>2, <2>1, <3>1 DEF CursorBefore
    <3>2. CASE s \notin DOMAIN cursors
      <4>1. p = <<>>
        BY <2>1, <3>2 DEF CursorBefore, NewCursor
      <4>2. DOMAIN p = {} /\ p \in Seq(Entry)
        BY <4>1, EmptySeq
      <4> QED
        BY <4>2 DEF AsCalled
    <3> QED
      BY <3>1, <3>2
  <2>3. PICK call : call = [kind |-> "txn", core |-> CoreOf(s), axi |-> AxiOf(s),
                            txn_id |-> entry.txn_id, txn |-> entry.txn]
    OBVIOUS
  <2>4. call \in CallRecord /\ call.kind = "txn" /\ call.txn_id = entry.txn_id /\ call.txn = entry.txn
    BY <2>3 DEF CallRecord, Entry, Streams, CoreOf, AxiOf
  <2>5. calls' = Append(calls, call)
    BY <1>5, <2>3 DEF StepPushes
  <2>6. CalledIn(entry.txn_id, entry.txn, calls')
    <3>1. Len(calls) + 1 \in Pushed' /\ calls'[Len(calls) + 1] = call
      BY <2>4, <2>5, PushedAppend
    <3> QED
      BY <2>4, <3>1 DEF CalledIn, Pushed
  <2>7. PICK q : q = Append(p, entry)
    OBVIOUS
  <2>8. AsCalled(q, calls')
    <3>1. /\ DOMAIN q = DOMAIN p \cup {Len(p) + 1} /\ q[Len(p) + 1] = entry
          /\ \A i \in DOMAIN p : q[i] = p[i]
      BY <2>2, <2>7, AppendProperties, LenProperties
    <3>2. AsCalled(p, calls')
      BY <1>3, <2>2
    <3>3. \A i \in DOMAIN q : i \in DOMAIN p \/ i = Len(p) + 1
      BY <3>1
    <3> QED
      BY <2>6, <3>1, <3>2, <3>3 DEF AsCalled
  <2>9. /\ DOMAIN cursors' = DOMAIN cursors \cup {s} /\ cursors'[s].pending = q
        /\ \A t \in DOMAIN cursors \ {s} : cursors'[t] = cursors[t]
    BY <1>5, <2>1, <2>7 DEF StepPushes
  <2>10. ASSUME NEW t \in DOMAIN cursors \ {s} PROVE AsCalled(cursors'[t].pending, calls')
    <3>1. PICK o : o = cursors[t].pending
      OBVIOUS
    <3>2. AsCalled(o, calls') /\ cursors'[t].pending = o
      BY <1>1, <1>3, <2>9, <3>1
    <3> QED
      BY <3>2
  <2>11. AsCalled(cursors'[s].pending, calls')
    BY <2>8, <2>9
  <2> QED
    BY <2>9, <2>10, <2>11
<1>6. ASSUME NEW s \in DOMAIN cursors, NEW complete \in Nat, NEW gate \in Nat, NEW ip, NEW opened,
             StepFinishes(s, ip, complete, gate, opened)
      PROVE  \A t \in DOMAIN cursors' : AsCalled(cursors'[t].pending, calls')
  <2>1. /\ cursors[s].pending # <<>> /\ ip \in InProgress /\ DOMAIN cursors' = DOMAIN cursors
        /\ cursors'[s] = Finished(cursors[s], ip, complete)
        /\ \A t \in DOMAIN cursors \ {s} : cursors'[t].pending = cursors[t].pending
    BY <1>6 DEF StepFinishes
  <2>2. cursors'[s].pending = Tail(cursors[s].pending)
    BY <2>1, StreamFacts, FinishedTyped
  <2>3. PICK q : q = Tail(cursors[s].pending)
    OBVIOUS
  <2>4. AsCalled(q, calls)
    BY <1>1, <1>2, <2>1, <2>3, PendingPopped
  <2>5. AsCalled(cursors'[s].pending, calls')
    BY <1>3, <2>2, <2>3, <2>4
  <2>6. ASSUME NEW t \in DOMAIN cursors \ {s} PROVE AsCalled(cursors'[t].pending, calls')
    <3>1. PICK o : o = cursors[t].pending
      OBVIOUS
    <3>2. AsCalled(o, calls') /\ cursors'[t].pending = o
      BY <1>1, <1>3, <2>1, <3>1
    <3> QED
      BY <3>2
  <2> QED
    BY <2>1, <2>5, <2>6
<1>7. ASSUME NEW core \in Cores, StepBars(core)
      PROVE  \A s \in DOMAIN cursors' : AsCalled(cursors'[s].pending, calls')
  BY <1>4, <1>7 DEF StepBars, PushBarrier
<1>8. ASSUME NEW s \in DOMAIN cursors, NEW issue \in Nat, StepIssues(s, issue)
      PROVE  \A t \in DOMAIN cursors' : AsCalled(cursors'[t].pending, calls')
  BY <1>4, <1>8 DEF StepIssues
<1>9. ASSUME StepSteady
      PROVE  \A s \in DOMAIN cursors' : AsCalled(cursors'[s].pending, calls')
  BY <1>4, <1>9 DEF StepSteady, Advances
<1> QED
  BY <1>5, <1>6, <1>7, <1>8, <1>9, StepKinds

-----------------------------------------------------------------------------
(***************************************************************************)
(* What a step does to the chunks: it serves one, or admits one, or issues *)
(* a transaction, or moves none.                                           *)
(***************************************************************************)
ServesNone == ServedLog' = ServedLog

AsServed(chunk, back) ==
  [stream |-> chunk.stream, txn_id |-> chunk.txn_id, window |-> chunk.window, complete |-> back]

ServesOne(chunk, back) ==
  \E x : x[1] = ChannelOf(chunk.window) /\ Extends(ServedLog', ServedLog, x, AsServed(chunk, back))

(* The transactions in service stay where they are, but for that of s. *)
OthersStay(s) ==
  \A t \in Serving \ {s} :
    cursors'[t].in_progress = cursors[t].in_progress /\ Flying(t)' = Flying(t)

ChunksCalm ==
  /\ ServesNone /\ UNCHANGED finished /\ Serving' = Serving
  /\ \A t \in Serving : cursors'[t].in_progress = cursors[t].in_progress /\ Flying(t)' = Flying(t)

ChunksIssue(s) ==
  /\ ServesNone /\ UNCHANGED finished /\ Serving' = Serving \cup {s} /\ s \notin Serving
  /\ OthersStay(s)
  /\ Flying(s)' = {} /\ cursors[s].pending # <<>>
  /\ cursors'[s].in_progress.txn_id = Head(cursors[s].pending).txn_id
  /\ cursors'[s].in_progress.chunks_dispatched = 0

ChunkAdmitted(ip, flying, chunk) ==
  /\ chunk \notin flying
  /\ chunk.txn_id = ip.txn_id /\ chunk.ready = ip.issue_cycle
  /\ chunk.window = ip.first_window + (ip.chunks_dispatched + Cardinality(flying))

ChunksAdmit(s, chunk) ==
  /\ ServesNone /\ UNCHANGED finished /\ Serving' = Serving /\ s \in Serving
  /\ OthersStay(s)
  /\ cursors'[s].in_progress = cursors[s].in_progress
  /\ ChunkAdmitted(cursors[s].in_progress, Flying(s), chunk)
  /\ Flying(s)' = Flying(s) \cup {chunk}

ChunksServe(s, chunk, back) ==
  LET ip == Progressed(cursors[s].in_progress, back) IN
  /\ s \in Serving /\ OthersStay(s)
  /\ chunk \in Flying(s) /\ Flying(s)' = Flying(s) \ {chunk}
  /\ ServesOne(chunk, back) /\ chunk.ready < back
  /\ cursors'[s].in_progress = ip
  /\ \/ UNCHANGED finished /\ Serving' = Serving
     \/ /\ ip.chunks_dispatched = ip.num_chunks /\ Serving' = Serving \ {s}
        /\ \E complete \in Nat :
             ip.max_complete <= complete /\ finished' = Append(finished, ResultOf(s, ip, complete))

LEMMA ServesNoneSame ==
  ASSUME \A ch \in Channels : channels'[ch].served = channels[ch].served
  PROVE  ServesNone
<1>1. AllServed' = AllServed
  BY DEF AllServed
<1>2. ASSUME NEW y \in AllServed PROVE channels'[y[1]].served[y[2]] = channels[y[1]].served[y[2]]
  <2>1. PICK ch \in Channels : \E i \in DOMAIN channels[ch].served : y = <<ch, i>>
    BY AllServedIs
  <2>2. y[1] = ch
    BY <2>1
  <2> QED
    BY <2>2
<1> QED
  BY <1>1, <1>2 DEF ServesNone, ServedLog

LEMMA DrainServes ==
  ASSUME LoopInv, NEW ch \in Channels, DrainOne(ch)
  PROVE  \E s \in DOMAIN cursors, chunk \in Chunk, back \in Nat :
           /\ chunk \in Flying(s) /\ Lands(s, chunk) /\ Route(chunk, back) /\ chunk.stream = s
           /\ ServesOne(chunk, back) /\ chunk.ready < back
<1>1. channels \in [Channels -> ChannelState]
  BY DEF LoopInv, LoopTypeOK
<1>a. PICK chunk \in channels[ch].queue, delay \in Delays(ch) : \E back :
        /\ back = Later(channels[ch].bus_free, chunk.ready) + delay
        /\ channels' = [channels EXCEPT
                      ![ch].queue = @ \ {chunk}, ![ch].bus_free = back,
                      ![ch].served = Append(@, [stream |-> chunk.stream, txn_id |-> chunk.txn_id,
                                                window |-> chunk.window, complete |-> back])]
        /\ Route(chunk, back)
  BY DEF DrainOne
<1>2. PICK back :
        /\ back = Later(channels[ch].bus_free, chunk.ready) + delay
        /\ channels' = [channels EXCEPT
                      ![ch].queue = @ \ {chunk}, ![ch].bus_free = back,
                      ![ch].served = Append(@, [stream |-> chunk.stream, txn_id |-> chunk.txn_id,
                                                window |-> chunk.window, complete |-> back])]
        /\ Route(chunk, back)
  BY <1>a
<1>3. chunk \in Chunk /\ chunk.stream \in DOMAIN cursors /\ ch = ChannelOf(chunk.window)
  BY <1>1 DEF LoopInv, Placed, ChannelState
<1>4. PICK s \in DOMAIN cursors : s = chunk.stream
  BY <1>3
<1>5. back \in Nat /\ chunk.ready < back
  <2>1. delay \in Nat \ {0}
    BY ChannelAssumption
  <2>2. channels[ch].bus_free \in Nat /\ chunk.ready \in Nat
    BY <1>1, <1>3 DEF ChannelState, Chunk
  <2>3. PICK start \in Nat : start = Later(channels[ch].bus_free, chunk.ready) /\ chunk.ready <= start
    BY <2>2 DEF Later
  <2> QED
    BY <1>2, <2>1, <2>2, <2>3
<1>6. chunk \in Flying(s)
  BY <1>4 DEF Flying
<1>7. PICK entry : entry = [stream |-> chunk.stream, txn_id |-> chunk.txn_id,
                            window |-> chunk.window, complete |-> back]
  OBVIOUS
<1>8. entry \in [stream : Streams, txn_id : Nat, window : Nat, complete : Nat]
  BY <1>3, <1>5, <1>7 DEF Chunk
<1>9. PICK old, n : old = channels[ch].served /\ n = Len(old) + 1
  OBVIOUS
<1>10. old \in Seq([stream : Streams, txn_id : Nat, window : Nat, complete : Nat])
  BY <1>1, <1>9 DEF ChannelState
<1>11. PICK new : new = Append(old, entry)
  OBVIOUS
<1>12. /\ new \in Seq([stream : Streams, txn_id : Nat, window : Nat, complete : Nat])
       /\ DOMAIN new = DOMAIN old \cup {n} /\ n \notin DOMAIN old /\ new[n] = entry
       /\ \A i \in DOMAIN old : new[i] = old[i]
  <2>1. PICK m : m = Len(old)
    OBVIOUS
  <2>2. /\ m \in Nat /\ DOMAIN old = 1 .. m
        /\ new \in Seq([stream : Streams, txn_id : Nat, window : Nat, complete : Nat]) /\ Len(new) = m + 1
        /\ \A i \in 1 .. m : new[i] = old[i]
        /\ new[m + 1] = entry
    BY <1>8, <1>10, <1>11, <2>1, AppendProperties, LenProperties
  <2>3. DOMAIN new = 1 .. m + 1 /\ n = m + 1
    BY <1>9, <2>1, <2>2, LenProperties
  <2>4. n \notin 1 .. m /\ 1 .. m + 1 = 1 .. m \cup {n}
    BY <2>2, <2>3
  <2> QED
    BY <2>2, <2>3, <2>4
<1>13. channels' = [channels EXCEPT ![ch].queue = @ \ {chunk}, ![ch].bus_free = back, ![ch].served = new]
  BY <1>2, <1>7, <1>9, <1>11
<1>14. /\ channels' \in [Channels -> ChannelState]
       /\ channels'[ch].queue = channels[ch].queue \ {chunk} /\ channels'[ch].served = new
       /\ \A k \in Channels : k # ch => channels'[k] = channels[k]
  BY <1>1, <1>5, <1>12, <1>13, ZenonT(40) DEF ChannelState
<1>15. Lands(s, chunk)
  <2>1. \A k \in Channels : k # ch => chunk \notin channels[k].queue
    BY DEF LoopInv, Placed
  <2>2. Flying(s)' = Flying(s) \ {chunk}
    BY <1>14, <2>1 DEF Flying
  <2>3. \A t : t # s => Flying(t)' = Flying(t)
    BY <1>4, <1>14 DEF Flying
  <2>4. \A k \in Channels : channels'[k].queue \subseteq channels[k].queue
    BY <1>14
  <2> QED
    BY <1>14, <2>2, <2>3, <2>4 DEF Lands
<1>16. ServesOne(chunk, back)
  <2>1. PICK x : x = <<ch, n>>
    OBVIOUS
  <2>2. x \notin AllServed
    BY <1>9, <1>12, <2>1, AllServedIs
  <2>3. AllServed' = AllServed \cup {x}
    <3>1. ASSUME NEW y \in AllServed' PROVE y \in AllServed \cup {x}
      <4>1. PICK k \in Channels : \E i \in DOMAIN channels'[k].served : y = <<k, i>>
        BY AllServedIs
      <4>2. PICK i \in DOMAIN channels'[k].served : y = <<k, i>>
        BY <4>1
      <4>3. CASE k # ch
        BY <1>14, <4>2, <4>3, AllServedIs
      <4>4. CASE k = ch
        <5>1. i \in DOMAIN old \/ i = n
          BY <1>12, <1>14, <4>2, <4>4
        <5> QED
          BY <1>9, <2>1, <4>2, <4>4, <5>1, AllServedIs
      <4> QED
        BY <4>3, <4>4
    <3>2. ASSUME NEW y \in AllServed \cup {x} PROVE y \in AllServed'
      <4>1. CASE y = x
        BY <1>12, <1>14, <2>1, <4>1, AllServedIs
      <4>2. CASE y \in AllServed
        <5>1. PICK k \in Channels : \E i \in DOMAIN channels[k].served : y = <<k, i>>
          BY <4>2, AllServedIs
        <5> QED
          BY <1>9, <1>12, <1>14, <5>1, AllServedIs
      <4> QED
        BY <4>1, <4>2
    <3> QED
      BY <3>1, <3>2
  <2>4. ASSUME NEW y \in AllServed PROVE channels'[y[1]].served[y[2]] = channels[y[1]].served[y[2]]
    <3>1. PICK k \in Channels : \E i \in DOMAIN channels[k].served : y = <<k, i>>
      BY AllServedIs
    <3>2. PICK i \in DOMAIN channels[k].served : y = <<k, i>>
      BY <3>1
    <3>3. y[1] = k /\ y[2] = i
      BY <3>2
    <3>4. channels'[k].served[i] = channels[k].served[i]
      BY <1>9, <1>12, <1>14, <3>2
    <3> QED
      BY <3>3, <3>4
  <2>5. x[1] = ch /\ channels'[x[1]].served[x[2]] = entry
    BY <1>12, <1>14, <2>1
  <2>6. /\ DOMAIN ServedLog = AllServed /\ DOMAIN ServedLog' = AllServed'
        /\ \A y \in AllServed : ServedLog[y] = channels[y[1]].served[y[2]]
        /\ \A y \in AllServed' : ServedLog'[y] = channels'[y[1]].served[y[2]]
    BY DEF ServedLog
  <2>7. Extends(ServedLog', ServedLog, x, entry)
    BY <2>2, <2>3, <2>4, <2>5, <2>6 DEF Extends
  <2> QED
    BY <1>3, <1>7, <2>5, <2>7 DEF ServesOne, AsServed
<1> QED
  BY <1>2, <1>3, <1>4, <1>5, <1>6, <1>15, <1>16

(* A stream in service works on its first transaction. *)
LEMMA ServingIssued ==
  ASSUME LoopInv, NEW s \in Serving
  PROVE  /\ s \in DOMAIN cursors /\ cursors[s] \in Cursor /\ cursors[s].in_progress \in InProgress
         /\ cursors[s].pending \in Seq(Entry) /\ cursors[s].pending # <<>>
         /\ Head(cursors[s].pending) \in Entry
         /\ Describes(cursors[s].in_progress, Head(cursors[s].pending))
         /\ IsFiniteSet(Flying(s)) /\ Cardinality(Flying(s)) \in Nat
         /\ \A e : TurnsOf(s) = {e} =>
              e.chunk = cursors[s].in_progress.chunks_dispatched + Cardinality(Flying(s))
         /\ cursors[s].in_progress.chunks_dispatched + Cardinality(Flying(s))
              <= cursors[s].in_progress.num_chunks
<1>1. s \in DOMAIN cursors /\ cursors[s].queued /\ \A e \in EventsOf(s) : e.chunk # 0
  BY DEF Serving
<1>2. /\ cursors[s] \in Cursor /\ cursors[s].in_progress \in InProgress /\ cursors[s].pending \in Seq(Entry)
      /\ cursors[s].in_progress.num_chunks \in Nat
  BY <1>1, StreamFacts DEF Cursor, InProgress, Entry
<1>3. PICK k \in Nat : Issued(cursors[s], EventsOf(s), TurnsOf(s), Flying(s), Known(s), k)
  <2>1. StreamState(cursors[s], EventsOf(s), TurnsOf(s), Flying(s), Known(s))
    BY <1>1 DEF LoopInv, StreamOK
  <2>2. ~ Idle(cursors[s], EventsOf(s), TurnsOf(s), Flying(s), Known(s))
    BY <1>1 DEF Idle
  <2>3. ~ Waiting(cursors[s], EventsOf(s), TurnsOf(s), Flying(s), Known(s))
    BY <1>1 DEF Waiting
  <2> QED
    BY <2>1, <2>2, <2>3 DEF StreamState
<1>4. /\ cursors[s].pending # <<>> /\ Describes(cursors[s].in_progress, Head(cursors[s].pending))
      /\ IsFiniteSet(Flying(s))
      /\ cursors[s].in_progress.chunks_dispatched + Cardinality(Flying(s)) = k
      /\ Admitted(cursors[s].in_progress, EventsOf(s), TurnsOf(s), k)
  BY <1>3 DEF Issued
<1>5. Head(cursors[s].pending) \in Entry
  BY <1>2, <1>4, HeadTailProperties
<1>6. \A e : TurnsOf(s) = {e} => e.chunk = k
  BY <1>4 DEF Admitted
<1>7. k <= cursors[s].in_progress.num_chunks
  BY <1>2, <1>4 DEF Admitted
<1>8. Cardinality(Flying(s)) \in Nat
  BY <1>4, FS_CardinalityType
<1> QED
  BY <1>1, <1>2, <1>4, <1>5, <1>6, <1>7, <1>8

LEMMA DrainKinds ==
  ASSUME LoopInv, NEW ch \in Channels, DrainOne(ch)
  PROVE  \E s \in Serving, chunk \in Chunk, back \in Nat : ChunksServe(s, chunk, back)
<1>1. PICK s \in DOMAIN cursors, chunk \in Chunk, back \in Nat :
           /\ chunk \in Flying(s) /\ Lands(s, chunk) /\ Route(chunk, back) /\ chunk.stream = s
           /\ ServesOne(chunk, back) /\ chunk.ready < back
  BY DrainServes
<1>2. s \in Serving
  BY <1>1, FlyingServes
<1>3. PICK ip : ip = Progressed(cursors[s].in_progress, back)
  OBVIOUS
<1>4. Returns(s, ip)
  BY <1>1, <1>3 DEF Returns
<1>5. cursors[s] \in Cursor /\ \A t \in Serving : t \in DOMAIN cursors
  BY StreamFacts DEF Serving
<1>6. Flying(s)' = Flying(s) \ {chunk} /\ \A t : t # s => Flying(t)' = Flying(t)
  BY <1>1 DEF Lands
<1>7. CASE ip.chunks_dispatched # ip.num_chunks
  <2>1. /\ cursors' = [cursors EXCEPT ![s].in_progress = ip]
        /\ UNCHANGED <<segments, port_free, heap, results, finished, bursts, running, turn, calls>>
    BY <1>1, <1>3, <1>7 DEF Route
  <2>2. Progresses(s, ip)
    BY <1>4, <1>7, <2>1 DEF Progresses
  <2>3. Serving' = Serving
    BY <2>2, SteadyProgress DEF StepSteady
  <2>4. PICK d : d = [cursors[s] EXCEPT !.in_progress = ip]
    OBVIOUS
  <2>5. d.in_progress = ip
    BY <1>5, <2>4 DEF Cursor
  <2>6. cursors'[s] = d /\ \A t \in DOMAIN cursors : t # s => cursors'[t] = cursors[t]
    BY <2>1, <2>4
  <2>7. OthersStay(s)
    BY <1>5, <1>6, <2>6 DEF OthersStay
  <2> QED
    BY <1>1, <1>2, <1>3, <1>6, <2>1, <2>3, <2>5, <2>6, <2>7 DEF ChunksServe
<1>8. CASE ip.chunks_dispatched = ip.num_chunks
  <2>1. Finalize(s, ip)
    BY <1>1, <1>3, <1>8 DEF Route
  <2>2. CoreOf(s) \in Cores /\ segments \in [Cores -> Seq(Segment)]
    BY StreamFacts DEF LoopInv, LoopTypeOK
  <2>3. PICK complete, gate, opened : Ends(s, ip, complete, gate, opened)
    BY <1>8, <2>1, <2>2, FinalizeEnds
  <2>4. complete \in Nat /\ gate \in Nat /\ StepFinishes(s, ip, complete, gate, opened)
    <3>1. Finishes(s, ip, complete, gate, opened)
      BY <1>4, <2>3 DEF Finishes
    <3> QED
      BY <3>1, FinishKind
  <2>5. ip.max_complete <= complete
    <3>1. complete = Completion(cursors[s], ip)
      BY <2>3 DEF Ends
    <3>2. chunk \in Flying(s)
      BY <1>1
    <3> QED
      BY <1>3, <1>8, <3>1, <3>2, LastChunk, Zenon
  <2>6. /\ cursors[s].pending # <<>> /\ ip \in InProgress
        /\ cursors'[s] = Finished(cursors[s], ip, complete)
        /\ \A t \in DOMAIN cursors \ {s} : cursors'[t].in_progress = cursors[t].in_progress
        /\ finished' = Append(finished, ResultOf(s, ip, complete))
        /\ Serving' = Serving \ {s}
    BY <2>4 DEF StepFinishes, SameTimes
  <2>7. cursors'[s].in_progress = ip
    BY <1>5, <2>4, <2>6, FinishedTyped
  <2>8. OthersStay(s)
    BY <1>5, <1>6, <2>6 DEF OthersStay
  <2> QED
    BY <1>1, <1>2, <1>3, <1>6, <1>8, <2>4, <2>5, <2>6, <2>7, <2>8 DEF ChunksServe
<1> QED
  BY <1>1, <1>2, <1>7, <1>8

LEMMA AdmitKind ==
  ASSUME LoopInv, Admit
  PROVE  \E s \in Serving, chunk \in Chunk : ChunksAdmit(s, chunk)
<1>1. PICK e \in HeapEvent, s \in DOMAIN cursors, chunk \in Chunk, ch \in Channels :
           /\ turn = e /\ e.stream = s /\ TurnsOf(s) = {e}
           /\ chunk = ChunkOf(turn) /\ ch = TurnChannel /\ ch = ChannelOf(chunk.window)
           /\ chunk.stream = s
           /\ chunk.window = cursors[s].in_progress.first_window + e.chunk
  BY TurnFacts DEF Admit
<1>2. /\ UNCHANGED <<cursors, finished>>
      /\ channels' = [channels EXCEPT ![ch].queue = @ \cup {chunk},
                                      ![ch].last_ready = Later(@, chunk.ready)]
  BY <1>1 DEF Admit, AdmitTurn
<1>3. s \in Serving
  BY <1>1, FlyingServes
<1>4. /\ \A k \in Channels : channels'[k].served = channels[k].served
      /\ channels'[ch].queue = channels[ch].queue \cup {chunk}
      /\ \A k \in Channels : k # ch => channels'[k].queue = channels[k].queue
  <2>1. channels \in [Channels -> ChannelState]
    BY DEF LoopInv, LoopTypeOK
  <2>2. PICK q, l : q = channels[ch].queue \cup {chunk} /\ l = Later(channels[ch].last_ready, chunk.ready)
    OBVIOUS
  <2>3. channels' = [channels EXCEPT ![ch].queue = q, ![ch].last_ready = l]
    BY <1>2, <2>2
  <2> QED
    BY <2>1, <2>2, <2>3 DEF ChannelState
<1>5. ServesNone
  BY <1>4, ServesNoneSame
<1>6. Flying(s)' = Flying(s) \cup {chunk} /\ \A t : t # s => Flying(t)' = Flying(t)
  BY <1>1, <1>4 DEF Flying
<1>7. Serving' = Serving
  BY SteadyLoop DEF StepSteady
<1>8. OthersStay(s)
  BY <1>2, <1>6 DEF OthersStay
<1>9. chunk.txn_id = cursors[s].in_progress.txn_id /\ chunk.ready = cursors[s].in_progress.issue_cycle
  BY <1>1 DEF ChunkOf
<1>10. e.chunk = cursors[s].in_progress.chunks_dispatched + Cardinality(Flying(s))
  BY <1>1, <1>3, ServingIssued
<1>11. chunk \notin Flying(s)
  <2>1. StreamState(cursors[s], EventsOf(s), {e}, Flying(s), Known(s))
    BY <1>1 DEF LoopInv, StreamOK
  <2>2. PICK next : next = Event(0, s, e.chunk + 1)
    OBVIOUS
  <2>3. Behind(next, e) /\ ChunkAt(chunk, cursors[s].in_progress, e)
    BY <1>1, <2>2 DEF Event, Behind, ChunkAt
  <2>4. cursors[s] \in Cursor /\ Flying(s) \in SUBSET Chunk
    BY StreamFacts
  <2> QED
    BY <2>1, <2>3, <2>4, AdmitState
<1>12. ChunkAdmitted(cursors[s].in_progress, Flying(s), chunk)
  BY <1>1, <1>9, <1>10, <1>11 DEF ChunkAdmitted
<1> QED
  BY <1>2, <1>3, <1>5, <1>6, <1>7, <1>8, <1>12 DEF ChunksAdmit

LEMMA IssueChunks ==
  ASSUME LoopInv, Issue, UNCHANGED channels
  PROVE  \E s \in DOMAIN cursors : ChunksIssue(s)
<1>1. PICK s \in DOMAIN cursors, issue \in Nat : StepIssues(s, issue)
  BY IssueKind
<1>2. /\ s \notin Serving /\ Serving' = Serving \cup {s} /\ cursors[s].pending # <<>> /\ UNCHANGED finished
      /\ cursors'[s].in_progress.txn_id = Head(cursors[s].pending).txn_id
      /\ cursors'[s].in_progress.chunks_dispatched = 0
      /\ \A t \in DOMAIN cursors \ {s} : cursors'[t] = cursors[t]
  BY <1>1 DEF StepIssues
<1>3. \A t : Flying(t)' = Flying(t)
  BY DEF Flying
<1>4. Flying(s) = {}
  BY <1>2, FlyingServes
<1>5. ServesNone
  BY ServesNoneSame
<1>6. OthersStay(s)
  BY <1>2, <1>3 DEF OthersStay, Serving
<1> QED
  BY <1>2, <1>3, <1>4, <1>5, <1>6 DEF ChunksIssue

LEMMA ChunkKinds ==
  ASSUME LoopInv, [Next]_vars
  PROVE  \/ ChunksCalm
         \/ \E s \in DOMAIN cursors : ChunksIssue(s)
         \/ \E s \in Serving, chunk \in Chunk : ChunksAdmit(s, chunk)
         \/ \E s \in Serving, chunk \in Chunk, back \in Nat : ChunksServe(s, chunk, back)
<1>1. ASSUME UNCHANGED <<channels, finished>>, Serving' = Serving,
             \A t \in Serving : cursors'[t].in_progress = cursors[t].in_progress
      PROVE  ChunksCalm
  <2>1. ServesNone
    BY <1>1, ServesNoneSame
  <2>2. \A t : Flying(t)' = Flying(t)
    BY <1>1 DEF Flying
  <2> QED
    BY <1>1, <2>1, <2>2 DEF ChunksCalm
<1>2. Serving \subseteq DOMAIN cursors
  BY DEF Serving
<1>3. ASSUME NEW s \in Streams, NEW entry \in Entry, NEW new, Pushes(s, entry, new), UNCHANGED channels
      PROVE  ChunksCalm
  <2>1. StepPushes(s, entry)
    BY <1>3, PushKind
  <2>2. /\ UNCHANGED finished /\ Serving' = Serving
        /\ SameTimes(CursorBefore(s), cursors'[s])
        /\ \A t \in DOMAIN cursors \ {s} : cursors'[t] = cursors[t]
    BY <2>1 DEF StepPushes
  <2>3. \A t \in Serving : cursors'[t].in_progress = cursors[t].in_progress
    BY <1>2, <2>2 DEF SameTimes, CursorBefore
  <2> QED
    BY <1>1, <1>3, <2>2, <2>3
<1>4. ASSUME NEW core \in Cores, PushBarrier(core), UNCHANGED channels
      PROVE  ChunksCalm
  <2>1. Serving' = Serving
    BY <1>4, BarKind DEF StepBars
  <2>2. UNCHANGED <<cursors, finished>>
    BY <1>4 DEF PushBarrier
  <2> QED
    BY <1>1, <1>4, <2>1, <2>2
<1>5. ASSUME ((Reschedule \/ Resume) /\ UNCHANGED channels) \/ Quiet
      PROVE  ChunksCalm
  <2>1. Serving' = Serving
    BY <1>5, SteadyLoop DEF StepSteady
  <2>2. UNCHANGED <<cursors, finished, channels>>
    BY <1>5 DEF Reschedule, Resume, Quiet
  <2> QED
    BY <1>1, <2>1, <2>2
<1> QED
  BY <1>3, <1>4, <1>5, LoopCases, DrainKinds, AdmitKind, IssueChunks

-----------------------------------------------------------------------------
(***************************************************************************)
(* What a transaction's chunks come to.                                    *)
(***************************************************************************)
LEMMA OneWindowMore ==
  ASSUME NEW a \in Nat, NEW n \in Nat
  PROVE  (a .. a + n - 1) \cup {a + n} = a .. a + (n + 1) - 1
OBVIOUS

LEMMA ServedForAdmits ==
  ASSUME NEW log, NEW ip \in InProgress, NEW flying, IsFiniteSet(flying), NEW chunk,
         ChunkAdmitted(ip, flying, chunk), ServedFor(log, ip, flying)
  PROVE  ServedFor(log, ip, flying \cup {chunk})
<1>1. PICK n, a, d : n = Cardinality(flying) /\ a = ip.first_window /\ d = ip.chunks_dispatched
  OBVIOUS
<1>2. n \in Nat /\ a \in Nat /\ d \in Nat
  BY <1>1, FS_CardinalityType DEF InProgress
<1>3. chunk \notin flying /\ chunk.txn_id = ip.txn_id /\ chunk.ready = ip.issue_cycle /\ chunk.window = a + (d + n)
  BY <1>1 DEF ChunkAdmitted
<1>4. Cardinality(flying \cup {chunk}) = n + 1
  BY <1>1, <1>3, FS_AddElement
<1>5. PICK W, V : W = ServedWindows(log, ip.txn_id) /\ V = {c.window : c \in flying}
  OBVIOUS
<1>6. W \cup V = a .. a + (d + n) - 1
  BY <1>1, <1>5 DEF ServedFor
<1>7. {c.window : c \in flying \cup {chunk}} = V \cup {a + (d + n)}
  BY <1>3, <1>5
<1>8. (a .. a + (d + n) - 1) \cup {a + (d + n)} = a .. a + (d + (n + 1)) - 1
  <2>1. PICK m \in Nat : m = d + n
    BY <1>2
  <2>2. d + (n + 1) = m + 1
    BY <1>2, <2>1
  <2>3. (a .. a + m - 1) \cup {a + m} = a .. a + (m + 1) - 1
    BY <1>2, OneWindowMore
  <2> QED
    BY <2>1, <2>2, <2>3
<1>9. W \cup {c.window : c \in flying \cup {chunk}} = a .. a + (d + (n + 1)) - 1
  BY <1>6, <1>7, <1>8
<1>10. /\ \A c \in flying : c.txn_id = ip.txn_id /\ c.ready = ip.issue_cycle
       /\ HasServed(log, ip.txn_id, ip.chunks_dispatched)
       /\ InTime(log, ip.txn_id, ip.issue_cycle, ip.max_complete)
  BY DEF ServedFor
<1> QED
  BY <1>1, <1>3, <1>4, <1>5, <1>9, <1>10 DEF ServedFor

LEMMA ServedForServes ==
  ASSUME NEW log, LogTyped(log), NEW new, NEW x, NEW chunk, NEW back \in Nat,
         Extends(new, log, x, AsServed(chunk, back)), x[1] = ChannelOf(chunk.window), chunk.ready < back,
         NEW ip \in InProgress, NEW flying, IsFiniteSet(flying), chunk \in flying,
         ServedFor(log, ip, flying)
  PROVE  ServedFor(new, Progressed(ip, back), flying \ {chunk})
<1>1. PICK n, a, d, m, id, issue :
        /\ n = Cardinality(flying) /\ a = ip.first_window /\ d = ip.chunks_dispatched
        /\ m = ip.max_complete /\ id = ip.txn_id /\ issue = ip.issue_cycle
  OBVIOUS
<1>2. n \in Nat /\ a \in Nat /\ d \in Nat /\ m \in Nat /\ issue \in Nat
  BY <1>1, FS_CardinalityType DEF InProgress
<1>3. PICK last : last = Later(m, back)
  OBVIOUS
<1>4. last \in Nat /\ m <= last /\ back <= last
  BY <1>2, <1>3 DEF Later
<1>5. PICK q : q = Progressed(ip, back)
  OBVIOUS
<1>6. /\ q.txn_id = id /\ q.issue_cycle = issue /\ q.first_window = a
      /\ q.chunks_dispatched = d + 1 /\ q.max_complete = last
  <2>1. q = [ip EXCEPT !.chunks_dispatched = d + 1, !.max_complete = last]
    BY <1>1, <1>3, <1>5 DEF Progressed
  <2> QED
    BY <1>1, <2>1 DEF InProgress
<1>7. PICK entry : entry = AsServed(chunk, back)
  OBVIOUS
<1>8. /\ \A c \in flying : c.txn_id = id /\ c.ready = issue
      /\ HasServed(log, id, d)
      /\ ServedWindows(log, id) \cup {c.window : c \in flying} = a .. a + (d + n) - 1
      /\ InTime(log, id, issue, m)
  BY <1>1 DEF ServedFor
<1>9. entry.txn_id = id /\ entry.window = chunk.window /\ entry.complete = back /\ issue < back
  BY <1>7, <1>8 DEF AsServed
<1>10. /\ HasServed(new, id, d + 1)
       /\ ServedWindows(new, id) = ServedWindows(log, id) \cup {chunk.window}
       /\ InTime(new, id, issue, last)
  <2>1. Extends(new, log, x, entry) /\ x[1] = ChannelOf(entry.window)
    BY <1>7, <1>9
  <2>2. id = entry.txn_id /\ issue < entry.complete /\ entry.complete <= last
    BY <1>4, <1>9
  <2>3. d \in Nat /\ issue \in Nat /\ m \in Nat /\ last \in Nat /\ m <= last
    BY <1>2, <1>4
  <2>4. HasServed(log, id, d) /\ InTime(log, id, issue, m)
    BY <1>8
  <2>5. /\ HasServed(new, id, d + 1)
        /\ ServedWindows(new, id) = ServedWindows(log, id) \cup {entry.window}
        /\ InTime(new, id, issue, last)
    BY <2>1, <2>2, <2>3, <2>4, ExtendedOwn, SMTT(30)
  <2> QED
    BY <1>9, <2>5
<1>11. PICK rest : rest = flying \ {chunk}
  OBVIOUS
<1>12. PICK k \in Nat : k = Cardinality(rest) /\ k + 1 = n
  <2>1. IsFiniteSet(rest) /\ Cardinality(rest) = n - 1
    BY <1>1, <1>11, FS_RemoveElement
  <2>2. Cardinality(rest) \in Nat
    BY <2>1, FS_CardinalityType
  <2> QED
    BY <1>2, <2>1, <2>2
<1>13. ServedWindows(new, id) \cup {c.window : c \in rest} = a .. a + ((d + 1) + k) - 1
  <2>1. {chunk.window} \cup {c.window : c \in rest} = {c.window : c \in flying}
    BY <1>11
  <2>2. d + n = (d + 1) + k
    BY <1>2, <1>12
  <2>3. ServedWindows(new, id) \cup {c.window : c \in rest}
          = ServedWindows(log, id) \cup {c.window : c \in flying}
    BY <1>10, <2>1
  <2> QED
    BY <1>8, <2>2, <2>3
<1>14. \A c \in rest : c.txn_id = id /\ c.ready = issue
  BY <1>8, <1>11
<1>15. ServedFor(new, q, rest)
  BY <1>6, <1>10, <1>12, <1>13, <1>14 DEF ServedFor
<1> QED
  BY <1>5, <1>11, <1>15

LEMMA ServedForOthers ==
  ASSUME NEW log, NEW new, NEW x, NEW entry, Extends(new, log, x, entry), NEW ip, NEW flying,
         ip.txn_id # entry.txn_id, ServedFor(log, ip, flying)
  PROVE  ServedFor(new, ip, flying)
<1>1. PICK id : id = ip.txn_id
  OBVIOUS
<1>2. /\ ServedWindows(new, id) = ServedWindows(log, id)
      /\ \A n : HasServed(log, id, n) => HasServed(new, id, n)
      /\ \A issue, end : InTime(log, id, issue, end) => InTime(new, id, issue, end)
  BY <1>1, ExtendedOthers
<1> QED
  BY <1>1, <1>2 DEF ServedFor

LEMMA WasServedOthers ==
  ASSUME NEW log, NEW new, NEW x, NEW entry, Extends(new, log, x, entry), NEW r, NEW made,
         r.txn_id # entry.txn_id, WasServed(log, r, made)
  PROVE  WasServed(new, r, made)
<1>1. PICK id : id = r.txn_id
  OBVIOUS
<1>2. /\ ServedWindows(new, id) = ServedWindows(log, id)
      /\ \A n : HasServed(log, id, n) => HasServed(new, id, n)
      /\ \A issue, end : InTime(log, id, issue, end) => InTime(new, id, issue, end)
  BY <1>1, ExtendedOthers
<1>3. ASSUME NEW txn \in Txns, ServedAll(log, r, txn) PROVE ServedAll(new, r, txn)
  BY <1>1, <1>2, <1>3 DEF ServedAll
<1> QED
  BY <1>3 DEF WasServed

(* The transaction whose last chunk came back has all its windows. *)
LEMMA ServedForEnds ==
  ASSUME NEW log, LogTyped(log), NEW ip \in InProgress, ServedFor(log, ip, {}),
         ip.chunks_dispatched = ip.num_chunks, NEW txn \in Txns,
         ip.first_window = FirstWindow(txn), ip.num_chunks = NumChunks(txn),
         NEW r, r.txn_id = ip.txn_id, r.issue = ip.issue_cycle, r.complete \in Nat,
         ip.max_complete <= r.complete, r.dram_bytes = ip.num_chunks * ChunkBytes
  PROVE  ServedAll(log, r, txn)
<1>1. PICK n, a, m, id, end :
        n = ip.num_chunks /\ a = ip.first_window /\ m = ip.max_complete /\ id = ip.txn_id /\ end = r.complete
  OBVIOUS
<1>2. n \in Nat /\ a \in Nat /\ m \in Nat /\ end \in Nat /\ m <= end
  BY <1>1 DEF InProgress
<1>3. HasServed(log, id, n)
  BY <1>1 DEF ServedFor
<1>4. ServedWindows(log, id) = a .. a + n - 1
  <2>1. ServedWindows(log, id) \cup {} = a .. a + (n + Cardinality({})) - 1
    BY <1>1 DEF ServedFor
  <2>2. n + Cardinality({}) = n
    BY <1>2, FS_EmptySet
  <2> QED
    BY <2>1, <2>2
<1>5. InTime(log, id, ip.issue_cycle, end)
  <2>1. InTime(log, id, ip.issue_cycle, m)
    BY <1>1 DEF ServedFor
  <2>2. \A x \in ServedOf(log, id) : log[x].complete \in Nat
    BY DEF ServedOf, LogTyped
  <2>3. \A c \in Nat : c <= m => c <= end
    BY <1>2
  <2> QED
    BY <2>1, <2>2, <2>3 DEF InTime
<1> QED
  BY <1>1, <1>3, <1>4, <1>5 DEF ServedAll

(* No transaction is issued twice. *)
LEMMA IssuedOnce ==
  ASSUME LoopInv, IdInv, NEW s \in DOMAIN cursors, cursors[s].pending # <<>>,
         NEW id, id = Head(cursors[s].pending).txn_id
  PROVE  /\ \A k \in DOMAIN finished : finished[k].txn_id # id
         /\ \A t \in Serving \ {s} : cursors[t].in_progress.txn_id # id
<1>1. ASSUME NEW t \in DOMAIN cursors, cursors[t].pending # <<>>
      PROVE  Head(cursors[t].pending).txn_id \in IdsOf(cursors[t].pending)
  <2>1. PICK p \in Seq(Entry) : p = cursors[t].pending
    BY StreamFacts DEF Cursor, Entry
  <2>2. Head(p) = p[1] /\ 1 \in DOMAIN p
    BY <1>1, <2>1, HeadTailProperties, LenProperties, EmptySeq
  <2> QED
    BY <2>1, <2>2 DEF IdsOf
<1>2. id \in HeldIds(s) /\ id \in IdsOf(cursors[s].pending)
  BY <1>1 DEF HeldIds
<1>3. ASSUME NEW k \in DOMAIN finished PROVE finished[k].txn_id # id
  <2>1. PICK r : r = finished[k]
    OBVIOUS
  <2>2. PICK t \in DOMAIN cursors : t = StreamOf(r) /\ k \in OverIn(t)
    BY <2>1, ResultFacts
  <2>3. r.txn_id \in HeldIds(t) /\ r.txn_id \in Nat
    BY <2>1, <2>2, ResultFacts DEF HeldIds
  <2>4. CASE t # s
    BY <1>2, <2>1, <2>3, <2>4 DEF IdInv
  <2>5. CASE t = s
    <3>1. r.txn_id < id
      BY <1>2, <2>1, <2>2, <2>5 DEF IdInv
    <3> QED
      BY <2>1, <2>3, <3>1
  <2> QED
    BY <2>4, <2>5
<1>4. ASSUME NEW t \in Serving \ {s} PROVE cursors[t].in_progress.txn_id # id
  <2>1. /\ t \in DOMAIN cursors /\ cursors[t].pending # <<>>
        /\ cursors[t].in_progress.txn_id = Head(cursors[t].pending).txn_id
    BY ServingIssued DEF Describes
  <2>2. cursors[t].in_progress.txn_id \in HeldIds(t)
    BY <1>1, <2>1 DEF HeldIds
  <2> QED
    BY <1>2, <2>1, <2>2 DEF IdInv
<1> QED
  BY <1>3, <1>4

(* What a served result's call is stays made. *)
LEMMA WasServedStays ==
  ASSUME LoopInv, [Next]_vars, NEW log, NEW r, WasServed(log, r, calls)
  PROVE  WasServed(log, r, calls')
<1>1. PICK txn \in Txns : CalledIn(r.txn_id, txn, calls) /\ ServedAll(log, r, txn)
  BY DEF WasServed
<1>2. PICK id : id = r.txn_id
  OBVIOUS
<1>3. CalledIn(id, txn, calls')
  BY <1>1, <1>2, CalledStays
<1> QED
  BY <1>1, <1>2, <1>3 DEF WasServed

LEMMA ChunkInvQuiet ==
  ASSUME LoopInv, [Next]_vars, ChunkInv, ServesNone, UNCHANGED finished
  PROVE  \A k \in DOMAIN finished' : WasServed(ServedLog', finished'[k], calls')
<1> SUFFICES ASSUME NEW k \in DOMAIN finished PROVE WasServed(ServedLog, finished[k], calls')
  BY DEF ServesNone
<1>1. PICK log, r : log = ServedLog /\ r = finished[k]
  OBVIOUS
<1>2. WasServed(log, r, calls)
  BY <1>1 DEF ChunkInv
<1> QED
  BY <1>1, <1>2, WasServedStays

LEMMA ChunkInvCalm ==
  ASSUME LoopInv, [Next]_vars, ChunkInv, ChunksCalm
  PROVE  ChunkInv'
<1>1. \A s \in Serving' : ServedFor(ServedLog', cursors'[s].in_progress, Flying(s)')
  BY DEF ChunksCalm, ServesNone, ChunkInv
<1>2. \A k \in DOMAIN finished' : WasServed(ServedLog', finished'[k], calls')
  BY ChunkInvQuiet DEF ChunksCalm
<1>3. Taken' = Taken
  BY DEF Taken, ChunksCalm
<1> QED
  BY <1>1, <1>2, <1>3 DEF ChunkInv, ChunksCalm, ServesNone

LEMMA ChunkInvIssues ==
  ASSUME LoopInv, LoopInv', IdInv, [Next]_vars, ChunkInv, NEW s \in DOMAIN cursors, ChunksIssue(s)
  PROVE  ChunkInv'
<1>1. /\ ServedLog' = ServedLog /\ UNCHANGED finished /\ Serving' = Serving \cup {s} /\ s \notin Serving
      /\ Flying(s)' = {} /\ cursors[s].pending # <<>>
      /\ \A t \in Serving : cursors'[t].in_progress = cursors[t].in_progress /\ Flying(t)' = Flying(t)
  BY DEF ChunksIssue, OthersStay, ServesNone
<1>2. PICK log, ip : log = ServedLog /\ ip = cursors'[s].in_progress
  OBVIOUS
<1>3. ip.txn_id = Head(cursors[s].pending).txn_id /\ ip.chunks_dispatched = 0
  BY <1>2 DEF ChunksIssue
<1>4. ip.first_window \in Nat
  <2>1. s \in DOMAIN cursors'
    BY <1>1 DEF Serving
  <2>2. cursors'[s] \in Cursor
    BY <2>1 DEF LoopInv, LoopTypeOK
  <2> QED
    BY <1>2, <2>2 DEF Cursor, InProgress
<1>5. ip.txn_id \notin Taken
  BY <1>1, <1>3, IssuedOnce DEF Taken
<1>6. ServedOf(log, ip.txn_id) = {}
  BY <1>2, <1>5 DEF ChunkInv, ServedOf
<1>7. ServedFor(log, ip, {})
  <2>1. HasServed(log, ip.txn_id, 0)
    BY <1>6, FS_EmptySet DEF HasServed
  <2>2. ServedWindows(log, ip.txn_id) = {}
    BY <1>6 DEF ServedWindows
  <2>3. ip.first_window .. ip.first_window + (0 + 0) - 1 = {}
    BY <1>4
  <2>4. Cardinality({}) = 0
    BY FS_EmptySet
  <2>5. InTime(log, ip.txn_id, ip.issue_cycle, ip.max_complete)
    BY <1>6 DEF InTime
  <2> QED
    BY <1>3, <2>1, <2>2, <2>3, <2>4, <2>5 DEF ServedFor
<1>8. \A t \in Serving' : ServedFor(ServedLog', cursors'[t].in_progress, Flying(t)')
  BY <1>1, <1>2, <1>7 DEF ChunkInv
<1>9. \A k \in DOMAIN finished' : WasServed(ServedLog', finished'[k], calls')
  BY ChunkInvQuiet DEF ChunksIssue
<1>10. Taken \subseteq Taken'
  BY <1>1 DEF Taken
<1> QED
  BY <1>1, <1>8, <1>9, <1>10 DEF ChunkInv

LEMMA ChunkInvAdmits ==
  ASSUME LoopInv, [Next]_vars, ChunkInv, NEW s \in Serving, NEW chunk, ChunksAdmit(s, chunk)
  PROVE  ChunkInv'
<1>1. /\ ServedLog' = ServedLog /\ UNCHANGED finished /\ Serving' = Serving
      /\ \A t \in Serving : cursors'[t].in_progress = cursors[t].in_progress
      /\ \A t \in Serving \ {s} : Flying(t)' = Flying(t)
      /\ Flying(s)' = Flying(s) \cup {chunk}
  BY DEF ChunksAdmit, OthersStay, ServesNone
<1>2. PICK log, ip, flying : log = ServedLog /\ ip = cursors[s].in_progress /\ flying = Flying(s)
  OBVIOUS
<1>3. ip \in InProgress /\ IsFiniteSet(flying)
  BY <1>2, ServingIssued
<1>4. ServedFor(log, ip, flying \cup {chunk})
  <2>1. ServedFor(log, ip, flying) /\ ChunkAdmitted(ip, flying, chunk)
    BY <1>2 DEF ChunkInv, ChunksAdmit
  <2> QED
    BY <1>3, <2>1, ServedForAdmits
<1>5. \A t \in Serving' : ServedFor(ServedLog', cursors'[t].in_progress, Flying(t)')
  <2>1. ServedFor(ServedLog', cursors'[s].in_progress, Flying(s)')
    BY <1>1, <1>2, <1>4
  <2>2. \A t \in Serving \ {s} : ServedFor(ServedLog', cursors'[t].in_progress, Flying(t)')
    BY <1>1 DEF ChunkInv
  <2> QED
    BY <1>1, <2>1, <2>2
<1>6. \A k \in DOMAIN finished' : WasServed(ServedLog', finished'[k], calls')
  BY ChunkInvQuiet DEF ChunksAdmit
<1>7. Taken' = Taken
  BY <1>1 DEF Taken
<1> QED
  BY <1>1, <1>5, <1>6, <1>7 DEF ChunkInv

LEMMA ChunkInvServes ==
  ASSUME LoopInv, IdInv, [Next]_vars, ServedInv, NEW s \in Serving, NEW chunk \in Chunk,
         NEW back \in Nat, ChunksServe(s, chunk, back)
  PROVE  ChunkInv'
<1>1. PICK log, new, ip, q, flying, rest :
        /\ log = ServedLog /\ new = ServedLog' /\ ip = cursors[s].in_progress
        /\ q = Progressed(ip, back) /\ flying = Flying(s) /\ rest = flying \ {chunk}
  OBVIOUS
<1>2. /\ \A t \in Serving \ {s} : cursors'[t].in_progress = cursors[t].in_progress /\ Flying(t)' = Flying(t)
      /\ chunk \in flying /\ Flying(s)' = rest /\ chunk.ready < back
      /\ cursors'[s].in_progress = q
      /\ \E x : x[1] = ChannelOf(chunk.window) /\ Extends(new, log, x, AsServed(chunk, back))
  BY <1>1 DEF ChunksServe, OthersStay, ServesOne
<1>3. PICK x : x[1] = ChannelOf(chunk.window) /\ Extends(new, log, x, AsServed(chunk, back))
  BY <1>2
<1>4. /\ s \in DOMAIN cursors /\ ip \in InProgress /\ IsFiniteSet(flying) /\ Cardinality(flying) \in Nat
      /\ cursors[s].pending \in Seq(Entry) /\ cursors[s].pending # <<>>
      /\ Head(cursors[s].pending) \in Entry
      /\ Describes(ip, Head(cursors[s].pending))
      /\ ip.chunks_dispatched + Cardinality(flying) <= ip.num_chunks
  BY <1>1, ServingIssued
<1>5. ServedFor(log, ip, flying) /\ LogTyped(log)
  BY <1>1, LogIsTyped DEF ServedInv, ChunkInv
<1>6. ServedFor(new, q, rest)
  BY <1>1, <1>2, <1>3, <1>4, <1>5, ServedForServes
<1>7. PICK id, entry : id = ip.txn_id /\ entry = AsServed(chunk, back)
  OBVIOUS
<1>8. entry.txn_id = id /\ q.txn_id = id /\ id = Head(cursors[s].pending).txn_id
  <2>1. chunk.txn_id = id
    BY <1>2, <1>5, <1>7 DEF ServedFor
  <2>2. q.txn_id = id
    BY <1>1, <1>4, <1>7, ProgressedTyped
  <2> QED
    BY <1>4, <1>7, <2>1, <2>2 DEF AsServed, Describes
<1>9. /\ \A k \in DOMAIN finished : finished[k].txn_id # id
      /\ \A t \in Serving \ {s} : cursors[t].in_progress.txn_id # id
  BY <1>4, <1>8, IssuedOnce
<1>10. \A t \in Serving \ {s} : ServedFor(new, cursors'[t].in_progress, Flying(t)')
  <2> SUFFICES ASSUME NEW t \in Serving \ {s} PROVE ServedFor(new, cursors[t].in_progress, Flying(t))
    BY <1>2
  <2>1. PICK p, f : p = cursors[t].in_progress /\ f = Flying(t)
    OBVIOUS
  <2>2. ServedFor(log, p, f) /\ p.txn_id # entry.txn_id
    BY <1>1, <1>8, <1>9, <2>1 DEF ServedInv, ChunkInv
  <2>3. ServedFor(new, p, f)
    BY <1>3, <1>7, <2>2, ServedForOthers
  <2> QED
    BY <2>1, <2>3
<1>11. ASSUME NEW k \in DOMAIN finished PROVE WasServed(new, finished[k], calls')
  <2>1. PICK r : r = finished[k]
    OBVIOUS
  <2>2. WasServed(log, r, calls) /\ r.txn_id # entry.txn_id
    BY <1>1, <1>8, <1>9, <2>1 DEF ServedInv, ChunkInv
  <2>3. WasServed(new, r, calls)
    BY <1>3, <1>7, <2>2, WasServedOthers
  <2>4. WasServed(new, r, calls')
    BY <2>3, WasServedStays
  <2> QED
    BY <2>1, <2>4
<1>12. \A y \in DOMAIN new : new[y].txn_id \in Taken
  <2>1. id \in Taken
    BY <1>1, <1>7 DEF Taken
  <2>2. \A y \in DOMAIN log : log[y].txn_id \in Taken
    BY <1>1 DEF ServedInv, ChunkInv
  <2> QED
    BY <1>3, <1>7, <1>8, <2>1, <2>2 DEF Extends
<1>13. CASE UNCHANGED finished /\ Serving' = Serving
  <2>1. \A t \in Serving' : ServedFor(ServedLog', cursors'[t].in_progress, Flying(t)')
    BY <1>1, <1>2, <1>6, <1>10, <1>13
  <2>2. Taken' = Taken
    <3>1. \A t \in Serving : cursors'[t].in_progress.txn_id = cursors[t].in_progress.txn_id
      BY <1>1, <1>2, <1>7, <1>8
    <3> QED
      BY <1>13, <3>1 DEF Taken
  <2> QED
    BY <1>1, <1>11, <1>12, <1>13, <2>1, <2>2 DEF ChunkInv
<1>14. ASSUME q.chunks_dispatched = q.num_chunks, Serving' = Serving \ {s}, NEW complete \in Nat,
              q.max_complete <= complete, finished' = Append(finished, ResultOf(s, q, complete))
       PROVE  ChunkInv'
  <2>1. PICK r, n : r = ResultOf(s, q, complete) /\ n = Len(finished)
    OBVIOUS
  <2>2. q \in InProgress /\ q.num_chunks = ip.num_chunks
    BY <1>1, <1>4, ProgressedTyped
  <2>3. /\ DOMAIN finished' = DOMAIN finished \cup {n + 1} /\ n + 1 \notin DOMAIN finished
        /\ finished'[n + 1] = r /\ \A k \in DOMAIN finished : finished'[k] = finished[k]
    <3>1. r \in Result
      BY <1>4, <2>1, <2>2, ResultTyped
    <3>2. finished \in Seq(Result)
      BY DEF LoopInv, LoopTypeOK
    <3>3. /\ n \in Nat /\ DOMAIN finished = 1 .. n /\ finished' \in Seq(Result) /\ Len(finished') = n + 1
          /\ \A k \in 1 .. n : finished'[k] = finished[k]
          /\ finished'[n + 1] = r
      BY <1>14, <2>1, <3>1, <3>2, AppendProperties, LenProperties
    <3>4. DOMAIN finished' = 1 .. n + 1
      BY <3>3, LenProperties
    <3> QED
      BY <3>3, <3>4
  <2>4. /\ r.txn_id = id /\ r.issue = q.issue_cycle /\ r.complete = complete
        /\ r.dram_bytes = q.num_chunks * ChunkBytes
    BY <1>8, <2>1 DEF ResultOf
  <2>5. rest = {}
    <3>1. ip.chunks_dispatched \in Nat /\ ip.num_chunks \in Nat
      BY <1>4 DEF InProgress
    <3>2. q.chunks_dispatched = ip.chunks_dispatched + 1
      <4>1. PICK d, m : d = ip.chunks_dispatched + 1 /\ m = Later(ip.max_complete, back)
        OBVIOUS
      <4>2. q = [ip EXCEPT !.chunks_dispatched = d, !.max_complete = m]
        BY <1>1, <4>1 DEF Progressed
      <4> QED
        BY <1>4, <4>1, <4>2 DEF InProgress
    <3>3. Cardinality(flying) <= 1
      BY <1>4, <1>14, <2>2, <3>1, <3>2
    <3>4. IsFiniteSet(rest) /\ Cardinality(rest) = Cardinality(flying) - 1
      <4>1. IsFiniteSet(flying) /\ chunk \in flying /\ rest = flying \ {chunk}
        BY <1>1, <1>2, <1>4
      <4> QED
        BY <4>1, FS_RemoveElement
    <3>5. Cardinality(rest) \in Nat
      BY <3>4, FS_CardinalityType
    <3>6. Cardinality(rest) = 0
      BY <1>4, <3>3, <3>4, <3>5
    <3> QED
      BY <3>4, <3>6, FS_EmptySet
  <2>6. PICK txn \in Txns : txn = Head(cursors[s].pending).txn
    BY <1>4 DEF Entry
  <2>7. q.first_window = FirstWindow(txn) /\ q.num_chunks = NumChunks(txn)
    <3>1. q.first_window = ip.first_window
      <4>1. PICK d, m : d = ip.chunks_dispatched + 1 /\ m = Later(ip.max_complete, back)
        OBVIOUS
      <4>2. q = [ip EXCEPT !.chunks_dispatched = d, !.max_complete = m]
        BY <1>1, <4>1 DEF Progressed
      <4> QED
        BY <1>4, <4>2 DEF InProgress
    <3> QED
      BY <1>4, <2>2, <2>6, <3>1 DEF Describes
  <2>8. LogTyped(new)
    <3>1. AsServed(chunk, back).complete \in Nat
      BY DEF AsServed
    <3> QED
      BY <1>3, <1>5, <3>1 DEF LogTyped, Extends
  <2>9. ServedAll(new, r, txn)
    <3>1. ServedFor(new, q, {})
      BY <1>6, <2>5
    <3> QED
      BY <1>8, <1>14, <2>2, <2>4, <2>7, <2>8, <3>1, ServedForEnds
  <2>10. CalledIn(id, txn, calls')
    <3>1. PICK p \in Seq(Entry) : p = cursors[s].pending /\ p # <<>>
      BY <1>4
    <3>2. AsCalled(p, calls)
      BY <1>4, <3>1 DEF ServedInv, PendingCalled
    <3>3. CalledIn(Head(p).txn_id, Head(p).txn, calls)
      BY <3>1, <3>2, PendingPopped
    <3>4. CalledIn(id, txn, calls)
      BY <1>8, <2>6, <3>1, <3>3
    <3> QED
      BY <3>4, CalledStays
  <2>11. WasServed(new, r, calls')
    BY <2>4, <2>9, <2>10 DEF WasServed
  <2>12. \A k \in DOMAIN finished' : WasServed(ServedLog', finished'[k], calls')
    BY <1>1, <1>11, <2>3, <2>11
  <2>13. \A t \in Serving' : ServedFor(ServedLog', cursors'[t].in_progress, Flying(t)')
    BY <1>1, <1>10, <1>14
  <2>14. Taken \subseteq Taken'
    <3>1. \A k \in DOMAIN finished : finished'[k].txn_id = finished[k].txn_id /\ k \in DOMAIN finished'
      BY <2>3
    <3>2. n + 1 \in DOMAIN finished' /\ finished'[n + 1].txn_id = id
      BY <2>3, <2>4
    <3>3. \A t \in Serving \ {s} : cursors'[t].in_progress.txn_id = cursors[t].in_progress.txn_id /\ t \in Serving'
      BY <1>2, <1>14
    <3>4. \A y : y \in Taken <=> \/ \E k \in DOMAIN finished : y = finished[k].txn_id
                                \/ \E t \in Serving : y = cursors[t].in_progress.txn_id
      BY DEF Taken
    <3>5. \A y : y \in Taken' <=> \/ \E k \in DOMAIN finished' : y = finished'[k].txn_id
                                 \/ \E t \in Serving' : y = cursors'[t].in_progress.txn_id
      BY DEF Taken
    <3> QED
      BY <1>1, <1>7, <3>1, <3>2, <3>3, <3>4, <3>5
  <2>15. \A y \in DOMAIN ServedLog' : ServedLog'[y].txn_id \in Taken'
    BY <1>1, <1>12, <2>14
  <2> QED
    BY <2>12, <2>13, <2>15 DEF ChunkInv
<1> QED
  BY <1>1, <1>13, <1>14 DEF ChunksServe

LEMMA ServedInvStep ==
  ASSUME LoopInv, LoopInv', IdInv, ServedInv, [Next]_vars
  PROVE  ServedInv'
<1>1. PendingCalled'
  BY PendingStep DEF ServedInv
<1>2. ChunkInv'
  BY ChunkKinds, ChunkInvCalm, ChunkInvIssues, ChunkInvAdmits, ChunkInvServes DEF ServedInv
<1> QED
  BY <1>1, <1>2 DEF ServedInv

LEMMA InitServed == Init => ServedInv
<1> SUFFICES ASSUME Init PROVE ServedInv
  OBVIOUS
<1>1. DOMAIN cursors = {} /\ DOMAIN finished = {} /\ \A ch \in Channels : DOMAIN channels[ch].served = {}
  BY DEF Init, FrontInit
<1>2. AllServed = {} /\ Serving = {}
  BY <1>1 DEF AllServed, Serving
<1> QED
  BY <1>1, <1>2 DEF ServedInv, PendingCalled, ChunkInv, ServedLog

LEMMA AlwaysServed == Spec => [](OrderInv /\ CallInv /\ ServedInv)
<1>1. Init => OrderInv /\ CallInv /\ ServedInv
  BY InitOrder, InitCalls, InitServed
<1>2. OrderInv /\ [Next]_vars => OrderInv'
  BY LoopStep, SegInvStep, IdInvStep, PlaceInvStep DEF OrderInv
<1>3. OrderInv /\ CallInv /\ [Next]_vars => CallInv'
  BY CallInvStep DEF OrderInv
<1>4. OrderInv /\ OrderInv' /\ ServedInv /\ [Next]_vars => ServedInv'
  BY ServedInvStep DEF OrderInv
<1> QED
  BY <1>1, <1>2, <1>3, <1>4, PTL DEF Spec

(* A transaction is done when each burst-aligned window its bytes touch has been
   served exactly once, on the window's channel, after its issue and not after
   its completion, whatever order the channels returned its chunks and those of
   others in (ServedWhole; Engine::run, route_completed_chunk). *)
THEOREM TransactionsAreServedWhole == Spec => []ServedWhole
<1>1. OrderInv /\ CallInv /\ ServedInv => ServedWhole
  <2> SUFFICES ASSUME OrderInv, CallInv, ServedInv, NEW i \in Pushed, NEW k \in ResultsOf(calls[i].txn_id)
               PROVE  LET r == finished[k]
                          txn == calls[i].txn
                          bytes == txn.addr .. txn.addr + TotalBytes(txn) - 1
                          chunk(x) == channels[x[1]].served[x[2]]
                      IN  /\ {chunk(x).window : x \in Served(r.txn_id)} = {b \div ChunkBytes : b \in bytes}
                          /\ Cardinality(Served(r.txn_id)) * ChunkBytes = r.dram_bytes
                          /\ \A x \in Served(r.txn_id) :
                               /\ x[1] = ChannelOf(chunk(x).window)
                               /\ r.issue < chunk(x).complete /\ chunk(x).complete <= r.complete
    BY DEF ServedWhole
  <2>1. PICK r, id, log : r = finished[k] /\ id = r.txn_id /\ log = ServedLog
    OBVIOUS
  <2>2. k \in DOMAIN finished /\ calls[i].txn_id = id
    BY <2>1 DEF ResultsOf
  <2>3. PICK txn \in Txns : CalledIn(id, txn, calls) /\ ServedAll(log, r, txn)
    BY <2>1, <2>2 DEF ServedInv, ChunkInv, WasServed
  <2>4. calls[i].txn = txn
    <3>1. PICK j \in Pushed : calls[j].txn_id = id /\ calls[j].txn = txn
      BY <2>3 DEF CalledIn, Pushed
    <3>2. i \in Nat /\ j \in Nat /\ id \in Nat
      <4>1. calls \in Seq(CallRecord) /\ LoopInv /\ IdInv
        BY DEF OrderInv, LoopInv, LoopTypeOK
      <4>2. DOMAIN calls = 1 .. Len(calls) /\ Len(calls) \in Nat
        BY <4>1, LenProperties
      <4>3. id \in Nat
        BY <2>1, <2>2, <4>1, ResultFacts
      <4> QED
        BY <4>2, <4>3 DEF Pushed
    <3>3. ~ (i < j) /\ ~ (j < i)
      BY <2>2, <3>1, <3>2 DEF CallInv
    <3>4. i = j
      BY <3>2, <3>3
    <3> QED
      BY <3>1, <3>4
  <2>5. /\ Served(id) = ServedOf(log, id)
        /\ \A x \in Served(id) : log[x] = channels[x[1]].served[x[2]]
    <3>1. Served(id) = ServedOf(ServedLog, id)
      BY ServedIs
    <3>2. \A x \in ServedOf(ServedLog, id) : ServedLog[x] = channels[x[1]].served[x[2]]
      BY DEF ServedOf, ServedLog
    <3> QED
      BY <2>1, <3>1, <3>2
  <2>6. {channels[x[1]].served[x[2]].window : x \in Served(id)}
          = {b \div ChunkBytes : b \in txn.addr .. txn.addr + TotalBytes(txn) - 1}
    <3>1. {channels[x[1]].served[x[2]].window : x \in Served(id)} = ServedWindows(log, id)
      BY <2>5 DEF ServedWindows
    <3>2. ServedWindows(log, id) = FirstWindow(txn) .. FirstWindow(txn) + NumChunks(txn) - 1
      BY <2>1, <2>3 DEF ServedAll
    <3> QED
      BY <3>1, <3>2, WindowsTouched
  <2>7. Cardinality(Served(id)) * ChunkBytes = r.dram_bytes
    <3>1. Cardinality(ServedOf(log, id)) = NumChunks(txn) /\ r.dram_bytes = NumChunks(txn) * ChunkBytes
      BY <2>1, <2>3 DEF ServedAll, HasServed
    <3> QED
      BY <2>5, <3>1
  <2>8. \A x \in Served(id) :
          /\ x[1] = ChannelOf(channels[x[1]].served[x[2]].window)
          /\ r.issue < channels[x[1]].served[x[2]].complete
          /\ channels[x[1]].served[x[2]].complete <= r.complete
    <3>1. InTime(log, id, r.issue, r.complete)
      BY <2>1, <2>3 DEF ServedAll
    <3> QED
      BY <2>5, <3>1 DEF InTime
  <2> QED
    BY <2>1, <2>4, <2>6, <2>7, <2>8
<1> QED
  BY <1>1, AlwaysServed, PTL

-----------------------------------------------------------------------------
(***************************************************************************)
(* The bus time.  A channel's data bus is free from the end of its last    *)
(* chunk on, and no chunk ends after the last transaction is over.         *)
(***************************************************************************)
BusInv ==
  /\ \A ch \in Channels :
       channels[ch].bus_free = 0
       \/ \E i \in DOMAIN channels[ch].served : channels[ch].bus_free = channels[ch].served[i].complete
  /\ \A k \in DOMAIN finished : finished[k].complete <= totals.max_complete
  /\ ~ running => summary.attributed = Cardinality(Channels) * totals.max_complete

(* When the loop ends no transaction is in service. *)
LEMMA NoneServedAtReturn ==
  ASSUME LoopInv, Return
  PROVE  Serving = {}
<1> SUFFICES ASSUME NEW s \in Serving PROVE FALSE
  OBVIOUS
<1>1. turn = NoTurn /\ heap = {} /\ \A ch \in Channels : channels[ch].queue = {}
  BY DEF Return, ReturnFromRun, Busy
<1>2. EventsOf(s) = {} /\ TurnsOf(s) = {} /\ Flying(s) = {}
  BY <1>1 DEF EventsOf, TurnsOf, Flying
<1>3. s \in DOMAIN cursors /\ cursors[s].queued
  BY DEF Serving
<1>4. StreamState(cursors[s], {}, {}, {}, Known(s)) /\ cursors[s] \in Cursor
  BY <1>2, <1>3, StreamFacts DEF LoopInv, StreamOK
<1>5. PICK k \in Nat : Issued(cursors[s], {}, {}, {}, Known(s), k)
  BY <1>3, <1>4 DEF StreamState, Idle, Waiting
<1>6. PICK ip \in InProgress : ip = cursors[s].in_progress
  BY <1>4 DEF Cursor
<1>7. ip.chunks_dispatched < ip.num_chunks /\ k = ip.num_chunks /\ ip.chunks_dispatched + Cardinality({}) = k
  BY <1>5, <1>6 DEF Issued, Describes, Admitted
<1>8. Cardinality({}) = 0
  BY FS_EmptySet
<1> QED
  BY <1>6, <1>7, <1>8 DEF InProgress

LEMMA DrainMovesBus ==
  ASSUME LoopInv, NEW ch \in Channels, DrainOne(ch), NEW c \in Channels,
         channels[c].bus_free = 0
         \/ \E i \in DOMAIN channels[c].served : channels[c].bus_free = channels[c].served[i].complete
  PROVE  channels'[c].bus_free = 0
         \/ \E i \in DOMAIN channels'[c].served : channels'[c].bus_free = channels'[c].served[i].complete
<1>1. channels \in [Channels -> ChannelState]
  BY DEF LoopInv, LoopTypeOK
<1>0. PICK chunk \in channels[ch].queue, delay \in Delays(ch) : \E back :
        channels' = [channels EXCEPT
                      ![ch].queue = @ \ {chunk}, ![ch].bus_free = back,
                      ![ch].served = Append(@, [stream |-> chunk.stream, txn_id |-> chunk.txn_id,
                                                window |-> chunk.window, complete |-> back])]
  BY DEF DrainOne
<1>2. PICK back, last :
        /\ last = AsServed(chunk, back)
        /\ channels' = [channels EXCEPT ![ch].queue = @ \ {chunk}, ![ch].bus_free = back,
                                        ![ch].served = Append(@, last)]
  BY <1>0 DEF AsServed
<1>3. CASE c # ch
  <2>1. channels'[c] = channels[c]
    BY <1>1, <1>2, <1>3
  <2> QED
    BY <2>1
<1>4. CASE c = ch
  <2>1. PICK old : old = channels[ch].served
    OBVIOUS
  <2>2. old \in Seq([stream : Streams, txn_id : Nat, window : Nat, complete : Nat])
    BY <1>1, <2>1 DEF ChannelState
  <2>3. channels'[ch].served = Append(old, last) /\ channels'[ch].bus_free = back
    BY <1>1, <1>2, <2>1 DEF ChannelState
  <2>4. last.complete = back
    BY <1>2 DEF AsServed
  <2>5. Len(old) + 1 \in DOMAIN Append(old, last) /\ Append(old, last)[Len(old) + 1] = last
    BY <2>2, AppendProperties, LenProperties
  <2> QED
    BY <1>4, <2>3, <2>4, <2>5
<1> QED
  BY <1>3, <1>4

LEMMA BusFollows ==
  ASSUME LoopInv, BusInv, [Next]_vars, NEW c \in Channels
  PROVE  channels'[c].bus_free = 0
         \/ \E i \in DOMAIN channels'[c].served : channels'[c].bus_free = channels'[c].served[i].complete
<1>1. channels[c].bus_free = 0
      \/ \E i \in DOMAIN channels[c].served : channels[c].bus_free = channels[c].served[i].complete
  BY DEF BusInv
<1>2. CASE UNCHANGED channels
  BY <1>1, <1>2
<1>3. CASE Admit
  <2>1. channels \in [Channels -> ChannelState] /\ TurnChannel \in Channels
    BY <1>3, TurnFacts DEF LoopInv, LoopTypeOK, Admit
  <2>2. channels'[c].bus_free = channels[c].bus_free /\ channels'[c].served = channels[c].served
    BY <1>3, <2>1 DEF Admit, ChannelState
  <2> QED
    BY <1>1, <2>2
<1>4. ASSUME NEW ch \in Channels, DrainOne(ch)
      PROVE  channels'[c].bus_free = 0
             \/ \E i \in DOMAIN channels'[c].served : channels'[c].bus_free = channels'[c].served[i].complete
  BY <1>1, <1>4, DrainMovesBus
<1> QED
  BY <1>2, <1>3, <1>4, LoopCases DEF Quiet

(* When the loop ends every data burst is behind the end of the last transaction. *)
LEMMA BusBehind ==
  ASSUME LoopInv, BusInv, ServedInv, StatInv, Return, NEW ch \in Channels
  PROVE  channels[ch].bus_free \in Nat /\ channels[ch].bus_free <= totals.max_complete
<1>1. channels[ch] \in ChannelState /\ totals.max_complete \in Nat
  BY DEF LoopInv, LoopTypeOK, StatInv, Totals
<1>2. channels[ch].bus_free \in Nat
  BY <1>1 DEF ChannelState
<1>3. CASE channels[ch].bus_free = 0
  BY <1>1, <1>3
<1>4. ASSUME NEW i \in DOMAIN channels[ch].served, channels[ch].bus_free = channels[ch].served[i].complete
      PROVE  channels[ch].bus_free <= totals.max_complete
  <2>1. PICK x : x = <<ch, i>>
    OBVIOUS
  <2>2. x \in AllServed
    BY <2>1, AllServedIs
  <2>3. x \in DOMAIN ServedLog /\ ServedLog[x] = channels[ch].served[i]
    BY <2>1, <2>2 DEF ServedLog
  <2>4. ServedLog[x].txn_id \in Taken
    BY <2>3 DEF ServedInv, ChunkInv
  <2>5. PICK k \in DOMAIN finished : ServedLog[x].txn_id = finished[k].txn_id
    BY <2>4, NoneServedAtReturn DEF Taken
  <2>6. WasServed(ServedLog, finished[k], calls)
    BY DEF ServedInv, ChunkInv
  <2>7. InTime(ServedLog, finished[k].txn_id, finished[k].issue, finished[k].complete)
    BY <2>6 DEF WasServed, ServedAll
  <2>8. ServedLog[x].complete <= finished[k].complete
    BY <2>3, <2>5, <2>7 DEF InTime, ServedOf
  <2>9. finished[k] \in Result
    BY LenProperties, ElementOfSeq DEF LoopInv, LoopTypeOK
  <2>10. finished[k].complete \in Nat
    BY <2>9 DEF Result
  <2>11. finished[k].complete <= totals.max_complete
    BY DEF BusInv
  <2> QED
    BY <1>1, <1>2, <1>4, <2>3, <2>8, <2>10, <2>11
<1> QED
  BY <1>2, <1>3, <1>4 DEF BusInv

(* What a step adds to the statistics: nothing, or one transaction's. *)
RecordsNone == finished' = finished /\ UNCHANGED <<windows, totals, runtimes>>

Records(r) ==
  /\ running' /\ finished' = Append(finished, r) /\ r.issue <= r.complete
  /\ StreamOf(r) \in DOMAIN cursors'
  /\ totals' = Totalled(r)
  /\ runtimes' = [runtimes EXCEPT ![r.core] = RanLonger(@, r)]
  /\ windows' = IF HistoryWindow = 0 THEN windows
                ELSE Recorded(r, Cardinality(cursors'[StreamOf(r)].outstanding))

LEMMA StepRecords ==
  ASSUME LoopInv, TimeInv, [Next]_vars
  PROVE  RecordsNone \/ \E r \in Result : Records(r)
<1>1. CASE UNCHANGED vars
  BY <1>1 DEF vars, frontVars, controlVars, statisticVars, RecordsNone
<1>2. CASE Next /\ finished' = finished
  BY <1>2, StepGrows DEF StatisticGrows, RecordsNone
<1>3. CASE Next /\ finished' # finished
  <2>1. PICK r \in Result :
          /\ finished' = Append(finished, r) /\ r.issue <= r.complete
          /\ <<r.core, r.segment, r.axi>> \in DOMAIN cursors'
    BY <1>3, OneResult
  <2>2. finished'[Len(finished')] = r
    BY <2>1, AppendProperties, LenProperties DEF LoopInv, LoopTypeOK
  <2>3. running'
    <3>1. finished' # finished => \E q \in Result : Adds(q)
      BY <1>3, SeenCases DEF SeesSame, PruneResultsBefore, Return, ReturnFromRun
    <3> QED
      BY <1>3, <3>1 DEF Adds
  <2> QED
    BY <1>3, <2>1, <2>2, <2>3, StepGrows DEF StatisticGrows, Records, StreamOf
<1> QED
  BY <1>1, <1>2, <1>3

LEMMA SummaryIsMade ==
  ASSUME Next
  PROVE  summary' = IF running /\ ~ running' THEN Summary(ChannelReport) ELSE summary
BY DEF Next, Statistic

LEMMA ReturnEnds ==
  ASSUME LoopInv, [Next]_vars, running, ~ running'
  PROVE  Return
BY SeenCases DEF SeesSame, Adds, PushTxn, PushBarrier, PruneResultsBefore

LEMMA LaterIs ==
  ASSUME NEW a \in Nat, NEW b \in Nat
  PROVE  Later(a, b) \in Nat /\ a <= Later(a, b) /\ b <= Later(a, b)
BY DEF Later

(* At the return the attributed time of every channel is the run's. *)
LEMMA BusTimeAtReturn ==
  ASSUME LoopInv, BusInv, ServedInv, StatInv, Return
  PROVE  Summary(ChannelReport).attributed = Cardinality(Channels) * totals.max_complete
<1>1. PICK share : share = [ch \in Channels |-> ChannelReport[ch].charged + Trailing(ChannelReport[ch])]
  OBVIOUS
<1>2. totals.max_complete \in Nat
  BY DEF StatInv, Totals
<1>3. ASSUME NEW ch \in Channels PROVE share[ch] = totals.max_complete
  <2>1. PICK free, end : free = channels[ch].bus_free /\ end = totals.max_complete
    OBVIOUS
  <2>2. free \in Nat /\ free <= end /\ end \in Nat
    BY <1>2, <2>1, BusBehind
  <2>3. ChannelReport[ch].charged = free /\ ChannelReport[ch].data_end = free
    BY <2>1 DEF ChannelReport
  <2>4. share[ch] = free + Later(end - free, 0)
    BY <1>1, <2>1, <2>3 DEF Trailing
  <2>5. free + Later(end - free, 0) = end
    BY <2>2 DEF Later
  <2> QED
    BY <2>1, <2>4, <2>5
<1>4. SumOn(share, Channels) = Cardinality(Channels) * totals.max_complete
  BY <1>2, <1>3, SumConstant, ChannelAssumption
<1>5. DOMAIN share = Channels
  BY <1>1
<1>6. SumOf(share) = SumOn(share, Channels)
  BY <1>5, Zenon DEF SumOf, FoldFunction, SumOn
<1> QED
  BY <1>1, <1>4, <1>6 DEF Summary

LEMMA BusInvStep ==
  ASSUME LoopInv, TimeInv, StatInv, ServedInv, BusInv, [Next]_vars
  PROVE  BusInv'
<1>1. ASSUME NEW c \in Channels
      PROVE  channels'[c].bus_free = 0
             \/ \E i \in DOMAIN channels'[c].served : channels'[c].bus_free = channels'[c].served[i].complete
  BY BusFollows
<1>2. \A k \in DOMAIN finished' : finished'[k].complete <= totals'.max_complete
  <2>1. CASE RecordsNone
    BY <2>1 DEF RecordsNone, BusInv
  <2>2. ASSUME NEW r \in Result, Records(r)
        PROVE  \A k \in DOMAIN finished' : finished'[k].complete <= totals'.max_complete
    <3>1. finished \in Seq(Result) /\ finished' = Append(finished, r)
      BY <2>2 DEF LoopInv, LoopTypeOK, Records
    <3>2. PICK old : old = totals.max_complete
      OBVIOUS
    <3>3. old \in Nat /\ r.complete \in Nat
      BY <3>2 DEF StatInv, Totals, Result
    <3>4. PICK end : end = Later(old, r.complete)
      OBVIOUS
    <3>5. totals'.max_complete = end
      BY <2>2, <3>2, <3>4 DEF Records, Totalled
    <3>6. end \in Nat /\ old <= end /\ r.complete <= end
      BY <3>3, <3>4, LaterIs
    <3>7. ASSUME NEW k \in DOMAIN finished PROVE finished[k].complete <= end
      <4>0. finished[k] \in Result
        BY <3>1, LenProperties, ElementOfSeq
      <4>1. finished[k].complete \in Nat /\ finished[k].complete <= old
        BY <3>2, <4>0 DEF BusInv, Result
      <4> QED
        BY <3>3, <3>6, <4>1
    <3>8. ASSUME NEW k \in DOMAIN finished' PROVE finished'[k].complete <= end
      <4>1. \/ k \in DOMAIN finished /\ finished'[k] = finished[k]
            \/ finished'[k] = r
        BY <3>1, AppendProperties, LenProperties
      <4> QED
        BY <3>6, <3>7, <4>1
    <3> QED
      BY <3>5, <3>8
  <2> QED
    BY <2>1, <2>2, StepRecords
<1>3. ~ running' => summary'.attributed = Cardinality(Channels) * totals'.max_complete
  <2> SUFFICES ASSUME ~ running' PROVE summary'.attributed = Cardinality(Channels) * totals'.max_complete
    OBVIOUS
  <2>1. totals' = totals
    BY StepRecords DEF RecordsNone, Records
  <2>2. CASE running
    <3>1. Return /\ Next
      BY <2>2, ReturnEnds DEF vars, frontVars, controlVars
    <3>2. summary' = Summary(ChannelReport)
      BY <2>2, <3>1, SummaryIsMade
    <3> QED
      BY <2>1, <3>1, <3>2, BusTimeAtReturn
  <2>3. CASE ~ running
    <3>1. summary' = summary
      BY <2>3, SummaryIsMade DEF vars, frontVars, statisticVars
    <3> QED
      BY <2>1, <2>3, <3>1 DEF BusInv
  <2> QED
    BY <2>2, <2>3
<1> QED
  BY <1>1, <1>2, <1>3 DEF BusInv

LEMMA InitBus == Init => BusInv
<1> SUFFICES ASSUME Init PROVE BusInv
  OBVIOUS
<1>1. Cardinality(Channels) \in Nat
  BY FS_CardinalityType, ChannelAssumption
<1>2. Cardinality(Channels) * 0 = 0
  BY <1>1
<1>3. summary.attributed = 0 /\ totals.max_complete = 0
  BY DEF Init, FrontInit, NoSummary
<1>4. DOMAIN finished = {} /\ \A ch \in Channels : channels[ch].bus_free = 0
  BY DEF Init, FrontInit
<1> QED
  BY <1>2, <1>3, <1>4 DEF BusInv

LEMMA AlwaysBus == Spec => [](OrderInv /\ TimeInv /\ CapInv /\ StatInv /\ CallInv /\ ServedInv /\ BusInv)
<1>1. OrderInv /\ TimeInv /\ StatInv /\ ServedInv /\ BusInv /\ [Next]_vars => BusInv'
  BY BusInvStep DEF OrderInv
<1>2. Init => BusInv
  BY InitBus
<1> QED
  BY <1>1, <1>2, AlwaysTyped, AlwaysServed, PTL DEF Spec

(* The bus time a summary attributes comes to all of the run's time on every
   channel: each cycle up to a channel's last data burst to what the channel
   charged it to, the rest to the end of the run to idleness, and no burst ends
   after the last transaction (BusTimeShared; Engine::compute_summary). *)
THEOREM BusTimeIsShared == Spec => []BusTimeShared
<1>1. BusInv => BusTimeShared
  BY DEF BusInv, BusTimeShared
<1> QED
  BY <1>1, AlwaysBus, PTL

-----------------------------------------------------------------------------
(***************************************************************************)
(* Percentiles.  A histogram counts how many observations have each key;   *)
(* the keys are monotone in the observations.  The key of the rank-th is   *)
(* then the key of the true percentile.                                    *)
(***************************************************************************)
(* Powers of two: those of a set's subsets. *)
LEMMA PowerNat ==
  ASSUME NEW n \in Nat
  PROVE  2 ^ n \in Nat
<1>1. PICK S : S = 1 .. n
  OBVIOUS
<1>2. IsFiniteSet(S) /\ Cardinality(S) = n
  BY <1>1, FS_Interval
<1>3. IsFiniteSet(SUBSET S) /\ Cardinality(SUBSET S) = 2 ^ n
  BY <1>2, FS_SUBSET
<1> QED
  BY <1>3, FS_CardinalityType

LEMMA PowerDoubles ==
  ASSUME NEW n \in Nat
  PROVE  2 ^ (n + 1) = 2 ^ n + 2 ^ n
<1>1. PICK S, T : S = 1 .. n /\ T = 1 .. n + 1
  OBVIOUS
<1>2. n + 1 \in T /\ n + 1 \notin S /\ T = S \cup {n + 1}
  BY <1>1
<1>3. IsFiniteSet(S) /\ Cardinality(S) = n /\ IsFiniteSet(T) /\ Cardinality(T) = n + 1
  BY <1>1, FS_Interval
<1>4. PICK A, B : A = SUBSET S /\ B = {s \in SUBSET T : n + 1 \in s}
  OBVIOUS
<1>5. IsFiniteSet(A) /\ Cardinality(A) = 2 ^ n
  BY <1>3, <1>4, FS_SUBSET
<1>6. Cardinality(SUBSET T) = 2 ^ (n + 1)
  BY <1>3, FS_SUBSET
<1>7. ExistsBijection(A, B)
  <2>1. PICK with : with = [s \in A |-> s \cup {n + 1}]
    OBVIOUS
  <2>2. with \in [A -> B]
    BY <1>2, <1>4, <2>1
  <2>3. \A s, t \in A : with[s] = with[t] => s = t
    BY <1>2, <1>4, <2>1, SMTT(30)
  <2>4. ASSUME NEW t \in B PROVE \E s \in A : with[s] = t
    <3>1. t \ {n + 1} \in A /\ (t \ {n + 1}) \cup {n + 1} = t
      BY <1>2, <1>4, <2>4
    <3> QED
      BY <2>1, <3>1
  <2>5. with \in Injection(A, B)
    BY <2>2, <2>3 DEF Injection, IsInjective
  <2>6. with \in Surjection(A, B)
    BY <2>2, <2>4 DEF Surjection
  <2> QED
    BY <2>5, <2>6 DEF ExistsBijection, Bijection
<1>8. IsFiniteSet(B) /\ Cardinality(B) = 2 ^ n
  BY <1>5, <1>7, FS_Bijection
<1>9. A \cup B = SUBSET T /\ A \cap B = {}
  BY <1>2, <1>4
<1>10. Cardinality({}) = 0
  BY FS_EmptySet
<1>11. Cardinality(A \cup B) = Cardinality(A) + Cardinality(B) - Cardinality(A \cap B)
  BY <1>5, <1>8, FS_Union
<1>12. PICK p \in Nat : p = 2 ^ n
  BY PowerNat
<1>13. Cardinality(A \cup B) = p + p
  <2>1. Cardinality(A \cap B) = 0
    BY <1>9, <1>10
  <2> QED
    BY <1>5, <1>8, <1>11, <1>12, <2>1
<1> QED
  BY <1>6, <1>9, <1>12, <1>13

AtMost(value, K, v) == {i \in K : value[i] <= v}

Observed(value, K) == K # {} /\ IsFiniteSet(K) /\ \A k \in K : value[k] \in Nat

PercentileOf(value, K, pct) ==
  Min({value[k] : k \in {j \in K :
         100 * Cardinality(AtMost(value, K, value[j])) >= pct * Cardinality(K)}})

LEMMA AtMostFinite ==
  ASSUME NEW value, NEW K, IsFiniteSet(K), NEW v
  PROVE  /\ IsFiniteSet(AtMost(value, K, v)) /\ AtMost(value, K, v) \subseteq K
         /\ Cardinality(AtMost(value, K, v)) \in Nat /\ Cardinality(AtMost(value, K, v)) <= Cardinality(K)
<1>1. AtMost(value, K, v) \subseteq K
  BY DEF AtMost
<1>2. IsFiniteSet(AtMost(value, K, v)) /\ Cardinality(AtMost(value, K, v)) <= Cardinality(K)
  BY <1>1, FS_Subset
<1> QED
  BY <1>1, <1>2, FS_CardinalityType

(* One of finitely many observations is the highest. *)
LEMMA HighestExists ==
  ASSUME NEW value, NEW K, Observed(value, K)
  PROVE  \E h \in K : \A k \in K : value[k] <= value[h]
<1> DEFINE above(j) == {i \in K : value[i] > value[j]}
           counts == {Cardinality(above(j)) : j \in K}
<1>1. \A j \in K : IsFiniteSet(above(j)) /\ Cardinality(above(j)) \in Nat
  <2> TAKE j \in K
  <2>1. above(j) \subseteq K
    OBVIOUS
  <2>2. IsFiniteSet(above(j))
    BY <2>1, FS_Subset DEF Observed
  <2> QED
    BY <2>2, FS_CardinalityType
<1>2. counts \in SUBSET Nat /\ counts # {}
  BY <1>1 DEF Observed
<1>3. Min(counts) \in counts /\ \A x \in counts : Min(counts) <= x
  BY <1>2, NatMin
<1>4. PICK h \in K : Cardinality(above(h)) = Min(counts)
  BY <1>3
<1>5. ASSUME NEW k \in K, ~ (value[k] <= value[h]) PROVE FALSE
  <2>1. value[k] > value[h] /\ \A i \in K : value[i] \in Nat
    BY <1>5 DEF Observed
  <2>2. above(k) \subseteq above(h) /\ k \in above(h) /\ k \notin above(k)
    BY <2>1
  <2>3. above(k) \subseteq above(h) \ {k} /\ IsFiniteSet(above(h) \ {k})
    BY <1>1, <2>2, FS_RemoveElement
  <2>4. Cardinality(above(k)) <= Cardinality(above(h) \ {k})
    BY <2>3, FS_Subset
  <2>5. Cardinality(above(h) \ {k}) = Cardinality(above(h)) - 1
    BY <1>1, <2>2, FS_RemoveElement
  <2>6. Cardinality(above(h)) <= Cardinality(above(k))
    BY <1>3, <1>4
  <2>7. PICK a \in Nat, b \in Nat : a = Cardinality(above(h)) /\ b = Cardinality(above(k))
    BY <1>1
  <2> QED
    BY <2>4, <2>5, <2>6, <2>7
<1> QED
  BY <1>5

LEMMA CeilingOf ==
  ASSUME NEW a \in Nat, a >= 1, NEW m \in Nat
  PROVE  /\ (a + 99) \div 100 \in Nat /\ (a + 99) \div 100 >= 1
         /\ 100 * m >= a <=> m >= (a + 99) \div 100
OBVIOUS

LEMMA RankIs ==
  ASSUME NEW total \in Nat \ {0}, NEW pct \in 1 .. 100
  PROVE  /\ Rank(total, pct) \in 1 .. total
         /\ \A m \in Nat : 100 * m >= pct * total <=> m >= Rank(total, pct)
<1>1. PICK share : share = pct * total
  OBVIOUS
<1>2. share \in Nat /\ share >= 1 /\ share <= 100 * total
  <2>1. pct \in Nat /\ 1 <= pct /\ pct <= 100
    OBVIOUS
  <2>2. 1 * total <= pct * total /\ pct * total <= 100 * total /\ pct * total \in Nat
    BY <2>1, ProductMonotone
  <2> QED
    BY <1>1, <2>2
<1>3. PICK rank : rank = (share + 99) \div 100
  OBVIOUS
<1>4. rank \in Nat /\ rank >= 1 /\ \A m \in Nat : 100 * m >= share <=> m >= rank
  BY <1>2, <1>3, CeilingOf
<1>5. rank <= total
  BY <1>2, <1>4
<1>6. Rank(total, pct) = rank
  BY <1>1, <1>3, <1>4, <1>5 DEF Rank, Later, Lesser
<1> QED
  BY <1>1, <1>4, <1>5, <1>6

(* The true percentile is the least value that the rank does not exceed. *)
LEMMA PercentileIs ==
  ASSUME NEW value, NEW K, Observed(value, K), NEW pct \in 1 .. 100, NEW rank, rank = Rank(Cardinality(K), pct)
  PROVE  \E j \in K : /\ value[j] = PercentileOf(value, K, pct)
                      /\ Cardinality(AtMost(value, K, value[j])) >= rank
                      /\ \A k \in K : value[k] < value[j] => Cardinality(AtMost(value, K, value[k])) < rank
<1>0. Cardinality(K) \in Nat \ {0} /\ IsFiniteSet(K)
  BY FS_CardinalityType, FS_EmptySet DEF Observed
<1>1. rank \in 1 .. Cardinality(K) /\ \A m \in Nat : 100 * m >= pct * Cardinality(K) <=> m >= rank
  BY <1>0, RankIs
<1>2. \A j \in K : /\ Cardinality(AtMost(value, K, value[j])) \in Nat
                   /\ 100 * Cardinality(AtMost(value, K, value[j])) >= pct * Cardinality(K)
                        <=> Cardinality(AtMost(value, K, value[j])) >= rank
  <2> TAKE j \in K
  <2>1. Cardinality(AtMost(value, K, value[j])) \in Nat
    BY <1>0, AtMostFinite
  <2> QED
    BY <1>1, <2>1
<1>3. PICK enough : enough = {j \in K : Cardinality(AtMost(value, K, value[j])) >= rank}
  OBVIOUS
<1>4. PICK values : values = {value[k] : k \in enough}
  OBVIOUS
<1>5. PercentileOf(value, K, pct) = Min(values)
  <2>1. {j \in K : 100 * Cardinality(AtMost(value, K, value[j])) >= pct * Cardinality(K)} = enough
    BY <1>2, <1>3
  <2> QED
    BY <1>4, <2>1 DEF PercentileOf
<1>6. PICK h \in K : \A k \in K : value[k] <= value[h]
  BY HighestExists
<1>7. AtMost(value, K, value[h]) = K
  BY <1>6 DEF AtMost
<1>8. h \in enough
  BY <1>0, <1>1, <1>3, <1>7
<1>9. values \in SUBSET Nat /\ values # {}
  BY <1>3, <1>4, <1>8 DEF Observed
<1>10. Min(values) \in values /\ \A x \in values : Min(values) <= x
  BY <1>9, NatMin
<1>11. PICK j \in enough : value[j] = Min(values)
  BY <1>4, <1>10
<1>12. ASSUME NEW k \in K, value[k] < value[j]
       PROVE  Cardinality(AtMost(value, K, value[k])) < rank
  <2>1. value[k] \in Nat /\ value[j] \in Nat /\ j \in K
    BY <1>3, <1>11 DEF Observed
  <2>2. value[k] \notin values
    BY <1>10, <1>11, <1>12, <2>1
  <2>3. k \notin enough
    BY <1>4, <2>2
  <2> QED
    BY <1>1, <1>2, <1>3, <2>3
<1> QED
  BY <1>3, <1>5, <1>11, <1>12

(* hist counts the observations of K by their keys. *)
CountsBy(hist, key, K) ==
  /\ IsFiniteSet(DOMAIN hist) /\ DOMAIN hist \subseteq Nat
  /\ \A k \in K : key[k] \in DOMAIN hist
  /\ \A v \in DOMAIN hist : hist[v] = Cardinality(With(key, K, v))

LEMMA HistogramCounts ==
  ASSUME NEW hist, NEW key, NEW K, IsFiniteSet(K), CountsBy(hist, key, K)
  PROVE  /\ SumOf(hist) = Cardinality(K)
         /\ \A v \in DOMAIN hist :
              SumOf([u \in {w \in DOMAIN hist : w <= v} |-> hist[u]]) = Cardinality(AtMost(key, K, v))
<1>0. IsFiniteSet(DOMAIN hist) /\ DOMAIN hist \subseteq Nat /\ \A k \in K : key[k] \in DOMAIN hist
  BY DEF CountsBy
<1>c. \A v \in DOMAIN hist : hist[v] = Cardinality(With(key, K, v))
  BY DEF CountsBy
<1>1. SumOf(hist) = Cardinality(K)
  <2>1. SumOn(hist, DOMAIN hist) = Cardinality(Within(key, K, DOMAIN hist))
    BY <1>0, <1>c, SumCounts
  <2>2. Within(key, K, DOMAIN hist) = K
    BY <1>0 DEF Within
  <2>3. SumOf(hist) = SumOn(hist, DOMAIN hist)
    BY Zenon DEF SumOf, FoldFunction, SumOn
  <2> QED
    BY <2>1, <2>2, <2>3
<1>2. ASSUME NEW v \in DOMAIN hist
      PROVE  SumOf([u \in {w \in DOMAIN hist : w <= v} |-> hist[u]]) = Cardinality(AtMost(key, K, v))
  <2>1. PICK S : S = {w \in DOMAIN hist : w <= v}
    OBVIOUS
  <2>2. PICK part : part = [u \in S |-> hist[u]]
    OBVIOUS
  <2>3. DOMAIN part = S /\ S \subseteq DOMAIN hist /\ \A u \in S : part[u] = hist[u]
    BY <2>1, <2>2
  <2>4. IsFiniteSet(S)
    BY <1>0, <2>3, FS_Subset
  <2>5. SumOf(part) = SumOn(part, S)
    BY <2>3, Zenon DEF SumOf, FoldFunction, SumOn
  <2>6. \A u \in S : part[u] = Cardinality(With(key, K, u))
    BY <1>c, <2>3
  <2>7. SumOn(part, S) = Cardinality(Within(key, K, S))
    BY <2>4, <2>6, SumCounts
  <2>8. Within(key, K, S) = AtMost(key, K, v)
    BY <1>0, <2>1 DEF AtMost, Within
  <2> QED
    BY <2>1, <2>2, <2>5, <2>7, <2>8
<1> QED
  BY <1>1, <1>2

(* The key at a rank is the least that enough observations do not exceed. *)
LEMMA KeyIs ==
  ASSUME NEW hist, NEW key, NEW K, Observed(key, K), CountsBy(hist, key, K), NEW rank \in 1 .. Cardinality(K)
  PROVE  /\ KeyAtRank(hist, rank) \in DOMAIN hist
         /\ Cardinality(AtMost(key, K, KeyAtRank(hist, rank))) >= rank
         /\ \A v \in DOMAIN hist : Cardinality(AtMost(key, K, v)) >= rank => KeyAtRank(hist, rank) <= v
<1>0. IsFiniteSet(K) /\ DOMAIN hist \subseteq Nat
  BY DEF Observed, CountsBy
<1>1. PICK enough : enough = {v \in DOMAIN hist : Cardinality(AtMost(key, K, v)) >= rank}
  OBVIOUS
<1>2. KeyAtRank(hist, rank) = Min(enough)
  <2>1. \A v \in DOMAIN hist :
          SumOf([u \in {w \in DOMAIN hist : w <= v} |-> hist[u]]) = Cardinality(AtMost(key, K, v))
    BY <1>0, HistogramCounts
  <2>2. {v \in DOMAIN hist : SumOf([u \in {w \in DOMAIN hist : w <= v} |-> hist[u]]) >= rank} = enough
    BY <1>1, <2>1
  <2> QED
    BY <2>2 DEF KeyAtRank
<1>3. PICK h \in K : \A k \in K : key[k] <= key[h]
  BY HighestExists
<1>4. AtMost(key, K, key[h]) = K
  BY <1>3 DEF AtMost
<1>5. key[h] \in enough
  <2>1. key[h] \in DOMAIN hist
    BY DEF CountsBy
  <2>2. Cardinality(K) >= rank
    BY <1>0, FS_CardinalityType
  <2> QED
    BY <1>1, <1>4, <2>1, <2>2
<1>6. enough \in SUBSET Nat
  BY <1>0, <1>1
<1>7. Min(enough) \in enough /\ \A x \in enough : Min(enough) <= x
  BY <1>5, <1>6, NatMin
<1> QED
  BY <1>1, <1>2, <1>7

(* The keys are monotone in the observations. *)
Follows(key, value, K) == \A i, j \in K : value[i] <= value[j] => key[i] <= key[j]

LEMMA RankedKey ==
  ASSUME NEW hist, NEW key, NEW value, NEW K, Observed(value, K), Observed(key, K), CountsBy(hist, key, K),
         Follows(key, value, K),
         NEW pct \in 1 .. 100
  PROVE  /\ SumOf(hist) = Cardinality(K) /\ SumOf(hist) # 0
         /\ \E j \in K : /\ value[j] = PercentileOf(value, K, pct)
                         /\ KeyAtRank(hist, Rank(SumOf(hist), pct)) = key[j]
<1>0. Cardinality(K) \in Nat \ {0} /\ IsFiniteSet(K)
  BY FS_CardinalityType, FS_EmptySet DEF Observed
<1>1. SumOf(hist) = Cardinality(K)
  BY <1>0, HistogramCounts
<1>2. PICK rank : rank = Rank(Cardinality(K), pct)
  OBVIOUS
<1>3. rank \in 1 .. Cardinality(K)
  BY <1>0, <1>2, RankIs
<1>4. PICK j \in K : /\ value[j] = PercentileOf(value, K, pct)
                     /\ Cardinality(AtMost(value, K, value[j])) >= rank
                     /\ \A k \in K : value[k] < value[j] => Cardinality(AtMost(value, K, value[k])) < rank
  BY <1>2, PercentileIs
<1>5. PICK q : q = KeyAtRank(hist, rank)
  OBVIOUS
<1>6. /\ q \in DOMAIN hist /\ Cardinality(AtMost(key, K, q)) >= rank
      /\ \A v \in DOMAIN hist : Cardinality(AtMost(key, K, v)) >= rank => q <= v
  BY <1>3, <1>5, KeyIs
<1>7. q \in Nat /\ key[j] \in DOMAIN hist /\ \A k \in K : key[k] \in Nat /\ value[k] \in Nat
  BY <1>6 DEF CountsBy, Observed
<1>8. q <= key[j]
  <2>1. AtMost(value, K, value[j]) \subseteq AtMost(key, K, key[j])
    BY DEF AtMost, Follows
  <2>2. Cardinality(AtMost(value, K, value[j])) <= Cardinality(AtMost(key, K, key[j]))
    BY <1>0, <2>1, AtMostFinite, FS_Subset
  <2>3. Cardinality(AtMost(value, K, value[j])) \in Nat /\ Cardinality(AtMost(key, K, key[j])) \in Nat
    BY <1>0, AtMostFinite
  <2>4. Cardinality(AtMost(key, K, key[j])) >= rank
    BY <1>0, <1>3, <1>4, <2>2, <2>3
  <2> QED
    BY <1>6, <1>7, <2>4
<1>9. ~ (q < key[j])
  <2> SUFFICES ASSUME q < key[j] PROVE FALSE
    OBVIOUS
  <2>1. PICK low : low = AtMost(key, K, q)
    OBVIOUS
  <2>2. low \subseteq K /\ IsFiniteSet(low) /\ Cardinality(low) \in Nat /\ Cardinality(low) >= rank
    BY <1>0, <1>6, <2>1, AtMostFinite
  <2>3. low # {}
    BY <1>0, <1>3, <2>2, FS_EmptySet
  <2>4. Observed(value, low)
    BY <2>2, <2>3 DEF Observed
  <2>5. PICK h \in low : \A k \in low : value[k] <= value[h]
    BY <2>4, HighestExists
  <2>6. h \in K /\ key[h] <= q
    BY <2>1, <2>2 DEF AtMost
  <2>7. value[h] < value[j]
    <3>1. ~ (value[j] <= value[h])
      <4>1. key[h] \in Nat /\ key[j] \in Nat
        BY <1>7, <2>6
      <4>2. ~ (key[j] <= key[h])
        BY <1>7, <2>6, <4>1 DEF Follows
      <4> QED
        BY <2>6, <4>2 DEF Follows
    <3> QED
      BY <1>7, <2>6, <3>1
  <2>8. low \subseteq AtMost(value, K, value[h])
    BY <2>2, <2>5 DEF AtMost
  <2>9. Cardinality(low) <= Cardinality(AtMost(value, K, value[h]))
    BY <1>0, <2>8, AtMostFinite, FS_Subset
  <2>10. Cardinality(AtMost(value, K, value[h])) \in Nat
    BY <1>0, AtMostFinite
  <2>11. Cardinality(AtMost(value, K, value[h])) < rank
    BY <1>4, <2>6, <2>7
  <2> QED
    BY <1>0, <1>3, <2>2, <2>9, <2>10, <2>11
<1>10. q = key[j]
  BY <1>7, <1>8, <1>9
<1> QED
  BY <1>0, <1>1, <1>2, <1>4, <1>5, <1>10

-----------------------------------------------------------------------------
(* Buckets grow with the latencies, and a bucket's edges enclose those in it. *)
LEMMA BucketIs ==
  ASSUME NEW a \in Nat, NEW b, b = LatencyBucket(a)
  PROVE  /\ b \in 0 .. LatencyBuckets - 1
         /\ b > 0 => 2 ^ b <= a * a
         /\ \A i \in 1 .. LatencyBuckets - 1 : 2 ^ i <= a * a => i <= b
<1>1. LatencyBuckets \in Nat \ {0}
  BY BucketsAssumption
<1>2. PICK S : S = {0} \cup {i \in 1 .. LatencyBuckets - 1 : 2 ^ i <= a * a}
  OBVIOUS
<1>3. S \subseteq 0 .. LatencyBuckets - 1 /\ 0 \in S /\ IsFiniteSet(S)
  <2>1. S \subseteq 0 .. LatencyBuckets - 1 /\ 0 \in S
    BY <1>1, <1>2
  <2>2. IsFiniteSet(0 .. LatencyBuckets - 1)
    BY <1>1, FS_Interval
  <2> QED
    BY <2>1, <2>2, FS_Subset
<1>4. PICK id : id = [i \in S |-> i]
  OBVIOUS
<1>5. Observed(id, S)
  BY <1>1, <1>3, <1>4 DEF Observed
<1>6. PICK h \in S : \A i \in S : id[i] <= id[h]
  BY <1>5, HighestExists
<1>7. h \in Int /\ S \in SUBSET Int /\ \A i \in S : i <= h
  BY <1>1, <1>3, <1>4, <1>6
<1>8. Max(S) = h
  BY <1>7, MaxIs
<1>9. b = h
  BY <1>2, <1>8 DEF LatencyBucket
<1> QED
  BY <1>1, <1>2, <1>3, <1>7, <1>9

LEMMA SquareGrows ==
  ASSUME NEW a \in Nat, NEW b \in Nat, a <= b
  PROVE  a * a \in Nat /\ b * b \in Nat /\ a * a <= b * b
<1>1. a * a <= b * a /\ a * a \in Nat /\ b * a \in Nat
  BY ProductMonotone
<1>2. a * b <= b * b /\ a * b \in Nat /\ b * b \in Nat
  BY ProductMonotone
<1>3. a * b = b * a
  OBVIOUS
<1> QED
  BY <1>1, <1>2, <1>3

LEMMA BucketMonotone ==
  ASSUME NEW a \in Nat, NEW c \in Nat, a <= c
  PROVE  LatencyBucket(a) <= LatencyBucket(c)
<1>1. PICK b, d : b = LatencyBucket(a) /\ d = LatencyBucket(c)
  OBVIOUS
<1>2. /\ b \in 0 .. LatencyBuckets - 1 /\ d \in 0 .. LatencyBuckets - 1
      /\ b > 0 => 2 ^ b <= a * a
      /\ \A i \in 1 .. LatencyBuckets - 1 : 2 ^ i <= c * c => i <= d
  BY <1>1, BucketIs
<1>3. a * a \in Nat /\ c * c \in Nat /\ a * a <= c * c
  BY SquareGrows
<1>4. CASE b > 0
  <2>1. b \in Nat /\ b \in 1 .. LatencyBuckets - 1
    BY <1>2, <1>4, BucketsAssumption
  <2>2. PICK p \in Nat : p = 2 ^ b
    BY <2>1, PowerNat
  <2>3. p <= c * c
    BY <1>2, <1>3, <1>4, <2>2
  <2> QED
    BY <1>1, <1>2, <2>1, <2>2, <2>3
<1>5. CASE ~ (b > 0)
  BY <1>1, <1>2, <1>5, BucketsAssumption
<1> QED
  BY <1>4, <1>5

(* The edge reported for a latency that lies in the buckets is not below it, and
   at most half an octave above. *)
LEMMA EdgeIsNear ==
  ASSUME NEW a \in Nat \ {0}, NEW greatest \in Nat, a <= greatest, a * a < 2 ^ LatencyBuckets,
         NEW reported, reported = Lesser(UpperEdge2(LatencyBucket(a)), greatest * greatest)
  PROVE  a * a <= reported /\ reported <= 2 * (a * a)
<1>0. LatencyBuckets \in Nat \ {0}
  BY BucketsAssumption
<1>1. PICK b : b = LatencyBucket(a)
  OBVIOUS
<1>2. /\ b \in 0 .. LatencyBuckets - 1
      /\ b > 0 => 2 ^ b <= a * a
      /\ \A i \in 1 .. LatencyBuckets - 1 : 2 ^ i <= a * a => i <= b
  BY <1>1, BucketIs
<1>3. PICK square \in Nat, most \in Nat : square = a * a /\ most = greatest * greatest /\ square <= most
  BY SquareGrows
<1>4. b \in Nat /\ b + 1 \in Nat
  BY <1>0, <1>2
<1>5. PICK p \in Nat, edge \in Nat : p = 2 ^ b /\ edge = 2 ^ (b + 1)
  BY <1>4, PowerNat
<1>6. edge = p + p
  BY <1>4, <1>5, PowerDoubles
<1>7. square >= 1
  <2>1. 1 * a <= a * a
    BY ProductMonotone
  <2> QED
    BY <1>3, <2>1
<1>8. p <= square
  <2>1. CASE b > 0
    BY <1>2, <1>3, <1>5, <2>1
  <2>2. CASE b = 0
    <3>1. 2 ^ 0 = 1
      OBVIOUS
    <3> QED
      BY <1>5, <1>7, <2>2, <3>1
  <2> QED
    BY <1>4, <2>1, <2>2
<1>9. square < edge
  <2>1. CASE b = LatencyBuckets - 1
    <3>1. b + 1 = LatencyBuckets
      BY <1>0, <2>1
    <3> QED
      BY <1>3, <1>5, <3>1
  <2>2. CASE b # LatencyBuckets - 1
    <3>1. b + 1 \in 1 .. LatencyBuckets - 1
      BY <1>0, <1>2, <2>2
    <3>2. ~ (edge <= square)
      BY <1>2, <1>3, <1>4, <1>5, <3>1
    <3> QED
      BY <3>2
  <2> QED
    BY <2>1, <2>2
<1>10. reported = Lesser(edge, most)
  BY <1>1, <1>3, <1>5 DEF UpperEdge2
<1>11. square <= reported /\ reported <= 2 * square
  BY <1>3, <1>6, <1>8, <1>9, <1>10 DEF Lesser
<1> QED
  BY <1>3, <1>11

(* A percentile reported of a histogram of latencies is near the true one. *)
Bucketed(hist, value, key, K, greatest) ==
  /\ Observed(value, K) /\ CountsBy(hist, key, K) /\ greatest \in Nat
  /\ \A k \in K : value[k] # 0 /\ key[k] = LatencyBucket(value[k]) /\ value[k] <= greatest

LEMMA ReportedIsNear ==
  ASSUME NEW hist, NEW value, NEW key, NEW K, NEW greatest, Bucketed(hist, value, key, K, greatest),
         NEW pct \in 1 .. 100, NEW exact, exact = PercentileOf(value, K, pct),
         exact * exact < 2 ^ LatencyBuckets
  PROVE  /\ exact * exact <= LatencyPercentile2(hist, greatest, pct)
         /\ LatencyPercentile2(hist, greatest, pct) <= 2 * (exact * exact)
<1>0. /\ Observed(value, K) /\ CountsBy(hist, key, K) /\ greatest \in Nat
      /\ \A k \in K : value[k] # 0 /\ key[k] = LatencyBucket(value[k]) /\ value[k] <= greatest
  BY DEF Bucketed
<1>1. Follows(key, value, K)
  BY <1>0, BucketMonotone DEF Observed, Follows
<1>2. Observed(key, K)
  <2>1. \A k \in K : key[k] \in Nat
    BY <1>0 DEF CountsBy
  <2> QED
    BY <1>0, <2>1 DEF Observed
<1>3. PICK rank : rank = Rank(SumOf(hist), pct)
  OBVIOUS
<1>4. SumOf(hist) # 0 /\ \E j \in K : value[j] = exact /\ KeyAtRank(hist, rank) = key[j]
  <2>1. /\ SumOf(hist) = Cardinality(K) /\ SumOf(hist) # 0
        /\ \E j \in K : /\ value[j] = PercentileOf(value, K, pct)
                        /\ KeyAtRank(hist, Rank(SumOf(hist), pct)) = key[j]
    <3>1. Observed(value, K) /\ CountsBy(hist, key, K) /\ pct \in 1 .. 100
      BY <1>0
    <3> QED
      BY <1>1, <1>2, <3>1, RankedKey
  <2> QED
    BY <1>3, <2>1
<1>5. PICK j \in K : value[j] = exact /\ KeyAtRank(hist, rank) = key[j]
  BY <1>4
<1>6. exact \in Nat \ {0} /\ exact <= greatest /\ key[j] = LatencyBucket(exact)
  BY <1>0, <1>5 DEF Observed
<1>7. LatencyPercentile2(hist, greatest, pct) = Lesser(UpperEdge2(LatencyBucket(exact)), greatest * greatest)
  BY <1>3, <1>4, <1>5, <1>6 DEF LatencyPercentile2
<1> QED
  BY <1>0, <1>6, <1>7, EdgeIsNear

-----------------------------------------------------------------------------
(***************************************************************************)
(* The histograms count what they are of: the latencies of a core's        *)
(* transactions that are over, and the burst sizes of those pushed.        *)
(***************************************************************************)
ResultsOn(c) == {k \in DOMAIN finished : finished[k].core = c}
InBucket(c, b) == {k \in ResultsOn(c) : LatencyBucket(Latency(finished[k])) = b}

LatencyInv ==
  /\ \A c \in Cores : \A b \in 0 .. LatencyBuckets - 1 :
       runtimes[c].latency_hist[b] = Cardinality(InBucket(c, b))
  /\ \A k \in DOMAIN finished :
       /\ Latency(finished[k]) <= totals.latency_max
       /\ Latency(finished[k]) <= runtimes[finished[k].core].latency_max

PushedBy(c) == {i \in Pushed : calls[i].core = c}
SizesOf(c) == [i \in PushedBy(c) |-> BurstBytes(calls[i].txn)]

BurstInv == \A c \in Cores :
  /\ CountsBy(bursts[c], SizesOf(c), PushedBy(c))
  /\ \A b \in DOMAIN bursts[c] : \E i \in PushedBy(c) : SizesOf(c)[i] = b

(* What the last run() reported is still what the histograms say. *)
ReportInv ==
  ~ running /\ finished # <<>> =>
    \A p \in Percentiles : summary.latency_percentile2[p] = LatencyPercentile2(AllLatencies, totals.latency_max, p)

LEMMA OneFinished ==
  ASSUME LoopInv, NEW r \in Result, finished' = Append(finished, r)
  PROVE  \E n \in Nat :
           /\ DOMAIN finished = 1 .. n /\ DOMAIN finished' = 1 .. n + 1
           /\ DOMAIN finished' = DOMAIN finished \cup {n + 1} /\ n + 1 \notin DOMAIN finished
           /\ \A k \in DOMAIN finished : finished'[k] = finished[k] /\ finished[k] \in Result
           /\ finished'[n + 1] = r
<1>1. PICK n : n = Len(finished)
  OBVIOUS
<1>2. finished \in Seq(Result)
  BY DEF LoopInv, LoopTypeOK
<1>3. /\ n \in Nat /\ DOMAIN finished = 1 .. n
      /\ finished' \in Seq(Result) /\ Len(finished') = n + 1
      /\ \A k \in 1 .. n : finished'[k] = finished[k] /\ finished[k] \in Result
      /\ finished'[n + 1] = r
  BY <1>1, <1>2, AppendProperties, LenProperties, ElementOfSeq
<1>4. DOMAIN finished' = 1 .. n + 1
  BY <1>3, LenProperties
<1> QED
  BY <1>3, <1>4

LEMMA FinishedFinite ==
  ASSUME LoopInv
  PROVE  IsFiniteSet(DOMAIN finished) /\ \A k \in DOMAIN finished : finished[k] \in Result
<1>1. finished \in Seq(Result)
  BY DEF LoopInv, LoopTypeOK
<1>2. DOMAIN finished = 1 .. Len(finished) /\ Len(finished) \in Nat
  BY <1>1, LenProperties
<1> QED
  BY <1>1, <1>2, LenProperties, ElementOfSeq, FS_Interval

LEMMA InBucketFinite ==
  ASSUME LoopInv, NEW c, NEW b
  PROVE  IsFiniteSet(InBucket(c, b)) /\ InBucket(c, b) \subseteq DOMAIN finished
<1>1. InBucket(c, b) \subseteq DOMAIN finished
  BY DEF InBucket, ResultsOn
<1> QED
  BY <1>1, FinishedFinite, FS_Subset

LEMMA LatencyInvRecords ==
  ASSUME LoopInv, StatInv, LatencyInv, NEW r \in Result, Records(r)
  PROVE  LatencyInv'
<1>1. PICK n \in Nat :
        /\ DOMAIN finished' = DOMAIN finished \cup {n + 1} /\ n + 1 \notin DOMAIN finished
        /\ \A k \in DOMAIN finished : finished'[k] = finished[k] /\ finished[k] \in Result
        /\ finished'[n + 1] = r
  BY OneFinished DEF Records
<1>2. PICK l \in Nat : l = Latency(r)
  BY LatencyNat DEF Records
<1>3. PICK bucket : bucket = LatencyBucket(l)
  OBVIOUS
<1>4. bucket \in 0 .. LatencyBuckets - 1
  BY <1>3, BucketIs
<1>5. r.core \in Cores
  BY DEF Result
<1>6. PICK acc \in CoreRuntime : acc = runtimes[r.core]
  BY <1>5 DEF StatInv
<1>7. PICK hist \in [0 .. LatencyBuckets - 1 -> Nat] : hist = acc.latency_hist
  BY DEF CoreRuntime
<1>8. PICK longer : longer = RanLonger(acc, r)
  OBVIOUS
<1>9. longer.latency_hist = [hist EXCEPT ![bucket] = @ + 1] /\ longer.latency_max = Later(acc.latency_max, l)
  <2>1. longer = [acc EXCEPT !.txn_count = @ + 1, !.bytes[r.type] = @ + r.bytes,
              !.latency_sum = @ + l, !.latency_max = Later(@, l),
              !.latency_hist[bucket] = @ + 1,
              !.outstanding_wait_sum = @ + r.wait]
    BY <1>2, <1>3, <1>8 DEF RanLonger
  <2> QED
    BY <1>7, <2>1 DEF CoreRuntime
<1>10. /\ runtimes' = [runtimes EXCEPT ![r.core] = longer] /\ runtimes \in [Cores -> CoreRuntime]
       /\ totals'.latency_max = Later(totals.latency_max, l)
  BY <1>2, <1>6, <1>8 DEF Records, Totalled, StatInv
<1>11. runtimes'[r.core] = longer /\ \A c \in Cores \ {r.core} : runtimes'[c] = runtimes[c]
  BY <1>5, <1>10
<1>12. ASSUME NEW c \in Cores, NEW b \in 0 .. LatencyBuckets - 1
       PROVE  runtimes'[c].latency_hist[b] = Cardinality(InBucket(c, b)')
  <2>1. InBucket(c, b)' = {k \in DOMAIN finished' : finished'[k].core = c /\ LatencyBucket(Latency(finished'[k])) = b}
    BY DEF InBucket, ResultsOn, Latency
  <2>2. PICK old, new : old = InBucket(c, b) /\ new = InBucket(c, b)'
    OBVIOUS
  <2>3. old = {k \in DOMAIN finished : finished[k].core = c /\ LatencyBucket(Latency(finished[k])) = b}
    BY <2>2 DEF InBucket, ResultsOn
  <2>4. runtimes[c].latency_hist[b] = Cardinality(old) /\ IsFiniteSet(old) /\ n + 1 \notin old
    BY <1>1, <2>2, InBucketFinite DEF LatencyInv
  <2>5. CASE c = r.core /\ b = bucket
    <3>1. new = old \cup {n + 1}
      BY <1>1, <1>2, <1>3, <2>1, <2>2, <2>3, <2>5
    <3>2. Cardinality(new) = Cardinality(old) + 1
      BY <2>4, <3>1, FS_AddElement
    <3>3. longer.latency_hist[b] = hist[b] + 1 /\ hist[b] = runtimes[c].latency_hist[b]
      BY <1>4, <1>6, <1>7, <1>9, <2>5
    <3> QED
      BY <1>11, <2>2, <2>4, <2>5, <3>2, <3>3
  <2>6. CASE ~ (c = r.core /\ b = bucket)
    <3>1. new = old
      BY <1>1, <1>2, <1>3, <2>1, <2>2, <2>3, <2>6
    <3>2. runtimes'[c].latency_hist[b] = runtimes[c].latency_hist[b]
      <4>1. CASE c = r.core
        BY <1>6, <1>7, <1>9, <1>11, <2>6, <4>1
      <4>2. CASE c # r.core
        BY <1>11, <4>2
      <4> QED
        BY <4>1, <4>2
    <3> QED
      BY <2>2, <2>4, <3>1, <3>2
  <2> QED
    BY <2>5, <2>6
<1>13. PICK most \in Nat : most = totals.latency_max
  BY DEF StatInv, Totals
<1>14. most <= totals'.latency_max /\ l <= totals'.latency_max /\ totals'.latency_max \in Nat
  BY <1>10, <1>13, LaterIs
<1>15. /\ acc.latency_max \in Nat /\ longer.latency_max \in Nat
       /\ acc.latency_max <= longer.latency_max /\ l <= longer.latency_max
  <2>1. acc.latency_max \in Nat
    BY DEF CoreRuntime
  <2> QED
    BY <1>9, <2>1, LaterIs
<1>16. ASSUME NEW k \in DOMAIN finished'
       PROVE  /\ Latency(finished'[k]) <= totals'.latency_max
              /\ Latency(finished'[k]) <= runtimes'[finished'[k].core].latency_max
  <2>1. CASE k = n + 1
    BY <1>1, <1>2, <1>11, <1>14, <1>15, <2>1
  <2>2. CASE k \in DOMAIN finished
    <3>1. finished'[k] = finished[k] /\ finished[k] \in Result
      BY <1>1, <2>2
    <3>2. PICK q : q = finished[k]
      OBVIOUS
    <3>3. q.core \in Cores /\ Latency(q) \in Int
      BY <3>1, <3>2, SMTT(30) DEF Result, Latency
    <3>4. Latency(q) <= most /\ Latency(q) <= runtimes[q.core].latency_max
      BY <1>13, <2>2, <3>2 DEF LatencyInv
    <3>5. Latency(q) <= totals'.latency_max
      BY <1>14, <3>3, <3>4
    <3>6. CASE q.core = r.core
      <4>1. Latency(q) <= longer.latency_max
        BY <1>6, <1>15, <3>3, <3>4, <3>6
      <4> QED
        BY <1>11, <3>1, <3>2, <3>5, <3>6, <4>1
    <3>7. CASE q.core # r.core
      BY <1>11, <3>1, <3>2, <3>3, <3>4, <3>5, <3>7
    <3> QED
      BY <3>6, <3>7
  <2> QED
    BY <1>1, <2>1, <2>2
<1> QED
  BY <1>12, <1>16 DEF LatencyInv

LEMMA LatencyInvStep ==
  ASSUME LoopInv, TimeInv, StatInv, LatencyInv, [Next]_vars
  PROVE  LatencyInv'
<1>1. CASE RecordsNone
  BY <1>1 DEF RecordsNone, LatencyInv, InBucket, ResultsOn
<1> QED
  BY <1>1, StepRecords, LatencyInvRecords

(* A histogram with one more observation counts one more. *)
LEMMA CountedCounts ==
  ASSUME NEW hist, NEW key, NEW K, IsFiniteSet(K), CountsBy(hist, key, K),
         \A b \in DOMAIN hist : \E i \in K : key[i] = b,
         NEW m, m \notin K, NEW v \in Nat, NEW longer, longer[m] = v, \A k \in K : longer[k] = key[k]
  PROVE  /\ CountsBy(Counted(hist, v), longer, K \cup {m})
         /\ \A b \in DOMAIN Counted(hist, v) : \E i \in K \cup {m} : longer[i] = b
<1>1. PICK new : new = Counted(hist, v)
  OBVIOUS
<1>2. /\ DOMAIN new = DOMAIN hist \cup {v}
      /\ \A u \in DOMAIN new : new[u] = (IF u \in DOMAIN hist THEN hist[u] ELSE 0) + (IF u = v THEN 1 ELSE 0)
  BY <1>1 DEF Counted
<1>3. /\ IsFiniteSet(DOMAIN hist) /\ DOMAIN hist \subseteq Nat
      /\ \A k \in K : key[k] \in DOMAIN hist
      /\ \A u \in DOMAIN hist : hist[u] = Cardinality(With(key, K, u))
  BY DEF CountsBy
<1>4. IsFiniteSet(DOMAIN new) /\ DOMAIN new \subseteq Nat
  BY <1>2, <1>3, FS_AddElement
<1>5. \A k \in K \cup {m} : longer[k] \in DOMAIN new
  BY <1>2, <1>3
<1>6. ASSUME NEW u \in DOMAIN new PROVE new[u] = Cardinality(With(longer, K \cup {m}, u))
  <2>1. PICK old, all : old = With(key, K, u) /\ all = With(longer, K \cup {m}, u)
    OBVIOUS
  <2>2. IsFiniteSet(old) /\ m \notin old /\ old \subseteq K
    <3>1. old \subseteq K
      BY <2>1 DEF With
    <3> QED
      BY <3>1, FS_Subset
  <2>3. PICK n \in Nat : n = Cardinality(old)
    BY <2>2, FS_CardinalityType
  <2>4. (IF u \in DOMAIN hist THEN hist[u] ELSE 0) = n
    <3>1. CASE u \in DOMAIN hist
      BY <1>3, <2>1, <2>3, <3>1
    <3>2. CASE u \notin DOMAIN hist
      <4>1. old = {}
        BY <1>3, <2>1, <3>2 DEF With
      <4> QED
        BY <2>3, <3>2, <4>1, FS_EmptySet
    <3> QED
      BY <3>1, <3>2
  <2>5. CASE u = v
    <3>1. all = old \cup {m}
      BY <2>1, <2>5 DEF With
    <3>2. Cardinality(all) = n + 1
      BY <2>2, <2>3, <3>1, FS_AddElement
    <3> QED
      BY <1>2, <2>1, <2>4, <2>5, <3>2
  <2>6. CASE u # v
    <3>1. all = old
      BY <2>1, <2>6 DEF With
    <3>2. new[u] = n
      BY <1>2, <2>4, <2>6
    <3> QED
      BY <2>1, <2>3, <3>1, <3>2
  <2> QED
    BY <2>5, <2>6
<1>7. \A b \in DOMAIN new : \E i \in K \cup {m} : longer[i] = b
  BY <1>2
<1> QED
  BY <1>1, <1>4, <1>5, <1>6, <1>7 DEF CountsBy

LEMMA BurstNat ==
  ASSUME NEW txn \in Txns
  PROVE  BurstBytes(txn) \in Nat
<1>1. txn.size_bytes \in Nat /\ txn.len_beats \in Nat
  BY FrontEndAssumption
<1>2. txn.size_bytes * txn.len_beats \in Nat
  BY <1>1, ProductNat
<1> QED
  BY <1>1, <1>2 DEF BurstBytes

LEMMA PushedFinite ==
  ASSUME LoopInv
  PROVE  IsFiniteSet(Pushed) /\ Pushed \subseteq DOMAIN calls
<1>1. DOMAIN calls = 1 .. Len(calls) /\ Len(calls) \in Nat
  BY LenProperties DEF LoopInv, LoopTypeOK
<1>2. IsFiniteSet(DOMAIN calls) /\ Pushed \subseteq DOMAIN calls
  BY <1>1, FS_Interval DEF Pushed
<1> QED
  BY <1>2, FS_Subset

LEMMA BurstInvPushes ==
  ASSUME LoopInv, StatInv, BurstInv, NEW core \in Cores, NEW axi \in AxiIds, NEW txn \in Txns,
         PushTxn(core, axi, txn)
  PROVE  BurstInv'
<1>1. PICK size \in Nat : size = BurstBytes(txn)
  BY BurstNat
<1>2. PICK call : /\ calls' = Append(calls, call)
                  /\ call = [kind |-> "txn", core |-> core, axi |-> axi, txn_id |-> NumPushed + 1, txn |-> txn]
  BY DEF PushTxn, NumPushed, Pushed
<1>3. call \in CallRecord /\ call.kind = "txn" /\ call.core = core /\ call.txn = txn
  <2>1. NumPushed \in Nat
    BY PushedFinite, FS_CardinalityType DEF NumPushed
  <2> QED
    BY <1>2, <2>1 DEF CallRecord
<1>4. PICK m : /\ m \notin DOMAIN calls /\ \A i \in DOMAIN calls : calls'[i] = calls[i]
               /\ calls'[m] = call /\ Pushed' = Pushed \cup {m}
  BY <1>2, <1>3, PushedAppend
<1>5. \A i \in Pushed : calls'[i] = calls[i]
  BY <1>4, SMTT(30) DEF Pushed
<1>6. /\ bursts' = [bursts EXCEPT ![core] = Counted(bursts[core], size)] /\ DOMAIN bursts = Cores
  BY <1>1 DEF PushTxn, StatInv
<1>7. ASSUME NEW c \in Cores
      PROVE  CountsBy(bursts'[c], SizesOf(c)', PushedBy(c)')
             /\ \A b \in DOMAIN bursts'[c] : \E i \in PushedBy(c)' : SizesOf(c)'[i] = b
  <2>1. PICK K, key, hist : K = PushedBy(c) /\ key = SizesOf(c) /\ hist = bursts[c]
    OBVIOUS
  <2>2. PICK all, longer : all = PushedBy(c)' /\ longer = SizesOf(c)'
    OBVIOUS
  <2>3. /\ K = {i \in Pushed : calls[i].core = c} /\ key = [i \in K |-> BurstBytes(calls[i].txn)]
        /\ all = {i \in Pushed' : calls'[i].core = c} /\ longer = [i \in all |-> BurstBytes(calls'[i].txn)]
    BY <2>1, <2>2 DEF PushedBy, SizesOf
  <2>4. CountsBy(hist, key, K) /\ \A b \in DOMAIN hist : \E i \in K : key[i] = b
    BY <2>1 DEF BurstInv
  <2>5. CASE c = core
    <3>1. all = K \cup {m} /\ m \notin K /\ IsFiniteSet(K)
      <4>1. all = K \cup {m} /\ m \notin K /\ K \subseteq Pushed
        BY <1>3, <1>4, <1>5, <2>3, <2>5 DEF Pushed
      <4> QED
        BY <4>1, PushedFinite, FS_Subset
    <3>2. longer[m] = size /\ \A i \in K : longer[i] = key[i]
      BY <1>1, <1>3, <1>4, <1>5, <2>3, <3>1
    <3>3. bursts'[c] = Counted(hist, size)
      BY <1>6, <2>1, <2>5
    <3>4. /\ CountsBy(Counted(hist, size), longer, K \cup {m})
          /\ \A b \in DOMAIN Counted(hist, size) : \E i \in K \cup {m} : longer[i] = b
      BY <2>4, <3>1, <3>2, CountedCounts
    <3> QED
      BY <2>2, <3>1, <3>3, <3>4
  <2>6. CASE c # core
    <3>1. all = K
      BY <1>3, <1>4, <1>5, <2>3, <2>6
    <3>2. longer = key
      BY <1>5, <2>3, <3>1
    <3>3. bursts'[c] = hist
      BY <1>6, <2>1, <2>6
    <3> QED
      BY <2>2, <2>4, <3>1, <3>2, <3>3
  <2> QED
    BY <2>5, <2>6
<1> QED
  BY <1>7 DEF BurstInv

LEMMA BurstInvStep ==
  ASSUME LoopInv, StatInv, BurstInv, [Next]_vars
  PROVE  BurstInv'
<1>1. CASE \E core \in Cores, axi \in AxiIds, txn \in Txns : PushTxn(core, axi, txn)
  BY <1>1, BurstInvPushes
<1>2. CASE \A core \in Cores, axi \in AxiIds, txn \in Txns : ~ PushTxn(core, axi, txn)
  <2>1. bursts' = bursts
    BY <1>2, BurstsSame
  <2>2. \/ calls' = calls
        \/ \E id \in Nat : calls' = Append(calls, [kind |-> "prune", txn_id |-> id])
        \/ \E core \in Cores : calls' = Append(calls, [kind |-> "barrier", core |-> core])
    <3>1. ASSUME NEW k \in DOMAIN results, PruneResultsBefore(results[k].txn_id)
          PROVE  \E id \in Nat : calls' = Append(calls, [kind |-> "prune", txn_id |-> id])
      <4>1. results[k] \in Result
        BY LenProperties, ElementOfSeq DEF LoopInv, LoopTypeOK
      <4> QED
        BY <3>1, <4>1 DEF PruneResultsBefore, Result
    <3> QED
      BY <1>2, <3>1, SeenCases DEF PushBarrier, Adds, Return, ReturnFromRun
  <2>3. Pushed' = Pushed /\ \A i \in Pushed : calls'[i] = calls[i]
    BY <2>2, PushedSame
  <2>4. ASSUME NEW c PROVE PushedBy(c)' = PushedBy(c) /\ SizesOf(c)' = SizesOf(c)
    <3>1. PushedBy(c)' = PushedBy(c)
      BY <2>3 DEF PushedBy
    <3>2. \A i \in PushedBy(c) : calls'[i] = calls[i]
      BY <2>3 DEF PushedBy
    <3> QED
      BY <3>1, <3>2 DEF SizesOf
  <2> QED
    BY <2>1, <2>4 DEF BurstInv
<1> QED
  BY <1>1, <1>2

LEMMA ReportInvStep ==
  ASSUME LoopInv, TimeInv, ReportInv, [Next]_vars
  PROVE  ReportInv'
<1> SUFFICES ASSUME ~ running', finished' # <<>>, NEW p \in Percentiles
             PROVE  summary'.latency_percentile2[p] = LatencyPercentile2(AllLatencies', totals'.latency_max, p)
  BY DEF ReportInv
<1>1. finished' = finished /\ totals' = totals /\ runtimes' = runtimes
  BY StepRecords DEF RecordsNone, Records
<1>2. AllLatencies' = AllLatencies
  BY <1>1 DEF AllLatencies
<1>3. CASE running
  <2>1. Next
    BY <1>3 DEF vars, frontVars, controlVars
  <2>2. summary' = Summary(ChannelReport)
    BY <1>3, <2>1, SummaryIsMade
  <2> QED
    BY <1>1, <1>2, <2>2 DEF Summary
<1>4. CASE ~ running
  <2>1. summary' = summary
    BY <1>4, SummaryIsMade DEF vars, frontVars, statisticVars
  <2> QED
    BY <1>1, <1>2, <1>4, <2>1 DEF ReportInv
<1> QED
  BY <1>3, <1>4

(* A transaction takes at least a cycle: it was served after it issued. *)
LEMMA LatencyPositive ==
  ASSUME LoopInv, ServedInv, NEW k \in DOMAIN finished
  PROVE  Latency(finished[k]) \in Nat \ {0}
<1>1. PICK r : r = finished[k]
  OBVIOUS
<1>2. r \in Result
  BY <1>1, FinishedFinite
<1>3. PICK txn \in Txns : ServedAll(ServedLog, r, txn)
  BY <1>1 DEF ServedInv, ChunkInv, WasServed
<1>4. NumChunks(txn) \in Nat \ {0}
  BY ChunkFacts
<1>5. PICK x : x \in ServedOf(ServedLog, r.txn_id)
  <2>1. Cardinality(ServedOf(ServedLog, r.txn_id)) # 0
    BY <1>3, <1>4 DEF ServedAll, HasServed
  <2> QED
    BY <2>1, FS_EmptySet
<1>6. PICK end : end = ServedLog[x].complete
  OBVIOUS
<1>7. end \in Nat /\ r.issue < end /\ end <= r.complete
  BY <1>3, <1>5, <1>6, LogIsTyped DEF ServedAll, InTime, LogTyped, ServedOf
<1> QED
  BY <1>1, <1>2, <1>7 DEF Latency, Result

LatenciesOf(K) == [k \in K |-> Latency(finished[k])]
BucketsOf(K) == [k \in K |-> LatencyBucket(Latency(finished[k]))]

LEMMA TrueLatency ==
  ASSUME NEW K, NEW pct
  PROVE  TruePercentile(K, LAMBDA k : Latency(finished[k]), pct) = PercentileOf(LatenciesOf(K), K, pct)
<1>1. PICK f : f = LatenciesOf(K)
  OBVIOUS
<1>2. \A k \in K : f[k] = Latency(finished[k])
  BY <1>1 DEF LatenciesOf
<1>3. \A j \in K : {i \in K : Latency(finished[i]) <= Latency(finished[j])} = AtMost(f, K, f[j])
  BY <1>2 DEF AtMost
<1>4. {Latency(finished[k]) : k \in {j \in K :
         100 * Cardinality({i \in K : Latency(finished[i]) <= Latency(finished[j])}) >= pct * Cardinality(K)}}
      = {f[k] : k \in {j \in K : 100 * Cardinality(AtMost(f, K, f[j])) >= pct * Cardinality(K)}}
  BY <1>2, <1>3
<1>5. TruePercentile(K, LAMBDA k : Latency(finished[k]), pct)
      = Min({Latency(finished[k]) : k \in {j \in K :
         100 * Cardinality({i \in K : Latency(finished[i]) <= Latency(finished[j])}) >= pct * Cardinality(K)}})
  BY Zenon DEF TruePercentile
<1> QED
  BY <1>1, <1>4, <1>5 DEF PercentileOf

LEMMA TrueSize ==
  ASSUME NEW core, NEW pct
  PROVE  TruePercentile({i \in Pushed : calls[i].core = core}, LAMBDA i : BurstBytes(calls[i].txn), pct)
           = PercentileOf(SizesOf(core), PushedBy(core), pct)
<1>0. PushedBy(core) = {i \in Pushed : calls[i].core = core}
  BY DEF PushedBy
<1>1. PICK f, K : f = SizesOf(core) /\ K = {i \in Pushed : calls[i].core = core} /\ K = PushedBy(core)
  BY <1>0
<1>2. \A k \in K : f[k] = BurstBytes(calls[k].txn)
  BY <1>1 DEF SizesOf
<1>3. \A j \in K : {i \in K : BurstBytes(calls[i].txn) <= BurstBytes(calls[j].txn)} = AtMost(f, K, f[j])
  BY <1>2 DEF AtMost
<1>4. {BurstBytes(calls[k].txn) : k \in {j \in K :
         100 * Cardinality({i \in K : BurstBytes(calls[i].txn) <= BurstBytes(calls[j].txn)}) >= pct * Cardinality(K)}}
      = {f[k] : k \in {j \in K : 100 * Cardinality(AtMost(f, K, f[j])) >= pct * Cardinality(K)}}
  BY <1>2, <1>3
<1>5. TruePercentile({i \in Pushed : calls[i].core = core}, LAMBDA i : BurstBytes(calls[i].txn), pct)
      = Min({BurstBytes(calls[k].txn) : k \in {j \in K :
         100 * Cardinality({i \in K : BurstBytes(calls[i].txn) <= BurstBytes(calls[j].txn)}) >= pct * Cardinality(K)}})
  BY <1>1 DEF TruePercentile
<1> QED
  BY <1>1, <1>4, <1>5 DEF PercentileOf

LEMMA LatenciesObserved ==
  ASSUME LoopInv, ServedInv, NEW K \in SUBSET DOMAIN finished, K # {}
  PROVE  /\ Observed(LatenciesOf(K), K) /\ \A k \in K : LatenciesOf(K)[k] # 0
         /\ \A k \in K : BucketsOf(K)[k] = LatencyBucket(LatenciesOf(K)[k])
         /\ \A k \in K : BucketsOf(K)[k] \in 0 .. LatencyBuckets - 1
<1>1. IsFiniteSet(K)
  BY FinishedFinite, FS_Subset
<1>2. \A k \in K : LatenciesOf(K)[k] = Latency(finished[k]) /\ LatenciesOf(K)[k] \in Nat \ {0}
  BY LatencyPositive DEF LatenciesOf
<1>3. \A k \in K : BucketsOf(K)[k] = LatencyBucket(LatenciesOf(K)[k])
  BY <1>2 DEF BucketsOf
<1>4. \A k \in K : BucketsOf(K)[k] \in 0 .. LatencyBuckets - 1
  BY <1>2, <1>3, BucketIs
<1> QED
  BY <1>1, <1>2, <1>3, <1>4 DEF Observed

LEMMA BucketRange == IsFiniteSet(0 .. LatencyBuckets - 1) /\ 0 .. LatencyBuckets - 1 \subseteq Nat
BY BucketsAssumption, FS_Interval

(* The engine's percentiles. *)
LEMMA CoreIsAccurate ==
  ASSUME LoopInv, StatInv, ServedInv, LatencyInv, NEW core \in Cores, NEW pct \in 1 .. 100,
         NEW K, K = ResultsOn(core), K # {},
         NEW exact, exact = PercentileOf(LatenciesOf(K), K, pct), exact * exact < 2 ^ LatencyBuckets,
         NEW reported,
         reported = LatencyPercentile2(runtimes[core].latency_hist, runtimes[core].latency_max, pct)
  PROVE  exact * exact <= reported /\ reported <= 2 * (exact * exact)
<1>1. PICK acc \in CoreRuntime : acc = runtimes[core]
  BY DEF StatInv
<1>2. PICK hist \in [0 .. LatencyBuckets - 1 -> Nat], greatest \in Nat :
        hist = acc.latency_hist /\ greatest = acc.latency_max
  BY DEF CoreRuntime
<1>3. PICK value, key : value = LatenciesOf(K) /\ key = BucketsOf(K)
  OBVIOUS
<1>4. K \in SUBSET DOMAIN finished
  BY DEF ResultsOn
<1>5. /\ Observed(value, K) /\ \A k \in K : value[k] # 0
      /\ \A k \in K : key[k] = LatencyBucket(value[k])
      /\ \A k \in K : key[k] \in 0 .. LatencyBuckets - 1
  BY <1>3, <1>4, LatenciesObserved
<1>6. CountsBy(hist, key, K)
  <2>1. ASSUME NEW b \in 0 .. LatencyBuckets - 1 PROVE hist[b] = Cardinality(With(key, K, b))
    <3>1. With(key, K, b) = InBucket(core, b)
      BY <1>3 DEF InBucket, BucketsOf, With
    <3> QED
      BY <1>1, <1>2, <3>1 DEF LatencyInv
  <2> QED
    BY <1>5, <2>1, BucketRange DEF CountsBy
<1>7. \A k \in K : value[k] <= greatest
  BY <1>1, <1>2, <1>3 DEF LatencyInv, LatenciesOf, ResultsOn
<1>8. reported = LatencyPercentile2(hist, greatest, pct) /\ exact = PercentileOf(value, K, pct)
  BY <1>1, <1>2, <1>3
<1>9. Bucketed(hist, value, key, K, greatest)
  BY <1>5, <1>6, <1>7 DEF Bucketed
<1>10. exact = PercentileOf(value, K, pct)
  BY <1>8
<1>11. /\ exact * exact <= LatencyPercentile2(hist, greatest, pct)
       /\ LatencyPercentile2(hist, greatest, pct) <= 2 * (exact * exact)
  BY <1>9, <1>10, ReportedIsNear
<1> QED
  BY <1>8, <1>11

LEMMA AllLatenciesCount ==
  ASSUME LoopInv, LatencyInv, NEW K, K = DOMAIN finished, NEW b \in 0 .. LatencyBuckets - 1
  PROVE  AllLatencies[b] = Cardinality(With(BucketsOf(K), K, b))
<1>1. PICK in : in = With(BucketsOf(K), K, b)
  OBVIOUS
<1>2. in = {k \in DOMAIN finished : LatencyBucket(Latency(finished[k])) = b}
  BY <1>1 DEF BucketsOf, With
<1>3. PICK on, terms : /\ on = [k \in in |-> finished[k].core]
                       /\ terms = [c \in Cores |-> runtimes[c].latency_hist[b]]
  OBVIOUS
<1>4. \A c \in Cores : terms[c] = Cardinality(With(on, in, c))
  <2> TAKE c \in Cores
  <2>1. With(on, in, c) = InBucket(c, b)
    BY <1>2, <1>3 DEF InBucket, ResultsOn, With
  <2> QED
    BY <1>3, <2>1 DEF LatencyInv
<1>5. IsFiniteSet(in) /\ IsFiniteSet(Cores)
  BY <1>2, FinishedFinite, FS_Subset, FrontEndAssumption
<1>6. SumOn(terms, Cores) = Cardinality(Within(on, in, Cores))
  BY <1>4, <1>5, SumCounts
<1>7. Within(on, in, Cores) = in
  BY <1>2, <1>3, FinishedFinite DEF Result, Within
<1>8. DOMAIN terms = Cores
  BY <1>3
<1>9. SumOf(terms) = SumOn(terms, Cores)
  BY <1>8, Zenon DEF SumOf, FoldFunction, SumOn
<1>10. AllLatencies[b] = SumOf(terms)
  BY <1>3 DEF AllLatencies
<1> QED
  BY <1>1, <1>6, <1>7, <1>9, <1>10

LEMMA AllAreAccurate ==
  ASSUME LoopInv, StatInv, ServedInv, LatencyInv, NEW pct \in 1 .. 100,
         NEW K, K = DOMAIN finished, K # {},
         NEW exact, exact = PercentileOf(LatenciesOf(K), K, pct), exact * exact < 2 ^ LatencyBuckets,
         NEW reported, reported = LatencyPercentile2(AllLatencies, totals.latency_max, pct)
  PROVE  exact * exact <= reported /\ reported <= 2 * (exact * exact)
<1>1. PICK greatest \in Nat : greatest = totals.latency_max
  BY DEF StatInv, Totals
<1>2. PICK hist : hist = AllLatencies
  OBVIOUS
<1>3. PICK value, key : value = LatenciesOf(K) /\ key = BucketsOf(K)
  OBVIOUS
<1>5. /\ Observed(value, K) /\ \A k \in K : value[k] # 0
      /\ \A k \in K : key[k] = LatencyBucket(value[k])
      /\ \A k \in K : key[k] \in 0 .. LatencyBuckets - 1
  BY <1>3, LatenciesObserved
<1>6. CountsBy(hist, key, K)
  <2>1. \A b \in 0 .. LatencyBuckets - 1 : hist[b] = Cardinality(With(key, K, b))
    BY <1>2, <1>3, AllLatenciesCount
  <2>2. DOMAIN hist = 0 .. LatencyBuckets - 1
    BY <1>2 DEF AllLatencies
  <2> QED
    BY <1>5, <2>1, <2>2, BucketRange DEF CountsBy
<1>7. \A k \in K : value[k] <= greatest
  BY <1>1, <1>3 DEF LatencyInv, LatenciesOf
<1>8. reported = LatencyPercentile2(hist, greatest, pct) /\ exact = PercentileOf(value, K, pct)
  BY <1>1, <1>2, <1>3
<1>9. Bucketed(hist, value, key, K, greatest)
  <2>1. greatest \in Nat
    OBVIOUS
  <2> QED
    BY <1>5, <1>6, <1>7, <2>1 DEF Bucketed
<1>10. exact = PercentileOf(value, K, pct)
  BY <1>8
<1>11. /\ exact * exact <= LatencyPercentile2(hist, greatest, pct)
       /\ LatencyPercentile2(hist, greatest, pct) <= 2 * (exact * exact)
  BY <1>9, <1>10, ReportedIsNear
<1> QED
  BY <1>8, <1>11

LEMMA SizesAreExact ==
  ASSUME LoopInv, BurstInv, NEW core \in Cores, PushedBy(core) # {}, NEW pct \in 1 .. 100
  PROVE  NearestRank(bursts[core], pct) = PercentileOf(SizesOf(core), PushedBy(core), pct)
<1>1. PICK hist, key, K : hist = bursts[core] /\ key = SizesOf(core) /\ K = PushedBy(core)
  OBVIOUS
<1>2. CountsBy(hist, key, K)
  BY <1>1 DEF BurstInv
<1>3. IsFiniteSet(K)
  BY <1>1, PushedFinite, FS_Subset DEF PushedBy
<1>4. Observed(key, K)
  <2>1. \A k \in K : key[k] \in Nat
    BY <1>2 DEF CountsBy
  <2> QED
    BY <1>1, <1>3, <2>1 DEF Observed
<1>5. Follows(key, key, K)
  BY DEF Follows
<1>6. /\ SumOf(hist) # 0
      /\ \E j \in K : key[j] = PercentileOf(key, K, pct) /\ KeyAtRank(hist, Rank(SumOf(hist), pct)) = key[j]
  BY <1>2, <1>4, <1>5, RankedKey
<1>7. NearestRank(hist, pct) = PercentileOf(key, K, pct)
  BY <1>6 DEF NearestRank
<1> QED
  BY <1>1, <1>7

LEMMA InitHistograms == Init => LatencyInv /\ BurstInv /\ ReportInv
<1> SUFFICES ASSUME Init PROVE LatencyInv /\ BurstInv /\ ReportInv
  OBVIOUS
<1>1. finished = <<>> /\ calls = <<>> /\ DOMAIN finished = {} /\ DOMAIN calls = {}
  BY DEF Init, FrontInit
<1>2. Cardinality({}) = 0 /\ IsFiniteSet({})
  BY FS_EmptySet
<1>3. LatencyInv
  <2>1. ASSUME NEW c \in Cores, NEW b \in 0 .. LatencyBuckets - 1
        PROVE  runtimes[c].latency_hist[b] = Cardinality(InBucket(c, b))
    <3>1. InBucket(c, b) = {}
      BY <1>1 DEF InBucket, ResultsOn
    <3>2. runtimes[c].latency_hist[b] = 0
      BY DEF Init, FrontInit, NoRuntime, NoLatencies
    <3> QED
      BY <1>2, <3>1, <3>2
  <2> QED
    BY <1>1, <2>1 DEF LatencyInv
<1>4. BurstInv
  <2>1. ASSUME NEW c \in Cores PROVE DOMAIN bursts[c] = {} /\ PushedBy(c) = {}
    BY <1>1 DEF Init, FrontInit, PushedBy, Pushed
  <2> QED
    BY <1>2, <2>1 DEF BurstInv, CountsBy
<1> QED
  BY <1>1, <1>3, <1>4 DEF ReportInv

LEMMA AlwaysCounted ==
  Spec => [](OrderInv /\ StatInv /\ ServedInv /\ LatencyInv /\ BurstInv /\ ReportInv)
<1>1. OrderInv /\ TimeInv /\ StatInv /\ LatencyInv /\ BurstInv /\ ReportInv /\ [Next]_vars
        => (LatencyInv /\ BurstInv /\ ReportInv)'
  BY LatencyInvStep, BurstInvStep, ReportInvStep DEF OrderInv
<1>2. Init => LatencyInv /\ BurstInv /\ ReportInv
  BY InitHistograms
<1> QED
  BY <1>1, <1>2, AlwaysTyped, AlwaysServed, PTL DEF Spec

(* A latency reported for a percentile is never below the true percentile of the
   transactions it is about, nor more than half an octave above it, unless it
   lies beyond the last bucket; burst sizes are reported exactly
   (PercentilesAccurate; Engine::compute_summary, latency_percentile_from_histogram). *)
THEOREM PercentilesAreAccurate == Spec => []PercentilesAccurate
<1>1. LoopInv /\ StatInv /\ ServedInv /\ LatencyInv /\ BurstInv /\ ReportInv => PercentilesAccurate
  <2> SUFFICES ASSUME LoopInv, StatInv, ServedInv, LatencyInv, BurstInv, ReportInv, ~ running
               PROVE  PercentilesAccurate
    BY DEF PercentilesAccurate
  <2> DEFINE accurate(reported2, K, pct) ==
               LET exact == TruePercentile(K, LAMBDA k : Latency(finished[k]), pct)
                   true2 == exact * exact
               IN  true2 < 2 ^ LatencyBuckets => true2 <= reported2 /\ reported2 <= 2 * true2
  <2>1. ASSUME finished # <<>>, NEW p \in Percentiles
        PROVE  accurate(summary.latency_percentile2[p], DOMAIN finished, p)
    <3>1. DOMAIN finished # {}
      <4>1. finished \in Seq(Result)
        BY DEF LoopInv, LoopTypeOK
      <4>2. Len(finished) \in Nat \ {0} /\ DOMAIN finished = 1 .. Len(finished)
        BY <2>1, <4>1, EmptySeq, LenProperties
      <4>3. PICK n \in Nat \ {0} : DOMAIN finished = 1 .. n
        BY <4>2
      <4> QED
        BY <4>3, SMTT(30)
    <3>2. PICK exact : exact = PercentileOf(LatenciesOf(DOMAIN finished), DOMAIN finished, p)
      OBVIOUS
    <3>3. PICK reported : reported = LatencyPercentile2(AllLatencies, totals.latency_max, p)
      OBVIOUS
    <3>4. p \in 1 .. 100
      BY DEF Percentiles
    <3>5. exact * exact < 2 ^ LatencyBuckets => exact * exact <= reported /\ reported <= 2 * (exact * exact)
      BY <3>1, <3>2, <3>3, <3>4, AllAreAccurate
    <3>6. TruePercentile(DOMAIN finished, LAMBDA k : Latency(finished[k]), p) = exact
      BY <3>2, TrueLatency
    <3>7. summary.latency_percentile2[p] = reported
      BY <2>1, <3>3 DEF ReportInv
    <3> QED
      BY <3>5, <3>6, <3>7
  <2>2. ASSUME NEW core \in Cores, NEW own, own = {k \in DOMAIN finished : finished[k].core = core}, own # {},
               NEW p \in {50, 95}
        PROVE  accurate(LatencyPercentile2(runtimes[core].latency_hist, runtimes[core].latency_max, p), own, p)
    <3>1. own = ResultsOn(core) /\ p \in 1 .. 100
      BY <2>2 DEF ResultsOn
    <3>2. PICK exact : exact = PercentileOf(LatenciesOf(own), own, p)
      OBVIOUS
    <3>3. PICK reported :
            reported = LatencyPercentile2(runtimes[core].latency_hist, runtimes[core].latency_max, p)
      OBVIOUS
    <3>4. exact * exact < 2 ^ LatencyBuckets => exact * exact <= reported /\ reported <= 2 * (exact * exact)
      BY <2>2, <3>1, <3>2, <3>3, CoreIsAccurate
    <3>5. TruePercentile(own, LAMBDA k : Latency(finished[k]), p) = exact
      BY <3>2, TrueLatency
    <3> QED
      BY <3>3, <3>4, <3>5
  <2>3. ASSUME NEW core \in Cores, {i \in Pushed : calls[i].core = core} # {}, NEW p \in {25, 50, 75}
        PROVE  NearestRank(bursts[core], p)
                 = TruePercentile({i \in Pushed : calls[i].core = core}, LAMBDA i : BurstBytes(calls[i].txn), p)
    <3>1. PushedBy(core) # {} /\ p \in 1 .. 100
      BY <2>3 DEF PushedBy
    <3>2. NearestRank(bursts[core], p) = PercentileOf(SizesOf(core), PushedBy(core), p)
      BY <2>3, <3>1, SizesAreExact
    <3>3. TruePercentile({i \in Pushed : calls[i].core = core}, LAMBDA i : BurstBytes(calls[i].txn), p)
            = PercentileOf(SizesOf(core), PushedBy(core), p)
      BY TrueSize
    <3> QED
      BY <3>2, <3>3
  <2>4. finished # <<>> =>
          \A p \in Percentiles : accurate(summary.latency_percentile2[p], DOMAIN finished, p)
    BY <2>1
  <2>5. \A core \in Cores :
          {k \in DOMAIN finished : finished[k].core = core} # {} => \A p \in {50, 95} :
            accurate(LatencyPercentile2(runtimes[core].latency_hist, runtimes[core].latency_max, p),
                     {k \in DOMAIN finished : finished[k].core = core}, p)
    BY <2>2, ZenonT(40)
  <2> QED
    BY <2>3, <2>4, <2>5, Zenon DEF PercentilesAccurate
<1> QED
  BY <1>1, AlwaysCounted, PTL DEF OrderInv

-----------------------------------------------------------------------------
(***************************************************************************)
(* The history windows.  The occupancy noted as a transaction ends is what *)
(* its stream had in flight when it issued: nothing in service issued      *)
(* before all that is still outstanding in front of it ended.              *)
(***************************************************************************)
LiveInv == \A s \in Serving : \A o \in cursors[s].outstanding :
             o.complete > cursors[s].in_progress.issue_cycle

LEMMA LiveFrame ==
  ASSUME LiveInv, NEW s \in Serving,
         cursors'[s].outstanding = cursors[s].outstanding,
         cursors'[s].in_progress.issue_cycle = cursors[s].in_progress.issue_cycle
  PROVE  \A o \in cursors'[s].outstanding : o.complete > cursors'[s].in_progress.issue_cycle
BY DEF LiveInv

LEMMA LiveInvStep ==
  ASSUME LoopInv, SegInv, LiveInv, [Next]_vars
  PROVE  LiveInv'
<1>0. Serving \subseteq DOMAIN cursors
  BY DEF Serving
<1>1. ASSUME Serving' \subseteq Serving,
             \A s \in Serving' :
               /\ cursors'[s].outstanding = cursors[s].outstanding
               /\ cursors'[s].in_progress.issue_cycle = cursors[s].in_progress.issue_cycle
      PROVE  LiveInv'
  BY <1>1, LiveFrame DEF LiveInv
<1>2. ASSUME NEW s \in Streams, NEW entry \in Entry, StepPushes(s, entry) PROVE LiveInv'
  BY <1>0, <1>1, <1>2 DEF StepPushes, SameTimes, CursorBefore
<1>3. ASSUME NEW core \in Cores, StepBars(core) PROVE LiveInv'
  BY <1>0, <1>1, <1>3 DEF StepBars, PushBarrier
<1>4. ASSUME NEW s \in DOMAIN cursors, NEW issue \in Nat, StepIssues(s, issue) PROVE LiveInv'
  <2> SUFFICES ASSUME NEW t \in Serving', NEW o \in cursors'[t].outstanding
               PROVE  o.complete > cursors'[t].in_progress.issue_cycle
    BY DEF LiveInv
  <2>1. CASE t = s
    <3>1. o \in StillOutstanding(cursors[s].outstanding, issue) /\ cursors'[s].in_progress.issue_cycle = issue
      BY <1>4, <2>1 DEF StepIssues
    <3> QED
      BY <2>1, <3>1 DEF StillOutstanding
  <2>2. CASE t # s
    <3>1. t \in Serving /\ cursors'[t] = cursors[t]
      BY <1>0, <1>4, <2>2 DEF StepIssues
    <3> QED
      BY <3>1, LiveFrame
  <2> QED
    BY <2>1, <2>2
<1>5. ASSUME NEW s \in DOMAIN cursors, NEW complete \in Nat, NEW gate \in Nat, NEW ip, NEW opened,
             StepFinishes(s, ip, complete, gate, opened)
      PROVE  LiveInv'
  BY <1>0, <1>1, <1>5 DEF StepFinishes, SameTimes
<1>6. ASSUME StepSteady PROVE LiveInv'
  BY <1>0, <1>1, <1>6 DEF StepSteady, Advances
<1> QED
  BY <1>2, <1>3, <1>4, <1>5, <1>6, StepKinds

Occupancy(k) == Cardinality(InFlight(finished[k]))

Lasting == \A k \in DOMAIN finished : Latency(finished[k]) \in Nat \ {0}

LEMMA OccupancyNoted ==
  ASSUME LoopInv, SegInv, IdInv, TimeInv, CapInv, WaitInv, LiveInv, IdInv', Lasting',
         NEW s \in DOMAIN cursors, NEW complete \in Nat, NEW gate \in Nat,
         NEW ip, NEW opened, StepFinishes(s, ip, complete, gate, opened),
         NEW n \in Nat, NEW r \in Result, Reports(s, ip, complete, n, r)
  PROVE  /\ Cardinality(cursors'[s].outstanding) \in Nat
         /\ Occupancy(n + 1)' = Cardinality(cursors'[s].outstanding)
<1>1. /\ DOMAIN finished' = DOMAIN finished \cup {n + 1}
      /\ \A k \in DOMAIN finished : finished'[k] = finished[k]
      /\ finished'[n + 1] = r /\ OverIn(s)' = OverIn(s) \cup {n + 1}
      /\ r.core = CoreOf(s) /\ r.axi = AxiOf(s) /\ r.issue = ip.issue_cycle /\ r.complete = complete
      /\ r.txn_id = ip.txn_id
  BY DEF Reports
<1>2. PICK flight, out, f :
        /\ flight = InFlight(r)' /\ out = cursors'[s].outstanding
        /\ IsFiniteSet(out) /\ Cardinality(out) <= MaxOutstanding
        /\ f \in Injection(flight, out) /\ \A k \in flight : f[k] = TagOf(finished'[k])
  <2>1. r.core = CoreOf(s) /\ r.axi = AxiOf(s) /\ r.issue = ip.issue_cycle
    BY <1>1
  <2>2. TaggedApart(r, s)'
    BY <2>1, InFlightTagged
  <2> QED
    BY <2>2 DEF TaggedApart
<1>3. flight = {k \in DOMAIN finished' :
                  /\ finished'[k].core = r.core /\ finished'[k].axi = r.axi
                  /\ finished'[k].issue <= r.issue /\ r.issue < finished'[k].complete}
  BY <1>2 DEF InFlight
<1>4. r.issue \in Nat /\ r.complete \in Nat /\ r.issue < r.complete
  <2>1. n + 1 \in DOMAIN finished'
    BY <1>1
  <2>2. Latency(finished'[n + 1]) \in Nat \ {0}
    BY <2>1 DEF Lasting, Latency
  <2> QED
    BY <1>1, <2>2 DEF Latency, Result
<1>5. \A o \in out : o.complete > r.issue
  <2>1. out = cursors[s].outstanding \cup {[txn_id |-> ip.txn_id, complete |-> complete]}
    <3>1. /\ cursors[s].pending # <<>> /\ ip \in InProgress
          /\ cursors'[s] = Finished(cursors[s], ip, complete)
      BY DEF StepFinishes
    <3> QED
      BY <1>2, <3>1, StreamFacts, FinishedTyped
  <2>2. s \in Serving /\ ip.issue_cycle = cursors[s].in_progress.issue_cycle
    BY DEF StepFinishes
  <2>3. \A o \in cursors[s].outstanding : o.complete > r.issue
    BY <1>1, <2>2 DEF LiveInv
  <2>4. complete > r.issue
    BY <1>1, <1>4
  <2> QED
    BY <2>1, <2>3, <2>4
<1>6. ASSUME NEW o \in out PROVE \E k \in flight : o = TagOf(finished'[k])
  <2>1. Tagged(s)'
    BY TaggedFinishes DEF StepFinishes
  <2>2. PICK k \in OverIn(s)' : o = TagOf(finished'[k])
    BY <1>2, <2>1 DEF Tagged, TagOf
  <2>3. PICK q : q = finished'[k]
    OBVIOUS
  <2>4. k \in DOMAIN finished' /\ StreamOf(q) = s
    BY <2>2, <2>3 DEF OverIn, StreamOf
  <2>5. q.core = r.core /\ q.axi = r.axi
    BY <1>1, <2>4 DEF StreamOf, CoreOf, AxiOf
  <2>6. q.complete > r.issue
    BY <1>5, <2>2, <2>3 DEF TagOf
  <2>7. q.issue <= r.issue
    <3>1. CASE k = n + 1
      BY <1>1, <1>4, <2>3, <3>1
    <3>2. CASE k \in DOMAIN finished
      <4>1. q = finished[k]
        BY <1>1, <2>3, <3>2
      <4>2. q.issue \in Nat
        BY <3>2, <4>1, ResultFacts
      <4>3. SameId(q, s)
        BY <1>1, <2>5 DEF SameId
      <4>4. q.issue < ip.issue_cycle
        BY <3>2, <4>1, <4>3, EndTimes
      <4> QED
        BY <1>1, <1>4, <4>2, <4>4
    <3> QED
      BY <1>1, <2>4, <3>1, <3>2
  <2>8. r.issue < q.complete
    BY <2>6
  <2>9. k \in flight
    BY <1>3, <2>3, <2>4, <2>5, <2>7, <2>8
  <2> QED
    BY <2>2, <2>9
<1>8. f \in Surjection(flight, out)
  <2>1. f \in [flight -> out]
    BY <1>2 DEF Injection
  <2>2. \A o \in out : \E k \in flight : f[k] = o
    BY <1>2, <1>6
  <2> QED
    BY <2>1, <2>2 DEF Surjection
<1>9. IsFiniteSet(flight) /\ Cardinality(flight) = Cardinality(out)
  BY <1>2, <1>8, FS_Injection
<1>10. Occupancy(n + 1)' = Cardinality(flight)
  BY <1>1, <1>2 DEF Occupancy, InFlight
<1> QED
  BY <1>2, <1>9, <1>10, FS_CardinalityType

(* What ends later was not in flight when those before it issued. *)
LEMMA OccupancyStays ==
  ASSUME LoopInv, IdInv, TimeInv,
         NEW s \in DOMAIN cursors, NEW complete \in Nat, NEW gate \in Nat,
         NEW ip, NEW opened, StepFinishes(s, ip, complete, gate, opened),
         NEW n \in Nat, NEW r \in Result, Reports(s, ip, complete, n, r),
         NEW k \in DOMAIN finished
  PROVE  Occupancy(k)' = Occupancy(k)
<1>1. /\ DOMAIN finished' = DOMAIN finished \cup {n + 1}
      /\ \A j \in DOMAIN finished : finished'[j] = finished[j]
      /\ n + 1 \notin DOMAIN finished /\ finished'[n + 1] = r
      /\ r.core = CoreOf(s) /\ r.axi = AxiOf(s) /\ r.issue = ip.issue_cycle
  BY DEF Reports
<1>2. PICK q : q = finished[k] /\ q = finished'[k]
  BY <1>1
<1>3. ~ (r.core = q.core /\ r.axi = q.axi /\ r.issue <= q.issue)
  <2> SUFFICES ASSUME r.core = q.core, r.axi = q.axi PROVE ~ (r.issue <= q.issue)
    OBVIOUS
  <2>1. SameId(q, s)
    BY <1>1 DEF SameId
  <2>2. q.issue < ip.issue_cycle /\ ip.issue_cycle \in Nat
    BY <1>2, <2>1, EndTimes
  <2>3. q.issue \in Nat
    BY <1>2, ResultFacts
  <2> QED
    BY <1>1, <2>2, <2>3
<1>4. InFlight(q)' = InFlight(q)
  BY <1>1, <1>3 DEF InFlight
<1>5. Occupancy(k)' = Cardinality(InFlight(q)')
  BY <1>2 DEF Occupancy, InFlight
<1> QED
  BY <1>2, <1>4, <1>5 DEF Occupancy

-----------------------------------------------------------------------------
(* A window's two accounts, of what issued in it and of what ended in it; one that is
   not there yet is as good as an empty one. *)
Window(cycle) == cycle \div HistoryWindow + 1
WindowAt(w) == IF w \in DOMAIN windows THEN windows[w] ELSE NoWindow

IssuedIn(w) == {k \in DOMAIN finished : Window(finished[k].issue) = w}
EndedIn(w) == {k \in DOMAIN finished : Window(finished[k].complete) = w}
BytesOf == [k \in DOMAIN finished |-> finished[k].bytes]
DramBytesOf == [k \in DOMAIN finished |-> finished[k].dram_bytes]

OfferedExact(w, stats) ==
  /\ stats.offered_txn_count = Cardinality(IssuedIn(w))
  /\ stats.offered_bytes = SumOn(BytesOf, IssuedIn(w))
  /\ \A k \in IssuedIn(w) : Occupancy(k) <= stats.max_outstanding_count
  /\ stats.max_outstanding_count = 0 \/ \E k \in IssuedIn(w) : stats.max_outstanding_count = Occupancy(k)

DeliveredExact(w, stats) ==
  /\ stats.txn_count = Cardinality(EndedIn(w))
  /\ SumOf(stats.bytes) = SumOn(BytesOf, EndedIn(w))
  /\ stats.dram_bytes = SumOn(DramBytesOf, EndedIn(w))

WindowInv ==
  HistoryWindow # 0 => \A w \in Nat \ {0} : OfferedExact(w, WindowAt(w)) /\ DeliveredExact(w, WindowAt(w))

(* What a transaction adds to a window's accounts. *)
OffersSame(old, new) ==
  /\ new.offered_txn_count = old.offered_txn_count /\ new.offered_bytes = old.offered_bytes
  /\ new.max_outstanding_count = old.max_outstanding_count

OffersMore(old, new, r, occupancy) ==
  /\ new.offered_txn_count = old.offered_txn_count + 1 /\ new.offered_bytes = old.offered_bytes + r.bytes
  /\ new.max_outstanding_count = Later(old.max_outstanding_count, occupancy)

DeliversSame(old, new) ==
  /\ new.txn_count = old.txn_count /\ new.bytes = old.bytes /\ new.dram_bytes = old.dram_bytes

DeliversMore(old, new, r) ==
  /\ new.txn_count = old.txn_count + 1 /\ SumOf(new.bytes) = SumOf(old.bytes) + r.bytes
  /\ new.dram_bytes = old.dram_bytes + r.dram_bytes

(* r is the result number n + 1, its occupancy noted. *)
Gains(n, r, occupancy) ==
  /\ DOMAIN finished' = DOMAIN finished \cup {n + 1} /\ n + 1 \notin DOMAIN finished
  /\ \A k \in DOMAIN finished : finished'[k] = finished[k] /\ finished[k] \in Result
  /\ finished'[n + 1] = r
  /\ \A k \in DOMAIN finished : Occupancy(k)' = Occupancy(k)
  /\ Occupancy(n + 1)' = occupancy

GainsOne(f, e, S, m, amount) ==
  /\ IsFiniteSet(S) /\ \A x \in S : f[x] \in Nat /\ e[x] = f[x]
  /\ m \notin S /\ amount \in Nat /\ e[m] = amount

LEMMA SumAdds ==
  ASSUME NEW f, NEW e, NEW S, NEW m, NEW amount, GainsOne(f, e, S, m, amount)
  PROVE  SumOn(e, S) = SumOn(f, S) /\ SumOn(e, S \cup {m}) = SumOn(f, S) + amount
<1>0. /\ IsFiniteSet(S) /\ \A x \in S : f[x] \in Nat /\ e[x] = f[x]
      /\ m \notin S /\ amount \in Nat /\ e[m] = amount
  BY DEF GainsOne
<1>1. SumOn(e, S) = SumOn(f, S)
  BY <1>0, SumSame
<1>2. IsFiniteSet(S \cup {m}) /\ (S \cup {m}) \ {m} = S
  BY <1>0, FS_AddElement
<1>3. \A x \in S \cup {m} : e[x] \in Nat
  BY <1>0
<1>4. SumOn(e, S \cup {m}) = e[m] + SumOn(e, (S \cup {m}) \ {m})
  BY <1>2, <1>3, SumRemove
<1>5. SumOn(f, S) \in Nat /\ e[m] \in Nat
  BY <1>0, SumNat
<1>6. SumOn(e, S \cup {m}) = e[m] + SumOn(f, S)
  BY <1>1, <1>2, <1>4, Zenon
<1> QED
  BY <1>0, <1>1, <1>5, <1>6

LEMMA TypeTotals ==
  /\ SumOf([t \in TxnTypes |-> 0]) = 0
  /\ \A f \in [TxnTypes -> Nat] : \A t \in TxnTypes, d \in Nat :
       SumOf([f EXCEPT ![t] = @ + d]) = SumOf(f) + d
<1>1. IsFiniteSet(TxnTypes) /\ Cardinality(TxnTypes) \in Nat
  <2>1. TxnTypes = {"Read"} \cup {"Write"}
    BY DEF TxnTypes
  <2>2. IsFiniteSet({"Read"})
    BY FS_Singleton
  <2> QED
    BY <2>1, <2>2, FS_AddElement, FS_CardinalityType
<1>2. SumOf([t \in TxnTypes |-> 0]) = 0
  <2>1. PICK f : f = [t \in TxnTypes |-> 0]
    OBVIOUS
  <2>2. DOMAIN f = TxnTypes /\ \A t \in TxnTypes : f[t] = 0
    BY <2>1
  <2>3. SumOf(f) = SumOn(f, TxnTypes)
    BY <2>2, Zenon DEF SumOf, FoldFunction, SumOn
  <2>4. SumOn(f, TxnTypes) = Cardinality(TxnTypes) * 0
    BY <1>1, <2>2, SumConstant
  <2> QED
    BY <1>1, <2>1, <2>3, <2>4
<1>3. ASSUME NEW f \in [TxnTypes -> Nat], NEW t \in TxnTypes, NEW d \in Nat
      PROVE  SumOf([f EXCEPT ![t] = @ + d]) = SumOf(f) + d
  <2>1. PICK e : e = [f EXCEPT ![t] = @ + d]
    OBVIOUS
  <2>2. DOMAIN f = TxnTypes /\ DOMAIN e = TxnTypes /\ e[t] = f[t] + d /\ \A x \in TxnTypes \ {t} : e[x] = f[x]
    BY <2>1
  <2>3. SumOf(f) = SumOn(f, TxnTypes) /\ SumOf(e) = SumOn(e, TxnTypes)
    BY <2>2, Zenon DEF SumOf, FoldFunction, SumOn
  <2>4. SumOn(e, TxnTypes) = SumOn(f, TxnTypes) + d
    BY <1>1, <2>2, SumGrows
  <2> QED
    BY <2>1, <2>3, <2>4
<1> QED
  BY <1>2, <1>3

LEMMA DeliveredAdds ==
  ASSUME NEW w \in WindowStats, NEW r \in Result, NEW occupancy \in Nat
  PROVE  /\ DeliversMore(w, Delivered(w, r), r) /\ OffersSame(w, Delivered(w, r))
         /\ OffersMore(w, Offered(w, r, occupancy), r, occupancy) /\ DeliversSame(w, Offered(w, r, occupancy))
<1>1. w.bytes \in [TxnTypes -> Nat]
  BY DEF WindowStats
<1>2. r.bytes \in Nat /\ r.type \in TxnTypes
  BY DEF Result
<1>3. PICK bytes : bytes = [w.bytes EXCEPT ![r.type] = @ + r.bytes]
  OBVIOUS
<1>4. SumOf(bytes) = SumOf(w.bytes) + r.bytes
  BY <1>1, <1>2, <1>3, TypeTotals
<1>5. Delivered(w, r) = [w EXCEPT !.bytes = bytes, !.dram_bytes = @ + r.dram_bytes, !.txn_count = @ + 1]
  BY <1>3 DEF Delivered, WindowStats
<1>6. DeliversMore(w, Delivered(w, r), r) /\ OffersSame(w, Delivered(w, r))
  BY <1>4, <1>5 DEF WindowStats, DeliversMore, OffersSame
<1>7. OffersMore(w, Offered(w, r, occupancy), r, occupancy) /\ DeliversSame(w, Offered(w, r, occupancy))
  BY DEF WindowStats, OffersMore, DeliversSame, Offered
<1> QED
  BY <1>6, <1>7

LEMMA OfferedKeeps ==
  ASSUME CapInv, NEW n \in Nat, NEW r \in Result, NEW occupancy \in Nat, Gains(n, r, occupancy), LoopInv,
         NEW w, NEW old \in WindowStats, OfferedExact(w, old), NEW new,
         Window(r.issue) = w => OffersMore(old, new, r, occupancy),
         Window(r.issue) # w => OffersSame(old, new)
  PROVE  OfferedExact(w, new)'
<1>1. PICK was, now : was = IssuedIn(w) /\ now = IssuedIn(w)'
  OBVIOUS
<1>2. /\ was = {k \in DOMAIN finished : Window(finished[k].issue) = w}
      /\ now = {k \in DOMAIN finished' : Window(finished'[k].issue) = w}
  BY <1>1 DEF IssuedIn, Window
<1>3. PICK f, e : f = BytesOf /\ e = BytesOf'
  OBVIOUS
<1>4. f = [k \in DOMAIN finished |-> finished[k].bytes] /\ e = [k \in DOMAIN finished' |-> finished'[k].bytes]
  BY <1>3 DEF BytesOf
<1>5. /\ was \subseteq DOMAIN finished /\ IsFiniteSet(was) /\ n + 1 \notin was
      /\ now = IF Window(r.issue) = w THEN was \cup {n + 1} ELSE was
  <2>1. was \subseteq DOMAIN finished
    BY <1>2
  <2>2. IsFiniteSet(was)
    BY <2>1, FinishedFinite, FS_Subset
  <2>3. n + 1 \notin was
    BY <2>1 DEF Gains
  <2>4. now = IF Window(r.issue) = w THEN was \cup {n + 1} ELSE was
    BY <1>2 DEF Gains
  <2> QED
    BY <2>1, <2>2, <2>3, <2>4
<1>6. (\A k \in was : f[k] \in Nat /\ e[k] = f[k]) /\ e[n + 1] \in Nat /\ e[n + 1] = r.bytes
  BY <1>4, <1>5 DEF Gains, Result
<1>7. SumOn(e, was) = SumOn(f, was) /\ SumOn(e, was \cup {n + 1}) = SumOn(f, was) + r.bytes
  <2>1. GainsOne(f, e, was, n + 1, r.bytes)
    BY <1>5, <1>6 DEF GainsOne
  <2> QED
    BY <2>1, SumAdds
<1>8. /\ Cardinality(was) \in Nat /\ Cardinality(was \cup {n + 1}) = Cardinality(was) + 1
  BY <1>5, FS_AddElement, FS_CardinalityType
<1>9. PICK occ : occ = [k \in DOMAIN finished |-> Occupancy(k)]
  OBVIOUS
<1>10. \A k \in was : occ[k] = Occupancy(k) /\ occ[k] = Occupancy(k)' /\ occ[k] \in Nat
  <2> TAKE k \in was
  <2>1. IsFiniteSet(InFlight(finished[k]))
    BY <1>5 DEF CapInv, ResultCapped
  <2>2. Occupancy(k) \in Nat
    BY <2>1, FS_CardinalityType DEF Occupancy
  <2>3. Occupancy(k)' = Occupancy(k)
    BY <1>5 DEF Gains
  <2>4. occ[k] = Occupancy(k)
    BY <1>5, <1>9
  <2> QED
    BY <2>2, <2>3, <2>4
<1>11. Occupancy(n + 1)' = occupancy
  BY DEF Gains
<1>12. PICK most : most = old.max_outstanding_count
  OBVIOUS
<1>13. /\ old.offered_txn_count = Cardinality(was) /\ old.offered_bytes = SumOn(f, was) /\ most \in Nat
       /\ \A k \in was : occ[k] <= most
       /\ most = 0 \/ \E k \in was : most = occ[k]
  BY <1>1, <1>3, <1>10, <1>12 DEF OfferedExact, WindowStats
<1>14. CASE Window(r.issue) = w
  <2>1. now = was \cup {n + 1}
    BY <1>5, <1>14
  <2>2. /\ new.offered_txn_count = Cardinality(was) + 1 /\ new.offered_bytes = SumOn(f, was) + r.bytes
        /\ new.max_outstanding_count = Later(most, occupancy)
    BY <1>12, <1>13, <1>14 DEF OffersMore
  <2>3. PICK top : top = new.max_outstanding_count
    OBVIOUS
  <2>4. top \in {most, occupancy} /\ most <= top /\ occupancy <= top
    BY <1>13, <2>2, <2>3 DEF Later
  <2>5. \A k \in now : Occupancy(k)' <= top
    <3> SUFFICES ASSUME NEW k \in was PROVE Occupancy(k)' <= top
      BY <1>11, <2>1, <2>4
    <3>1. occ[k] = Occupancy(k)' /\ occ[k] \in Nat /\ occ[k] <= most
      BY <1>10, <1>13
    <3> QED
      BY <1>13, <2>4, <3>1
  <2>6. top = 0 \/ \E k \in now : top = Occupancy(k)'
    <3>1. CASE top = occupancy
      BY <1>11, <2>1, <3>1
    <3>2. CASE top = most
      <4>1. \A k \in was : most = occ[k] => top = Occupancy(k)'
        BY <1>10, <3>2
      <4> QED
        BY <1>13, <2>1, <3>2, <4>1
    <3> QED
      BY <2>4, <3>1, <3>2
  <2>7. new.offered_txn_count = Cardinality(now) /\ new.offered_bytes = SumOn(e, now)
    BY <1>7, <1>8, <2>1, <2>2
  <2> QED
    BY <1>1, <1>3, <2>3, <2>5, <2>6, <2>7 DEF OfferedExact
<1>15. CASE Window(r.issue) # w
  <2>1. now = was
    BY <1>5, <1>15
  <2>2. /\ new.offered_txn_count = Cardinality(was) /\ new.offered_bytes = SumOn(f, was)
        /\ new.max_outstanding_count = most
    BY <1>12, <1>13, <1>15 DEF OffersSame
  <2>3. (\A k \in now : Occupancy(k)' <= most) /\ (most = 0 \/ \E k \in now : most = Occupancy(k)')
    <3>1. \A k \in was : occ[k] = Occupancy(k)'
      BY <1>10
    <3> QED
      BY <1>13, <2>1, <3>1
  <2> QED
    BY <1>1, <1>3, <1>7, <2>1, <2>2, <2>3 DEF OfferedExact
<1> QED
  BY <1>14, <1>15

LEMMA DeliveredKeeps ==
  ASSUME NEW n \in Nat, NEW r \in Result, NEW occupancy \in Nat, Gains(n, r, occupancy), LoopInv,
         NEW w, NEW old \in WindowStats, DeliveredExact(w, old), NEW new,
         Window(r.complete) = w => DeliversMore(old, new, r),
         Window(r.complete) # w => DeliversSame(old, new)
  PROVE  DeliveredExact(w, new)'
<1>1. PICK was, now : was = EndedIn(w) /\ now = EndedIn(w)'
  OBVIOUS
<1>2. /\ was = {k \in DOMAIN finished : Window(finished[k].complete) = w}
      /\ now = {k \in DOMAIN finished' : Window(finished'[k].complete) = w}
  BY <1>1 DEF EndedIn, Window
<1>3. PICK f, e, g, h : f = BytesOf /\ e = BytesOf' /\ g = DramBytesOf /\ h = DramBytesOf'
  OBVIOUS
<1>4. /\ f = [k \in DOMAIN finished |-> finished[k].bytes]
      /\ e = [k \in DOMAIN finished' |-> finished'[k].bytes]
      /\ g = [k \in DOMAIN finished |-> finished[k].dram_bytes]
      /\ h = [k \in DOMAIN finished' |-> finished'[k].dram_bytes]
  BY <1>3 DEF BytesOf, DramBytesOf
<1>5. /\ was \subseteq DOMAIN finished /\ IsFiniteSet(was) /\ n + 1 \notin was
      /\ now = IF Window(r.complete) = w THEN was \cup {n + 1} ELSE was
  <2>1. was \subseteq DOMAIN finished
    BY <1>2
  <2>2. IsFiniteSet(was)
    BY <2>1, FinishedFinite, FS_Subset
  <2>3. n + 1 \notin was
    BY <2>1 DEF Gains
  <2>4. now = IF Window(r.complete) = w THEN was \cup {n + 1} ELSE was
    BY <1>2 DEF Gains
  <2> QED
    BY <2>1, <2>2, <2>3, <2>4
<1>6. /\ \A k \in was : f[k] \in Nat /\ e[k] = f[k]
      /\ e[n + 1] \in Nat /\ e[n + 1] = r.bytes
  BY <1>4, <1>5 DEF Gains, Result
<1>7. /\ \A k \in was : g[k] \in Nat /\ h[k] = g[k]
      /\ h[n + 1] \in Nat /\ h[n + 1] = r.dram_bytes
  BY <1>4, <1>5 DEF Gains, Result
<1>8. SumOn(e, was) = SumOn(f, was) /\ SumOn(e, was \cup {n + 1}) = SumOn(f, was) + r.bytes
  <2>1. GainsOne(f, e, was, n + 1, r.bytes)
    BY <1>5, <1>6 DEF GainsOne
  <2> QED
    BY <2>1, SumAdds
<1>9. SumOn(h, was) = SumOn(g, was) /\ SumOn(h, was \cup {n + 1}) = SumOn(g, was) + r.dram_bytes
  <2>1. GainsOne(g, h, was, n + 1, r.dram_bytes)
    BY <1>5, <1>7 DEF GainsOne
  <2> QED
    BY <2>1, SumAdds
<1>10. /\ Cardinality(was) \in Nat /\ Cardinality(was \cup {n + 1}) = Cardinality(was) + 1
  BY <1>5, FS_AddElement, FS_CardinalityType
<1>11. /\ old.txn_count = Cardinality(was) /\ SumOf(old.bytes) = SumOn(f, was)
       /\ old.dram_bytes = SumOn(g, was)
  BY <1>1, <1>3 DEF DeliveredExact
<1>12. /\ new.txn_count = Cardinality(now) /\ SumOf(new.bytes) = SumOn(e, now)
       /\ new.dram_bytes = SumOn(h, now)
  BY <1>5, <1>8, <1>9, <1>10, <1>11 DEF DeliversMore, DeliversSame
<1> QED
  BY <1>1, <1>3, <1>12 DEF DeliveredExact

-----------------------------------------------------------------------------
LEMMA NoWindowTyped == NoWindow \in WindowStats
<1>1. [t \in {"Read", "Write"} |-> 0] \in [TxnTypes -> Nat]
  BY DEF TxnTypes
<1> QED
  BY <1>1 DEF NoWindow, WindowStats

LEMMA WindowAtTyped ==
  ASSUME windows \in Seq(WindowStats), NEW w
  PROVE  WindowAt(w) \in WindowStats
BY NoWindowTyped, LenProperties, ElementOfSeq DEF WindowAt

(* Only the two windows of a transaction change. *)
LEMMA RecordedAt ==
  ASSUME windows \in Seq(WindowStats), HistoryWindow # 0, NEW r \in Result, NEW occupancy \in Nat,
         windows' = Recorded(r, occupancy), NEW w \in Nat \ {0}
  PROVE  \E paid, old \in WindowStats :
           /\ old = WindowAt(w)
           /\ paid = IF Window(r.complete) = w THEN Delivered(old, r) ELSE old
           /\ WindowAt(w)' = IF Window(r.issue) = w THEN Offered(paid, r, occupancy) ELSE paid
<1>1. HistoryWindow \in Nat \ {0} /\ r.complete \in Nat /\ r.issue \in Nat
  BY FrontEndAssumption DEF Result
<1>2. r.complete \div HistoryWindow \in Nat /\ r.issue \div HistoryWindow \in Nat
  BY <1>1, QuotientNat
<1>3. PICK delivered \in Nat \ {0}, offered \in Nat \ {0} :
        delivered = r.complete \div HistoryWindow + 1 /\ offered = r.issue \div HistoryWindow + 1
  BY <1>2
<1>4. PICK D : D = DOMAIN windows \cup 1 .. Later(delivered, offered)
  OBVIOUS
<1>5. delivered \in D /\ offered \in D /\ DOMAIN windows \subseteq D
  BY <1>3, <1>4 DEF Later
<1>6. PICK longer : longer = [i \in D |-> IF i \in DOMAIN windows THEN windows[i] ELSE NoWindow]
  OBVIOUS
<1>7. PICK more : more = [longer EXCEPT ![delivered] = Delivered(@, r)]
  OBVIOUS
<1>8. windows' = [more EXCEPT ![offered] = Offered(@, r, occupancy)]
  BY <1>3, <1>4, <1>6, <1>7 DEF Recorded
<1>9. PICK old \in WindowStats : old = WindowAt(w)
  BY WindowAtTyped
<1>10. w \in D => longer[w] = old
  BY <1>6, <1>9 DEF WindowAt
<1>11. PICK paid \in WindowStats : paid = IF delivered = w THEN Delivered(old, r) ELSE old
  BY <1>9, WindowTyped
<1>12. DOMAIN more = D /\ (w \in D => more[w] = paid)
  BY <1>5, <1>6, <1>7, <1>10, <1>11
<1>13. DOMAIN windows' = D /\ (w \in D => windows'[w] = IF offered = w THEN Offered(paid, r, occupancy) ELSE paid)
  BY <1>5, <1>8, <1>12
<1>14. WindowAt(w)' = IF w \in DOMAIN windows' THEN windows'[w] ELSE NoWindow
  BY DEF WindowAt, NoWindow
<1>15. CASE w \in D
  BY <1>3, <1>9, <1>11, <1>13, <1>14, <1>15 DEF Window
<1>16. CASE w \notin D
  <2>1. w # delivered /\ w # offered /\ old = NoWindow
    BY <1>5, <1>9, <1>16 DEF WindowAt
  <2> QED
    BY <1>3, <1>9, <1>11, <1>13, <1>14, <1>16, <2>1 DEF Window
<1> QED
  BY <1>15, <1>16

LEMMA WindowInvFinishes ==
  ASSUME OrderInv, TimeInv, CapInv, WaitInv, LiveInv, StatInv, WindowInv, IdInv', Lasting', Next,
         NEW s \in DOMAIN cursors, NEW complete \in Nat, NEW gate \in Nat,
         NEW ip, NEW opened, StepFinishes(s, ip, complete, gate, opened)
  PROVE  WindowInv'
<1> SUFFICES ASSUME HistoryWindow # 0, NEW w \in Nat \ {0}
             PROVE  OfferedExact(w, WindowAt(w))' /\ DeliveredExact(w, WindowAt(w))'
  BY DEF WindowInv
<1>1. LoopInv /\ SegInv /\ IdInv
  BY DEF OrderInv
<1>2. PICK n \in Nat, r \in Result : Reports(s, ip, complete, n, r)
  BY <1>1, FinishedAppend
<1>3. PICK occupancy : occupancy = Cardinality(cursors'[s].outstanding)
  OBVIOUS
<1>4. occupancy \in Nat /\ Occupancy(n + 1)' = occupancy
  BY <1>1, <1>2, <1>3, OccupancyNoted
<1>5. \A k \in DOMAIN finished : Occupancy(k)' = Occupancy(k)
  BY <1>1, <1>2, OccupancyStays
<1>6. Gains(n, r, occupancy)
  BY <1>2, <1>4, <1>5 DEF Gains, Reports
<1>7. windows' = Recorded(r, occupancy)
  <2>1. finished' = Append(finished, ResultOf(s, ip, complete)) /\ finished \in Seq(Result)
    BY <1>1 DEF StepFinishes, LoopInv, LoopTypeOK
  <2>2. DOMAIN finished = 1 .. Len(finished) /\ Len(finished) \in Nat
    BY <2>1, LenProperties
  <2>3. r = ResultOf(s, ip, complete) /\ Len(finished') = n + 1
    <3>1. r \in Result /\ finished'[n + 1] = r /\ DOMAIN finished = 1 .. n
      BY <1>2 DEF Reports
    <3>2. n = Len(finished)
      <4>1. PICK len \in Nat : len = Len(finished)
        BY <2>2, ZenonT(40)
      <4>2. 1 .. n = 1 .. len
        BY <2>2, <3>1, <4>1
      <4>3. ~ (n < len) /\ ~ (len < n)
        <5>1. len \in 1 .. len => len \in 1 .. n
          BY <4>2
        <5>2. n \in 1 .. n => n \in 1 .. len
          BY <4>2
        <5> QED
          BY <4>1, <5>1, <5>2
      <4> QED
        BY <4>1, <4>3, SMTT(30)
    <3>3. Len(Append(finished, ResultOf(s, ip, complete))) = n + 1
          /\ Append(finished, ResultOf(s, ip, complete))[n + 1] = ResultOf(s, ip, complete)
      BY <2>1, <3>2
    <3> QED
      BY <2>1, <3>1, <3>3
  <2>4. finished'[Len(finished')] = r /\ finished' # finished
    <3>1. n + 1 \in DOMAIN finished' /\ n + 1 \notin DOMAIN finished /\ finished'[n + 1] = r
      BY <1>2 DEF Reports
    <3> QED
      BY <2>3, <3>1
  <2>5. <<r.core, r.segment, r.axi>> = s
    BY <1>2 DEF Reports, StreamOf
  <2> QED
    BY <1>3, <2>4, <2>5, StepGrows DEF StatisticGrows
<1>8. PICK paid \in WindowStats, old \in WindowStats :
        /\ old = WindowAt(w)
        /\ paid = IF Window(r.complete) = w THEN Delivered(old, r) ELSE old
        /\ WindowAt(w)' = IF Window(r.issue) = w THEN Offered(paid, r, occupancy) ELSE paid
  <2>1. windows \in Seq(WindowStats)
    BY DEF StatInv
  <2> QED
    BY <1>4, <1>7, <2>1, RecordedAt
<1>9. PICK new : new = WindowAt(w)'
  OBVIOUS
<1>10. OfferedExact(w, old) /\ DeliveredExact(w, old)
  BY <1>8 DEF WindowInv
<1>11. /\ Window(r.issue) = w => OffersMore(paid, new, r, occupancy) /\ DeliversSame(paid, new)
       /\ Window(r.issue) # w => OffersSame(paid, new) /\ DeliversSame(paid, new)
  BY <1>4, <1>8, <1>9, DeliveredAdds DEF OffersSame, DeliversSame
<1>12. /\ OffersSame(old, paid)
       /\ Window(r.complete) = w => DeliversMore(old, paid, r)
       /\ Window(r.complete) # w => DeliversSame(old, paid)
  BY <1>4, <1>8, DeliveredAdds DEF OffersSame, DeliversSame
<1>13. /\ Window(r.issue) = w => OffersMore(old, new, r, occupancy)
       /\ Window(r.issue) # w => OffersSame(old, new)
       /\ Window(r.complete) = w => DeliversMore(old, new, r)
       /\ Window(r.complete) # w => DeliversSame(old, new)
  BY <1>11, <1>12 DEF OffersSame, DeliversSame, OffersMore, DeliversMore
<1>14. OfferedExact(w, new)'
  BY <1>1, <1>4, <1>6, <1>10, <1>13, OfferedKeeps
<1>15. DeliveredExact(w, new)'
  BY <1>1, <1>4, <1>6, <1>10, <1>13, DeliveredKeeps
<1> QED
  BY <1>9, <1>14, <1>15 DEF OfferedExact, DeliveredExact

LEMMA WindowInvStep ==
  ASSUME OrderInv, TimeInv, CapInv, WaitInv, LiveInv, StatInv, WindowInv, IdInv', Lasting', [Next]_vars
  PROVE  WindowInv'
<1>1. CASE finished' = finished
  <2>1. windows' = windows
    BY <1>1, StepGrows DEF StatisticGrows, vars, frontVars, statisticVars
  <2>2. ASSUME NEW w PROVE WindowAt(w)' = WindowAt(w) /\ IssuedIn(w)' = IssuedIn(w) /\ EndedIn(w)' = EndedIn(w)
    BY <1>1, <2>1 DEF WindowAt, IssuedIn, EndedIn, Window, NoWindow
  <2>3. BytesOf' = BytesOf /\ DramBytesOf' = DramBytesOf
    BY <1>1 DEF BytesOf, DramBytesOf
  <2>4. ASSUME NEW k PROVE Occupancy(k)' = Occupancy(k)
    BY <1>1 DEF Occupancy, InFlight
  <2>5. ASSUME NEW w, NEW stats, OfferedExact(w, stats) PROVE OfferedExact(w, stats)'
    BY <2>2, <2>3, <2>4, <2>5 DEF OfferedExact
  <2>6. ASSUME NEW w, NEW stats, DeliveredExact(w, stats) PROVE DeliveredExact(w, stats)'
    BY <2>2, <2>3, <2>6 DEF DeliveredExact
  <2>7. ASSUME HistoryWindow # 0, NEW w \in Nat \ {0}
        PROVE  OfferedExact(w, WindowAt(w))' /\ DeliveredExact(w, WindowAt(w))'
    <3>1. PICK stats : stats = WindowAt(w) /\ stats = WindowAt(w)'
      BY <2>2
    <3>2. OfferedExact(w, stats)' /\ DeliveredExact(w, stats)'
      BY <2>5, <2>6, <2>7, <3>1 DEF WindowInv
    <3> QED
      BY <3>1, <3>2 DEF OfferedExact, DeliveredExact
  <2> QED
    BY <2>7 DEF WindowInv
<1>2. CASE finished' # finished
  <2>1. Next
    BY <1>2 DEF vars, frontVars, controlVars
  <2>2. LoopInv /\ SegInv
    BY DEF OrderInv
  <2>3. \E s \in DOMAIN cursors, complete \in Nat, gate \in Nat : \E ip, opened :
          StepFinishes(s, ip, complete, gate, opened)
    BY <1>2, <2>2, StepKinds DEF StepPushes, StepBars, PushBarrier, StepIssues, StepSteady
  <2> QED
    BY <2>1, <2>3, WindowInvFinishes
<1> QED
  BY <1>1, <1>2

LEMMA InitWindows == Init => WindowInv /\ LiveInv
<1> SUFFICES ASSUME Init PROVE WindowInv /\ LiveInv
  OBVIOUS
<1>1. finished = <<>> /\ windows = <<>> /\ DOMAIN finished = {} /\ DOMAIN windows = {} /\ DOMAIN cursors = {}
  BY DEF Init, FrontInit
<1>2. LiveInv
  BY <1>1 DEF LiveInv, Serving
<1>3. ASSUME NEW w \in Nat \ {0} PROVE OfferedExact(w, WindowAt(w)) /\ DeliveredExact(w, WindowAt(w))
  <2>1. IssuedIn(w) = {} /\ EndedIn(w) = {} /\ WindowAt(w) = NoWindow
    BY <1>1 DEF IssuedIn, EndedIn, WindowAt
  <2>2. Cardinality({}) = 0 /\ SumOn(BytesOf, {}) = 0 /\ SumOn(DramBytesOf, {}) = 0
    BY FS_EmptySet, SumEmpty
  <2>3. SumOf(NoWindow.bytes) = 0
    BY TypeTotals DEF NoWindow, TxnTypes
  <2> QED
    BY <2>1, <2>2, <2>3 DEF OfferedExact, DeliveredExact, NoWindow
<1> QED
  BY <1>2, <1>3 DEF WindowInv

(* The sums of the property are those of the accounts. *)
LEMMA SumIs ==
  ASSUME LoopInv, NEW K, K \subseteq DOMAIN finished
  PROVE  /\ Sum(K, LAMBDA k : finished[k].bytes) = SumOn(BytesOf, K)
         /\ Sum(K, LAMBDA k : finished[k].dram_bytes) = SumOn(DramBytesOf, K)
<1>1. IsFiniteSet(K)
  BY FinishedFinite, FS_Subset
<1>2. PICK f, g : f = [k \in K |-> finished[k].bytes] /\ g = [k \in K |-> finished[k].dram_bytes]
  OBVIOUS
<1>3. DOMAIN f = K /\ DOMAIN g = K /\ \A k \in K : f[k] = BytesOf[k] /\ g[k] = DramBytesOf[k]
  BY <1>2 DEF BytesOf, DramBytesOf
<1>4. SumOf(f) = SumOn(f, K) /\ SumOf(g) = SumOn(g, K)
  BY <1>3, Zenon DEF SumOf, FoldFunction, SumOn
<1>5. SumOn(f, K) = SumOn(BytesOf, K) /\ SumOn(g, K) = SumOn(DramBytesOf, K)
  BY <1>1, <1>3, SumSame
<1>6. Sum(K, LAMBDA k : finished[k].bytes) = SumOf(f) /\ Sum(K, LAMBDA k : finished[k].dram_bytes) = SumOf(g)
  BY <1>2 DEF Sum
<1> QED
  BY <1>4, <1>5, <1>6

(* A window that is not there has nothing in it. *)
LEMMA WindowsReach ==
  ASSUME OrderInv, WindowInv, HistoryWindow > 0, NEW k \in DOMAIN finished
  PROVE  finished[k].complete \div HistoryWindow + 1 \in DOMAIN windows
<1>1. LoopInv /\ finished[k] \in Result
  BY FinishedFinite DEF OrderInv
<1>2. PICK w : w = finished[k].complete \div HistoryWindow + 1
  OBVIOUS
<1>3. w \in Nat \ {0}
  <2>1. HistoryWindow \in Nat \ {0} /\ finished[k].complete \in Nat
    BY <1>1, FrontEndAssumption DEF Result
  <2>2. PICK v \in Nat : v = finished[k].complete \div HistoryWindow
    BY <2>1, QuotientNat
  <2> QED
    BY <1>2, <2>2
<1>4. k \in EndedIn(w) /\ EndedIn(w) \subseteq DOMAIN finished
  BY <1>2 DEF EndedIn, Window
<1>5. IsFiniteSet(EndedIn(w))
  BY <1>1, <1>4, FinishedFinite, FS_Subset
<1>6. Cardinality(EndedIn(w)) # 0
  BY <1>4, <1>5, FS_EmptySet
<1>7. DeliveredExact(w, WindowAt(w))
  BY <1>3 DEF WindowInv
<1>8. w \notin DOMAIN windows => Cardinality(EndedIn(w)) = 0
  BY <1>7 DEF DeliveredExact, WindowAt, NoWindow
<1> QED
  BY <1>2, <1>6, <1>8

LEMMA AlwaysWindowed == Spec => [](OrderInv /\ CapInv /\ StatInv /\ WindowInv)
<1>1. OrderInv /\ ServedInv => Lasting
  BY LatencyPositive DEF OrderInv, Lasting
<1>2. OrderInv /\ TimeInv /\ CapInv /\ WaitInv /\ LiveInv /\ StatInv /\ WindowInv /\ Lasting' /\ OrderInv' /\ [Next]_vars
        => (LiveInv /\ WindowInv)'
  BY LiveInvStep, WindowInvStep DEF OrderInv
<1>3. Init => LiveInv /\ WindowInv
  BY InitWindows
<1> QED
  BY <1>1, <1>2, <1>3, AlwaysTyped, AlwaysServed, AlwaysWaits, PTL DEF Spec

(* Every history window is exact whatever its length and however transactions
   of different streams overlap: its high-water mark is the most one stream had in flight as a
   transaction of its issued, though the engine notes it only as that transaction
   ends, and nothing is counted twice or in two windows
   (WindowsExact; Engine::finalize_in_progress_txn, window_at). *)
THEOREM WindowsAreExact == Spec => []WindowsExact
<1>1. OrderInv /\ CapInv /\ StatInv /\ WindowInv => WindowsExact
  <2>0. ASSUME OrderInv, StatInv, WindowInv, HistoryWindow > 0, NEW k \in DOMAIN finished
        PROVE  finished[k].complete \div HistoryWindow + 1 \in DOMAIN windows
    BY <2>0, WindowsReach
  <2> SUFFICES ASSUME OrderInv, CapInv, StatInv, WindowInv, HistoryWindow > 0, NEW w \in DOMAIN windows,
                      NEW issued, issued = {k \in DOMAIN finished : finished[k].issue \div HistoryWindow + 1 = w},
                      NEW ended, ended = {k \in DOMAIN finished : finished[k].complete \div HistoryWindow + 1 = w}
               PROVE  /\ windows[w].max_outstanding_count
                           = Max({0} \cup {Cardinality(InFlight(finished[k])) : k \in issued})
                      /\ windows[w].offered_txn_count = Cardinality(issued)
                      /\ windows[w].offered_bytes = Sum(issued, LAMBDA k : finished[k].bytes)
                      /\ windows[w].txn_count = Cardinality(ended)
                      /\ SumOf(windows[w].bytes) = Sum(ended, LAMBDA k : finished[k].bytes)
                      /\ windows[w].dram_bytes = Sum(ended, LAMBDA k : finished[k].dram_bytes)
    BY <2>0 DEF WindowsExact
  <2>1. w \in Nat \ {0} /\ HistoryWindow # 0 /\ WindowAt(w) = windows[w]
    <3>1. DOMAIN windows = 1 .. Len(windows) /\ Len(windows) \in Nat
      BY LenProperties DEF StatInv
    <3>2. HistoryWindow \in Nat
      BY FrontEndAssumption
    <3> QED
      BY <3>1, <3>2 DEF WindowAt
  <2>2. PICK stats : stats = windows[w]
    OBVIOUS
  <2>3. OfferedExact(w, stats) /\ DeliveredExact(w, stats)
    BY <2>1, <2>2 DEF WindowInv
  <2>4. issued = IssuedIn(w) /\ ended = EndedIn(w)
    BY DEF IssuedIn, EndedIn, Window
  <2>5. issued \subseteq DOMAIN finished /\ ended \subseteq DOMAIN finished /\ LoopInv
    BY DEF OrderInv
  <2>6. Sum(issued, LAMBDA k : finished[k].bytes) = SumOn(BytesOf, issued)
    BY <2>5, SumIs
  <2>7. Sum(ended, LAMBDA k : finished[k].bytes) = SumOn(BytesOf, ended)
    BY <2>5, SumIs
  <2>8. Sum(ended, LAMBDA k : finished[k].dram_bytes) = SumOn(DramBytesOf, ended)
    BY <2>5, SumIs
  <2>9. stats.max_outstanding_count = Max({0} \cup {Cardinality(InFlight(finished[k])) : k \in issued})
    <3>1. PICK S : S = {0} \cup {Cardinality(InFlight(finished[k])) : k \in issued}
      OBVIOUS
    <3>2. PICK top : top = stats.max_outstanding_count
      OBVIOUS
    <3>3. \A k \in issued : Cardinality(InFlight(finished[k])) \in Nat
      BY <2>5, FS_CardinalityType DEF CapInv, ResultCapped
    <3>4. S \in SUBSET Int
      BY <3>1, <3>3
    <3>5. top \in S /\ top \in Nat
      BY <2>3, <2>4, <3>1, <3>2, <3>3 DEF OfferedExact, Occupancy
    <3>6. \A x \in S : x <= top
      BY <2>3, <2>4, <3>1, <3>2, <3>5 DEF OfferedExact, Occupancy
    <3>7. Max(S) = top
      BY <3>4, <3>5, <3>6, MaxIs
    <3> QED
      BY <3>1, <3>2, <3>7
  <2> QED
    BY <2>2, <2>3, <2>4, <2>6, <2>7, <2>8, <2>9 DEF OfferedExact, DeliveredExact
<1> QED
  BY <1>1, AlwaysWindowed, PTL
=============================================================================
