----------------------------- MODULE SweepProofs -----------------------------
(***************************************************************************)
(* Why the rows of a sweep cannot disturb one another, for every number of *)
(* threads, axes and points: the counter gives no point to two threads, a  *)
(* thread overrides a tree of its own, and so the base every point starts  *)
(* from stays what the specification says and a row is written once        *)
(* (SweepInv).                                                             *)
(*                                                                         *)
(* And why row N is point N (RowsInv): the divisions by the strides are    *)
(* the digits of N in a mixed radix, which order the points as the nested  *)
(* loops over the axes do; a thread's tree is the base with the values of  *)
(* its own point up to the axis it is at; and a claimed point has its row  *)
(* or a thread that works on it.                                           *)
(***************************************************************************)
EXTENDS SweepProperties, FiniteSetTheorems, WellFoundedInduction, TLAPS

Working(t) == pc[t] \in {"copy", "override", "run"}

(* No two threads hold one point or one tree, and nobody holds the base. *)
PointsApart ==
  /\ \A t, u \in Threads : t # u /\ Working(t) /\ Working(u) => point[t] # point[u]
  /\ \A t \in Threads : pc[t] \in {"override", "run"} => point_cfg[t] = t
  /\ stage \notin {"spec", "refused"} => heap[Base] = spec.base

(* What was claimed is below the counter; what is unclaimed or still worked on
   has no row. *)
SweepInv ==
  /\ next \in Nat
  /\ point \in [Threads -> Nat]
  /\ pc \in [Threads -> {"idle", "claim", "copy", "override", "run", "joined"}]
  /\ DOMAIN point_cfg = Threads /\ DOMAIN heap = {Base} \cup Threads
  /\ stage = "spec" => results = <<>> /\ \A t \in Threads : pc[t] = "idle"
  /\ \A t \in Threads : Working(t) => point[t] < next /\ results[point[t]] = NoRow
  /\ \A p \in DOMAIN results : p \in Int /\ (p >= next => results[p] = NoRow)
  /\ PointsApart

RowsFinal == \A p \in DOMAIN results : results[p] # NoRow => results'[p] = results[p]

-----------------------------------------------------------------------------
LEMMA SweepInvInitially == Init => SweepInv
BY DEF Init, SweepInv, PointsApart, Working

LEMMA StartKeeps ==
  ASSUME SweepInv, Start
  PROVE  SweepInv' /\ RowsFinal
<1>1. /\ stage = "spec" /\ stage' = "running"
      /\ heap' = [heap EXCEPT ![Base] = spec.base] /\ spec' = spec
      /\ results' = [p \in 0 .. TotalPoints(spec.axes) - 1 |-> NoRow]
      /\ pc' = [t \in Threads |-> IF t <= NumThreads THEN "claim" ELSE "joined"]
      /\ UNCHANGED <<next, point, axis, point_cfg, files, report>>
  BY DEF Start
<1>2. results = <<>> /\ DOMAIN heap = {Base} \cup Threads
  BY <1>1 DEF SweepInv
<1>3. \A t \in Threads : pc'[t] \in {"claim", "joined"}
  BY <1>1
<1>4. \A t \in Threads : ~ Working(t)' /\ pc'[t] \notin {"override", "run"}
  BY <1>3 DEF Working
<1>5. PointsApart'
  BY <1>1, <1>2, <1>4 DEF PointsApart
<1>6. \A p \in DOMAIN results' : p \in Int /\ results'[p] = NoRow
  BY <1>1
<1> QED
  BY <1>1, <1>2, <1>4, <1>5, <1>6 DEF SweepInv, RowsFinal

LEMMA ClaimKeeps ==
  ASSUME SweepInv, UNCHANGED <<spec, stage, report>>, stage = "running",
         NEW t \in Threads, Claim(t)
  PROVE  SweepInv' /\ RowsFinal
<1>1. /\ next' = next + 1 /\ point' = [point EXCEPT ![t] = next]
      /\ pc' = [pc EXCEPT ![t] = IF next \in DOMAIN results THEN "copy" ELSE "joined"]
      /\ UNCHANGED <<axis, point_cfg, heap, files, results>>
  BY DEF Claim
<1>2. \A u \in Threads : u # t => point'[u] = point[u] /\ pc'[u] = pc[u]
  BY <1>1 DEF SweepInv
<1>3. /\ point'[t] = next
      /\ pc'[t] = IF next \in DOMAIN results THEN "copy" ELSE "joined"
  BY <1>1 DEF SweepInv
<1>4. PointsApart'
  <2>1. \A u \in Threads : u # t /\ Working(u)' => point'[u] < next
    BY <1>2 DEF SweepInv, Working
  <2>2. ASSUME NEW u \in Threads, NEW v \in Threads, u # v, Working(u)', Working(v)'
        PROVE  point'[u] # point'[v]
    BY <1>2, <1>3, <2>1, <2>2 DEF SweepInv, PointsApart, Working
  <2>3. \A u \in Threads : pc'[u] \in {"override", "run"} => point_cfg'[u] = u
    BY <1>1, <1>2, <1>3 DEF SweepInv, PointsApart
  <2> QED
    BY <1>1, <2>2, <2>3 DEF SweepInv, PointsApart
<1>5. ASSUME NEW u \in Threads, Working(u)'
      PROVE  point'[u] < next' /\ results'[point'[u]] = NoRow
  <2>1. CASE u = t
    BY <1>1, <1>3, <1>5, <2>1 DEF SweepInv, Working
  <2>2. CASE u # t
    BY <1>1, <1>2, <1>5, <2>2 DEF SweepInv, Working
  <2> QED
    BY <2>1, <2>2
<1>6. /\ next' \in Nat /\ point' \in [Threads -> Nat]
      /\ pc' \in [Threads -> {"idle", "claim", "copy", "override", "run", "joined"}]
      /\ DOMAIN point_cfg' = Threads /\ DOMAIN heap' = {Base} \cup Threads
  BY <1>1 DEF SweepInv
<1>7. \A p \in DOMAIN results' : p \in Int /\ (p >= next' => results'[p] = NoRow)
  BY <1>1 DEF SweepInv
<1> QED
  BY <1>1, <1>4, <1>5, <1>6, <1>7 DEF SweepInv, RowsFinal

(* A step that leaves the counter, the points and the rows alone, and a thread that
   works working. *)
LEMMA OwnTreeKeeps ==
  ASSUME SweepInv, UNCHANGED <<spec, stage, next, point, results>>, stage = "running",
         NEW t \in Threads, Working(t),
         NEW step \in {"override", "run"}, pc' = [pc EXCEPT ![t] = step],
         DOMAIN point_cfg' = Threads, DOMAIN heap' = DOMAIN heap,
         point_cfg'[t] = t, \A u \in Threads : u # t => point_cfg'[u] = point_cfg[u],
         heap'[Base] = heap[Base]
  PROVE  SweepInv' /\ RowsFinal
<1>1. \A u \in Threads : /\ Working(u)' => Working(u)
                         /\ pc'[u] \in {"override", "run"} => u = t \/ pc[u] \in {"override", "run"}
  BY DEF SweepInv, Working
<1>2. PointsApart'
  BY <1>1 DEF SweepInv, PointsApart
<1> QED
  BY <1>1, <1>2 DEF SweepInv, RowsFinal

LEMMA RunKeeps ==
  ASSUME SweepInv, UNCHANGED <<spec, stage, report>>, stage = "running",
         NEW t \in Threads, Run(t)
  PROVE  SweepInv' /\ RowsFinal
<1>1. PICK row : results' = [results EXCEPT ![point[t]] = row]
  BY DEF Run
<1>2. /\ pc[t] = "run" /\ pc' = [pc EXCEPT ![t] = "claim"]
      /\ UNCHANGED <<next, point, axis, point_cfg, heap, files>>
  BY DEF Run
<1>3. point[t] < next /\ results[point[t]] = NoRow /\ Working(t)
  BY <1>2 DEF SweepInv, Working
<1>4. \A u \in Threads : /\ Working(u)' => Working(u) /\ u # t
                         /\ pc'[u] \in {"override", "run"} => pc[u] \in {"override", "run"}
  BY <1>2 DEF SweepInv, Working
<1>5. /\ DOMAIN results' = DOMAIN results
      /\ \A p \in DOMAIN results : p # point[t] => results'[p] = results[p]
  BY <1>1
<1> QED
  BY <1>1, <1>2, <1>3, <1>4, <1>5 DEF SweepInv, PointsApart, RowsFinal

LEMMA SweepInvKept == SweepInv /\ [Next]_vars => SweepInv' /\ [RowsFinal]_vars
<1> SUFFICES ASSUME SweepInv, [Next]_vars PROVE SweepInv' /\ [RowsFinal]_vars
  OBVIOUS
<1>1. CASE Refuse
  BY <1>1 DEF Refuse, threadVars, SweepInv, PointsApart, Working, RowsFinal
<1>2. CASE Start
  BY <1>2, StartKeeps
<1>3. ASSUME NEW t \in Threads, Thread(t) PROVE SweepInv' /\ RowsFinal
  <2> /\ stage = "running" /\ UNCHANGED <<spec, stage, report>>
    BY <1>3 DEF Thread
  <2>1. CASE Claim(t)
    BY <2>1, ClaimKeeps
  <2>2. CASE Copy(t)
    BY <2>2, OwnTreeKeeps DEF Copy, DeepCopy, SweepInv, Working, Base, Threads
  <2>3. CASE Override(t)
    <3>1. PICK tree : heap' = [heap EXCEPT ![point_cfg[t]] = tree]
      BY <2>3 DEF Override
    <3>2. /\ pc[t] = "override" /\ Working(t)
          /\ UNCHANGED <<next, pc, point, point_cfg, files, results>>
      BY <2>3 DEF Override, Working
    <3>3. point_cfg[t] = t /\ t # Base
      BY <3>2 DEF SweepInv, PointsApart, Base, Threads
    <3>4. pc' = [pc EXCEPT ![t] = "override"]
      BY <3>2 DEF SweepInv
    <3>5. DOMAIN heap' = DOMAIN heap /\ heap'[Base] = heap[Base]
      BY <3>1, <3>3 DEF SweepInv
    <3> QED
      BY <3>2, <3>3, <3>4, <3>5, OwnTreeKeeps DEF SweepInv
  <2>4. CASE Write(t)
    BY <2>4, OwnTreeKeeps DEF Write, SweepInv, PointsApart, Working
  <2>5. CASE Run(t)
    BY <2>5, RunKeeps
  <2> QED
    BY <1>3, <2>1, <2>2, <2>3, <2>4, <2>5 DEF Thread
<1>4. CASE Report
  BY <1>4 DEF Report, threadVars, SweepInv, PointsApart, Working, RowsFinal
<1>5. CASE UNCHANGED vars
  BY <1>5 DEF vars, threadVars, SweepInv, PointsApart, Working, RowsFinal
<1> QED
  BY <1>1, <1>2, <1>3, <1>4, <1>5 DEF Next

(* Two threads never work on one point or override one tree, and the tree every
   point starts from is never overridden. *)
THEOREM PointsStayApart == Spec => []PointsApart
<1>1. SweepInv => PointsApart
  BY DEF SweepInv
<1> QED
  BY <1>1, SweepInvInitially, SweepInvKept, PTL DEF Spec

(* A row is written once: no later point, retry or thread overwrites it. *)
THEOREM RowsAreFinal == Spec => [][RowsFinal]_vars
BY SweepInvInitially, SweepInvKept, PTL DEF Spec

-----------------------------------------------------------------------------
(***************************************************************************)
(* Numbers.                                                                *)
(***************************************************************************)
LEMMA LeastNat ==
  ASSUME NEW S \in SUBSET Nat, S # {}
  PROVE  \E m \in S : \A x \in S : m <= x
<1>1. PICK m \in S : \A x \in S : <<x, m>> \notin OpToRel(<, Nat)
  BY WFMin, NatLessThanWellFounded, Zenon
<1>2. \A x \in S : ~ (x < m)
  BY <1>1, Zenon DEF OpToRel
<1> QED
  BY <1>2

LEMMA Divided ==
  ASSUME NEW p \in Nat, NEW d \in Nat \ {0}
  PROVE  /\ p \div d \in Nat /\ p % d \in Nat /\ p % d < d
         /\ p = ((p \div d) * d) + (p % d)
BY Z3

LEMMA ProductGrows ==
  ASSUME NEW a \in Nat, NEW b \in Nat, NEW d \in Nat, a <= b
  PROVE  a * d \in Nat /\ b * d \in Nat /\ a * d <= b * d
BY Z3

LEMMA QuotientGrows ==
  ASSUME NEW a \in Nat, NEW b \in Nat, NEW d \in Nat \ {0}, a <= b
  PROVE  a \div d <= b \div d
BY Z3

Euclid(p, q, d, r) == q \in Nat /\ d \in Nat \ {0} /\ r \in Nat /\ r < d /\ p = (q * d) + r

LEMMA DividedOnce ==
  ASSUME NEW p, NEW q, NEW d, NEW r, Euclid(p, q, d, r)
  PROVE  p \div d = q /\ p % d = r
<1> q \in Nat /\ d \in Nat \ {0} /\ r \in Nat /\ r < d /\ p = (q * d) + r
  BY DEF Euclid
<1>0. p \in Nat
  BY ProductGrows
<1>1. PICK x \in Nat, s \in Nat : x = p \div d /\ s = p % d /\ s < d /\ p = x * d + s
  BY <1>0, Divided, ZenonT(40)
<1>2. ASSUME NEW a \in Nat, NEW b \in Nat, a < b, NEW u \in Nat, NEW v \in Nat, u < d
      PROVE  a * d + u # b * d + v
  <2>1. (a + 1) * d <= b * d /\ b * d \in Nat /\ a * d \in Nat
    BY <1>2, ProductGrows
  <2>2. (a + 1) * d = a * d + d
    BY Z3
  <2> QED
    BY <1>2, <2>1, <2>2
<1>3. x = q
  <2>1. ~ (x < q)
    BY <1>1, <1>2
  <2>2. ~ (q < x)
    BY <1>1, <1>2
  <2> QED
    BY <2>1, <2>2
<1>4. q * d \in Nat
  BY ProductGrows
<1> QED
  BY <1>1, <1>3, <1>4

(* A function given step by step exists, where the steps are. *)
StepsIn(n, D, x, G) == n \in Nat /\ x \in D /\ \A k \in 1 .. n : \A d \in D : G[k][d] \in D

Stepped(n, D, x, G, f) ==
  f \in [0 .. n -> D] /\ f[0] = x /\ \A k \in 1 .. n : f[k] = G[k][f[k - 1]]

LEMMA StepsMakeFunction ==
  ASSUME NEW n, NEW D, NEW x, NEW G, StepsIn(n, D, x, G)
  PROVE  \E f : Stepped(n, D, x, G, f)
<1> n \in Nat /\ x \in D /\ \A k \in 1 .. n : \A d \in D : G[k][d] \in D
  BY DEF StepsIn
<1> DEFINE Upto(m, f) == f \in [0 .. m -> D] /\ f[0] = x /\ \A k \in 1 .. m : f[k] = G[k][f[k - 1]]
           bad == {m \in 0 .. n : \A f : ~ Upto(m, f)}
<1>1. bad = {}
  <2> SUFFICES ASSUME bad # {} PROVE FALSE
    OBVIOUS
  <2>0. bad \in SUBSET Nat
    <3> HIDE DEF Upto
    <3> QED
      OBVIOUS
  <2>1. PICK m \in bad : \A y \in bad : m <= y
    <3> HIDE DEF bad
    <3> QED
      BY <2>0, LeastNat
  <2>2. m \in 0 .. n /\ \A f : ~ Upto(m, f)
    BY <2>1
  <2>3. m # 0
    <3>1. Upto(0, [k \in 0 .. 0 |-> x])
      <4>1. [k \in 0 .. 0 |-> x] \in [0 .. 0 -> D] /\ [k \in 0 .. 0 |-> x][0] = x /\ 1 .. 0 = {}
        OBVIOUS
      <4> QED
        BY <4>1
    <3> HIDE DEF Upto
    <3> QED
      BY <2>2, <3>1
  <2>4. m - 1 \in 0 .. n /\ m - 1 \notin bad
    <3> HIDE DEF bad
    <3> QED
      BY <2>1, <2>2, <2>3
  <2>5. PICK f : Upto(m - 1, f)
    BY <2>4
  <2>6. PICK g : g = [k \in 0 .. m |-> IF k = m THEN G[m][f[m - 1]] ELSE f[k]]
    OBVIOUS
  <2>7. f[m - 1] \in D /\ G[m][f[m - 1]] \in D
    BY <2>2, <2>3, <2>5
  <2>8. g \in [0 .. m -> D] /\ g[0] = x
    BY <2>2, <2>3, <2>5, <2>6, <2>7
  <2>9. ASSUME NEW k \in 1 .. m PROVE g[k] = G[k][g[k - 1]]
    <3>1. CASE k = m
      BY <2>2, <2>3, <2>6, <3>1
    <3>2. CASE k # m
      <4>1. k \in 1 .. m - 1 /\ k \in 0 .. m /\ k - 1 \in 0 .. m /\ k - 1 # m
        BY <2>2, <3>2
      <4>2. g[k] = f[k] /\ g[k - 1] = f[k - 1]
        BY <2>6, <3>2, <4>1
      <4> QED
        BY <2>5, <4>1, <4>2
    <3> QED
      BY <3>1, <3>2
  <2>10. Upto(m, g)
    BY <2>8, <2>9
  <2> HIDE DEF Upto
  <2> QED
    BY <2>2, <2>10
<1>2. n \notin bad /\ n \in 0 .. n
  <2> HIDE DEF bad
  <2> QED
    BY <1>1
<1>3. PICK f : Upto(n, f)
  <2> HIDE DEF Upto
  <2> QED
    BY <1>2
<1>4. Stepped(n, D, x, G, f)
  BY <1>3 DEF Stepped
<1> QED
  BY <1>4

-----------------------------------------------------------------------------
(***************************************************************************)
(* The points of a sweep are the numbers of a mixed radix: every axis a    *)
(* digit, its stride the weight.                                           *)
(***************************************************************************)
Radix(n, size, weight) ==
  /\ n \in Nat
  /\ \A k \in 1 .. n : size[k] \in Nat \ {0}
  /\ \A k \in 0 .. n : weight[k] \in Nat \ {0}
  /\ weight[n] = 1
  /\ \A k \in 1 .. n : weight[k - 1] = weight[k] * size[k]

Digit(size, weight, p, k) == ((p \div weight[k]) % size[k]) + 1

(* What p makes of the digits up to k. *)
LEMMA Leading ==
  ASSUME NEW n, NEW size, NEW weight, Radix(n, size, weight),
         NEW p \in 0 .. weight[0] - 1
  PROVE  /\ p \div weight[0] = 0 /\ p \div weight[n] = p
         /\ \A k \in 1 .. n :
              /\ Digit(size, weight, p, k) \in 1 .. size[k]
              /\ p \div weight[k]
                   = ((p \div weight[k - 1]) * size[k]) + (Digit(size, weight, p, k) - 1)
<1>0. n \in Nat /\ 0 \in 0 .. n /\ weight[0] \in Nat \ {0} /\ p \in Nat /\ p < weight[0]
  <2>1. n \in Nat /\ 0 \in 0 .. n
    BY DEF Radix
  <2>2. weight[0] \in Nat \ {0}
    BY <2>1 DEF Radix
  <2> QED
    BY <2>1, <2>2
<1>1. p \div weight[0] = 0
  <2>1. PICK w \in Nat \ {0} : w = weight[0]
    BY <1>0
  <2>2. Euclid(p, 0, w, p)
    BY <1>0, <2>1 DEF Euclid
  <2>3. p \div w = 0
    BY <2>2, DividedOnce
  <2> QED
    BY <2>1, <2>3
<1>2. p \div weight[n] = p
  <2>1. weight[n] = 1
    BY DEF Radix
  <2>2. p \div 1 = p
    BY <1>0
  <2> QED
    BY <2>1, <2>2
<1>3. ASSUME NEW k \in 1 .. n
      PROVE  /\ Digit(size, weight, p, k) \in 1 .. size[k]
             /\ p \div weight[k]
                  = ((p \div weight[k - 1]) * size[k]) + (Digit(size, weight, p, k) - 1)
  <2>1. k \in 0 .. n
    BY <1>0
  <2>2. PICK w \in Nat \ {0}, s \in Nat \ {0} :
          w = weight[k] /\ s = size[k] /\ weight[k - 1] = w * s
    BY <2>1 DEF Radix
  <2>3. PICK q \in Nat, r \in Nat : q = p \div w /\ r < w /\ p = (q * w) + r
    BY <1>0, Divided
  <2>4. PICK a \in Nat, d \in Nat : a = q \div s /\ d = q % s /\ d < s /\ q = (a * s) + d
    BY Divided
  <2>5. p = (a * (w * s)) + (d * w + r)
    <3>1. ((a * s) + d) * w = (a * (w * s)) + d * w
      BY Z3
    <3>2. q * w = (a * (w * s)) + d * w
      BY <2>4, <3>1
    <3>3. q * w \in Nat /\ a * (w * s) \in Nat /\ d * w \in Nat
      BY ProductGrows
    <3> QED
      BY <2>3, <3>2, <3>3
  <2>6. d * w + r \in Nat /\ d * w + r < w * s /\ w * s \in Nat \ {0}
    <3>1. (d + 1) * w <= s * w /\ s * w \in Nat /\ (d + 1) * w \in Nat
      BY <2>4, ProductGrows
    <3>2. (d + 1) * w = d * w + w /\ s * w = w * s
      BY Z3
    <3>3. d * w \in Nat
      BY ProductGrows
    <3> QED
      BY <2>3, <3>1, <3>2, <3>3
  <2>7. PICK x \in Nat, y \in Nat \ {0} : x = d * w + r /\ y = w * s
    BY <2>6
  <2>8. p \div y = a
    <3>1. Euclid(p, a, y, x)
      BY <2>5, <2>6, <2>7 DEF Euclid
    <3> QED
      BY <3>1, DividedOnce
  <2>9. Digit(size, weight, p, k) = d + 1
    BY <2>2, <2>3, <2>4 DEF Digit
  <2>10. d + 1 \in 1 .. s /\ d + 1 - 1 = d
    BY <2>4
  <2>11. p \div weight[k - 1] = a
    BY <2>2, <2>7, <2>8
  <2> QED
    BY <2>2, <2>3, <2>4, <2>9, <2>10, <2>11
<1> QED
  BY <1>1, <1>2, <1>3

(* Points are in the order of their digits. *)
LEMMA DigitsInOrder ==
  ASSUME NEW n, NEW size, NEW weight, Radix(n, size, weight),
         NEW p \in 0 .. weight[0] - 1, NEW q \in 0 .. weight[0] - 1, p < q
  PROVE  \E k \in 1 .. n :
           /\ Digit(size, weight, p, k) < Digit(size, weight, q, k)
           /\ \A j \in 1 .. k - 1 : Digit(size, weight, p, j) = Digit(size, weight, q, j)
<1> DEFINE apart == {k \in 0 .. n : p \div weight[k] # q \div weight[k]}
<1>1. n \in Nat /\ \A k \in 0 .. n : weight[k] \in Nat \ {0}
  BY DEF Radix
<1>2. /\ p \div weight[0] = 0 /\ p \div weight[n] = p
      /\ q \div weight[0] = 0 /\ q \div weight[n] = q
  BY Leading
<1>3. n \in apart /\ 0 \notin apart /\ apart \in SUBSET Nat
  BY <1>1, <1>2
<1>4. PICK k \in apart : \A j \in apart : k <= j
  <2> HIDE DEF apart
  <2> QED
    BY <1>3, LeastNat
<1>5. k \in 1 .. n
  BY <1>3, <1>4
<1>6. ASSUME NEW j \in 0 .. k - 1
      PROVE  p \div weight[j] = q \div weight[j]
  <2>1. j \in 0 .. n /\ j \notin apart
    <3>1. j \in 0 .. n /\ ~ (k <= j)
      BY <1>1, <1>5
    <3> HIDE DEF apart
    <3> QED
      BY <1>4, <3>1
  <2> QED
    BY <2>1
<1>7. ASSUME NEW j \in 1 .. n
      PROVE  /\ Digit(size, weight, p, j) \in 1 .. size[j]
             /\ Digit(size, weight, q, j) \in 1 .. size[j]
             /\ p \div weight[j] = ((p \div weight[j - 1]) * size[j]) + (Digit(size, weight, p, j) - 1)
             /\ q \div weight[j] = ((q \div weight[j - 1]) * size[j]) + (Digit(size, weight, q, j) - 1)
             /\ Digit(size, weight, p, j) \in Nat /\ Digit(size, weight, q, j) \in Nat
             /\ size[j] \in Nat /\ p \div weight[j] \in Nat /\ q \div weight[j] \in Nat
             /\ p \div weight[j - 1] \in Nat
  <2>1. j \in 0 .. n /\ j - 1 \in 0 .. n
    BY <1>1
  <2>2. PICK w \in Nat \ {0}, v \in Nat \ {0} : w = weight[j] /\ v = weight[j - 1]
    BY <1>1, <2>1
  <2>3. p \in Nat /\ q \in Nat
    OBVIOUS
  <2>4. p \div w \in Nat /\ q \div w \in Nat /\ p \div v \in Nat
    BY <2>3, Divided
  <2>5. size[j] \in Nat
    BY DEF Radix
  <2>6. /\ Digit(size, weight, p, j) \in 1 .. size[j]
        /\ Digit(size, weight, q, j) \in 1 .. size[j]
        /\ p \div weight[j] = ((p \div weight[j - 1]) * size[j]) + (Digit(size, weight, p, j) - 1)
        /\ q \div weight[j] = ((q \div weight[j - 1]) * size[j]) + (Digit(size, weight, q, j) - 1)
    BY Leading
  <2>7. Digit(size, weight, p, j) \in Nat /\ Digit(size, weight, q, j) \in Nat
    BY <2>5, <2>6
  <2> QED
    BY <2>2, <2>4, <2>5, <2>6, <2>7
<1>8. ASSUME NEW j \in 1 .. k - 1
      PROVE  Digit(size, weight, p, j) = Digit(size, weight, q, j)
  <2>1. j \in 1 .. n /\ j \in 0 .. k - 1 /\ j - 1 \in 0 .. k - 1
    BY <1>1, <1>5
  <2>2. PICK s \in Nat, a \in Nat, b \in Nat, c \in Nat, d \in Nat :
          /\ s = size[j] /\ a = p \div weight[j - 1] /\ b = p \div weight[j]
          /\ c = Digit(size, weight, p, j) /\ d = Digit(size, weight, q, j)
    BY <1>7, <2>1, Zenon
  <2>3. b = (a * s) + (c - 1) /\ b = (a * s) + (d - 1)
    BY <1>6, <1>7, <2>1, <2>2
  <2>4. a * s \in Nat
    BY ProductGrows
  <2> QED
    BY <2>2, <2>3, <2>4
<1>9. Digit(size, weight, p, k) < Digit(size, weight, q, k)
  <2>1. k - 1 \in 0 .. k - 1 /\ k \in 0 .. n
    BY <1>1, <1>5
  <2>2. PICK s \in Nat, a \in Nat, b \in Nat, e \in Nat, c \in Nat, d \in Nat :
          /\ s = size[k] /\ a = p \div weight[k - 1] /\ b = p \div weight[k]
          /\ e = q \div weight[k]
          /\ c = Digit(size, weight, p, k) /\ d = Digit(size, weight, q, k)
    BY <1>5, <1>7, Zenon
  <2>3. b = (a * s) + (c - 1) /\ e = (a * s) + (d - 1)
    BY <1>5, <1>6, <1>7, <2>1, <2>2
  <2>4. b < e
    <3>1. PICK w \in Nat \ {0} : w = weight[k]
      BY <1>1, <2>1
    <3>2. p \in Nat /\ q \in Nat /\ p <= q
      OBVIOUS
    <3>3. p \div w <= q \div w
      BY <3>2, QuotientGrows
    <3>4. b # e
      BY <1>4, <2>2
    <3> QED
      BY <2>2, <3>1, <3>3, <3>4
  <2>5. a * s \in Nat
    BY ProductGrows
  <2> QED
    BY <2>2, <2>3, <2>4, <2>5
<1> QED
  BY <1>5, <1>8, <1>9

(* Every choice of digits is a point. *)
LEMMA DigitsMakePoint ==
  ASSUME NEW n, NEW size, NEW weight, Radix(n, size, weight),
         NEW v, \A k \in 1 .. n : v[k] \in 1 .. size[k]
  PROVE  \E p \in 0 .. weight[0] - 1 : \A k \in 1 .. n : Digit(size, weight, p, k) = v[k]
<1>1. /\ n \in Nat /\ weight[n] = 1
      /\ \A k \in 0 .. n : weight[k] \in Nat \ {0}
      /\ \A k \in 1 .. n : /\ size[k] \in Nat \ {0} /\ v[k] \in Nat \ {0} /\ v[k] <= size[k]
                           /\ weight[k - 1] = weight[k] * size[k]
  BY DEF Radix
<1>2. PICK lead \in [0 .. n -> Nat] :
        lead[0] = 0 /\ \A k \in 1 .. n : lead[k] = (lead[k - 1] * size[k]) + (v[k] - 1)
  <2>1. PICK G : G = [k \in 1 .. n |-> [d \in Nat |-> (d * size[k]) + (v[k] - 1)]]
    OBVIOUS
  <2>2. ASSUME NEW k \in 1 .. n, NEW d \in Nat
        PROVE  G[k][d] = (d * size[k]) + (v[k] - 1) /\ G[k][d] \in Nat
    <3>1. PICK s \in Nat, x \in Nat \ {0} : s = size[k] /\ x = v[k]
      BY <1>1
    <3>2. PICK m \in Nat : m = d * s
      BY ProductGrows
    <3>3. G[k][d] = (d * s) + (x - 1)
      BY <2>1, <3>1
    <3>4. m + (x - 1) \in Nat
      BY <3>2
    <3> QED
      BY <3>1, <3>2, <3>3, <3>4
  <2>3. \A k \in 1 .. n : \A d \in Nat : G[k][d] \in Nat
    BY <2>2
  <2>4. 0 \in Nat /\ n \in Nat
    BY <1>1
  <2>5. PICK f \in [0 .. n -> Nat] : f[0] = 0 /\ \A k \in 1 .. n : f[k] = G[k][f[k - 1]]
    <3>1. StepsIn(n, Nat, 0, G)
      BY <2>3, <2>4 DEF StepsIn
    <3>2. PICK f : Stepped(n, Nat, 0, G, f)
      BY <3>1, StepsMakeFunction
    <3>3. f \in [0 .. n -> Nat] /\ f[0] = 0 /\ \A k \in 1 .. n : f[k] = G[k][f[k - 1]]
      BY <3>2 DEF Stepped
    <3> QED
      BY <3>3, Zenon
  <2>6. ASSUME NEW k \in 1 .. n PROVE f[k] = (f[k - 1] * size[k]) + (v[k] - 1)
    <3>1. k - 1 \in 0 .. n
      BY <1>1
    <3>2. f[k - 1] \in Nat
      BY <3>1
    <3> QED
      BY <2>2, <2>5, <3>2
  <2> QED
    BY <2>5, <2>6
<1>3. PICK p \in Nat : p = lead[n]
  BY <1>1
<1> DEFINE Within(k) == lead[k] * weight[k] <= p /\ p < (lead[k] + 1) * weight[k]
           bad == {m \in 0 .. n : ~ Within(n - m)}
<1>4. bad = {}
  <2> SUFFICES ASSUME bad # {} PROVE FALSE
    OBVIOUS
  <2>1. PICK m \in bad : \A x \in bad : m <= x
    <3>1. bad \in SUBSET Nat
      OBVIOUS
    <3> HIDE DEF bad
    <3> QED
      BY <3>1, LeastNat
  <2>2. m \in 0 .. n /\ ~ Within(n - m)
    BY <2>1
  <2>3. m # 0
    <3>1. n - 0 = n /\ p * 1 = p /\ p < (p + 1) * 1
      BY <1>1
    <3>2. Within(n)
      BY <1>1, <1>3, <3>1
    <3> HIDE DEF Within
    <3> QED
      BY <2>2, <3>1, <3>2
  <2>4. PICK k \in 1 .. n : k = n - (m - 1) /\ k - 1 = n - m
    BY <1>1, <2>2, <2>3
  <2>5. Within(k)
    <3>1. m - 1 \in 0 .. n /\ m - 1 \notin bad
      <4>1. m - 1 \in 0 .. n /\ ~ (m <= m - 1)
        BY <1>1, <2>2, <2>3
      <4> HIDE DEF bad
      <4> QED
        BY <2>1, <4>1
    <3> HIDE DEF Within
    <3> QED
      BY <2>4, <3>1
  <2>6. k \in 0 .. n /\ k - 1 \in 0 .. n
    BY <1>1
  <2>7. PICK a \in Nat, b \in Nat, w \in Nat, s \in Nat, x \in Nat \ {0} :
          /\ a = lead[k - 1] /\ b = lead[k] /\ w = weight[k] /\ s = size[k] /\ x = v[k]
          /\ x <= s /\ weight[k - 1] = w * s /\ b = (a * s) + (x - 1)
    <3>1. /\ lead[k - 1] \in Nat /\ lead[k] \in Nat /\ weight[k] \in Nat /\ size[k] \in Nat
          /\ v[k] \in Nat \ {0}
      BY <1>1, <2>6
    <3>2. /\ v[k] <= size[k] /\ weight[k - 1] = weight[k] * size[k]
          /\ lead[k] = (lead[k - 1] * size[k]) + (v[k] - 1)
      BY <1>1, <1>2
    <3> QED
      BY <3>1, <3>2, Zenon
  <2>8. b * w <= p /\ p < (b + 1) * w
    BY <2>5, <2>7
  <2>9. a * (w * s) <= b * w
    <3>1. a * s <= b
      <4>1. PICK z \in Nat : z = a * s
        BY ProductGrows
      <4>2. PICK y \in Nat : y = x - 1 /\ b = z + y
        BY <2>7, <4>1, SMTT(30)
      <4>3. z <= b
        BY <4>2
      <4> QED
        BY <4>1, <4>3
    <3>2. a * s \in Nat
      BY ProductGrows
    <3>3. (a * s) * w <= b * w
      BY <3>1, <3>2, ProductGrows
    <3>4. (a * s) * w = a * (w * s)
      BY Z3
    <3> QED
      BY <3>3, <3>4
  <2>10. (b + 1) * w <= (a + 1) * (w * s)
    <3>1. b + 1 <= (a + 1) * s
      <4>1. PICK z \in Nat : z = a * s
        BY ProductGrows
      <4>2. (a + 1) * s = z + s
        BY <4>1, Z3
      <4>3. b = z + (x - 1) /\ x <= s
        BY <2>7, <4>1
      <4>4. b + 1 <= z + s
        BY <4>3
      <4> QED
        BY <4>2, <4>4
    <3>2. (a + 1) * s \in Nat /\ b + 1 \in Nat
      BY ProductGrows
    <3>3. (b + 1) * w <= ((a + 1) * s) * w
      BY <3>1, <3>2, ProductGrows
    <3>4. ((a + 1) * s) * w = (a + 1) * (w * s)
      BY Z3
    <3> QED
      BY <3>3, <3>4
  <2>11. /\ a * (w * s) \in Nat /\ b * w \in Nat /\ (b + 1) * w \in Nat
         /\ (a + 1) * (w * s) \in Nat
    <3>1. w * s \in Nat
      BY ProductGrows
    <3> QED
      BY <3>1, ProductGrows
  <2>12. a * (w * s) <= p /\ p < (a + 1) * (w * s)
    <3>1. PICK y1 \in Nat, y2 \in Nat, y3 \in Nat, y4 \in Nat :
            /\ y1 = a * (w * s) /\ y2 = b * w /\ y3 = (b + 1) * w /\ y4 = (a + 1) * (w * s)
      BY <2>11, Zenon
    <3>2. y1 <= y2 /\ y2 <= p /\ p < y3 /\ y3 <= y4
      BY <2>8, <2>9, <2>10, <3>1
    <3>3. y1 <= p /\ p < y4
      BY <3>2
    <3> QED
      BY <3>1, <3>3
  <2>13. Within(k - 1)
    BY <2>7, <2>12
  <2> HIDE DEF Within
  <2> QED
    BY <2>2, <2>4, <2>13
<1>5. ASSUME NEW k \in 0 .. n PROVE p \div weight[k] = lead[k]
  <2>1. Within(k)
    <3>1. n - k \in 0 .. n /\ n - (n - k) = k /\ n - k \notin bad
      <4> HIDE DEF bad
      <4> QED
        BY <1>1, <1>4
    <3> HIDE DEF Within
    <3> QED
      BY <3>1
  <2>2. PICK a \in Nat, w \in Nat \ {0} : a = lead[k] /\ w = weight[k]
    BY <1>1
  <2>3. a * w <= p /\ p < (a + 1) * w
    BY <2>1, <2>2
  <2>4. a * w \in Nat /\ (a + 1) * w = a * w + w
    BY ProductGrows, Z3
  <2>5. PICK r \in Nat : r = p - a * w /\ r < w
    BY <2>3, <2>4
  <2>6. Euclid(p, a, w, r)
    BY <2>4, <2>5 DEF Euclid
  <2> QED
    BY <2>2, <2>6, DividedOnce
<1> HIDE DEF bad
<1>6. p \in 0 .. weight[0] - 1
  <2>1. Within(0)
    <3>1. n \in 0 .. n /\ n - n = 0 /\ n \notin bad
      BY <1>1, <1>4
    <3> HIDE DEF Within
    <3> QED
      BY <3>1 DEF bad
  <2>2. PICK w \in Nat \ {0} : w = weight[0]
    BY <1>1
  <2>3. p < (0 + 1) * w
    BY <1>2, <2>1, <2>2
  <2>4. (0 + 1) * w = w
    BY <2>2
  <2> QED
    BY <2>2, <2>3, <2>4
<1>7. ASSUME NEW k \in 1 .. n PROVE Digit(size, weight, p, k) = v[k]
  <2>1. k \in 0 .. n /\ k - 1 \in 0 .. n
    BY <1>1
  <2>2. PICK a \in Nat, b \in Nat, s \in Nat \ {0}, x \in Nat \ {0} :
          /\ a = lead[k - 1] /\ b = lead[k] /\ s = size[k] /\ x = v[k]
          /\ x <= s /\ b = (a * s) + (x - 1)
    <3>1. /\ lead[k - 1] \in Nat /\ lead[k] \in Nat /\ size[k] \in Nat \ {0}
          /\ v[k] \in Nat \ {0}
      BY <1>1, <2>1
    <3>2. v[k] <= size[k] /\ lead[k] = (lead[k - 1] * size[k]) + (v[k] - 1)
      BY <1>1, <1>2
    <3> QED
      BY <3>1, <3>2, Zenon
  <2>3. x - 1 \in Nat /\ x - 1 < s
    <3>1. x <= s
      BY <2>2
    <3> QED
      BY <3>1
  <2>4. PICK y \in Nat : y = x - 1 /\ y < s
    BY <2>3
  <2>5. b = (a * s) + y
    <3>1. y = x - 1 /\ b = (a * s) + (x - 1)
      BY <2>2, <2>4
    <3> QED
      BY <3>1, Zenon
  <2>6. b % s = y
    <3>1. y < s
      BY <2>4
    <3>2. Euclid(b, a, s, y)
      BY <2>5, <3>1, Zenon DEF Euclid
    <3> QED
      BY <3>2, DividedOnce
  <2>7. p \div weight[k] = b
    BY <1>5, <2>1, <2>2
  <2> QED
    BY <2>2, <2>4, <2>6, <2>7 DEF Digit
<1> QED
  BY <1>6, <1>7

-----------------------------------------------------------------------------
(* Axes a sweep accepts: no value list is empty. *)
Ready(axes) ==
  IsList(axes) /\ \A k \in DOMAIN axes : IsList(axes[k].values) /\ Sizes(axes)[k] # 0

LEMMA ReadySizes ==
  ASSUME NEW axes, Ready(axes)
  PROVE  /\ Len(axes) \in Nat /\ DOMAIN axes = 1 .. Len(axes)
         /\ \A k \in 1 .. Len(axes) : Sizes(axes)[k] \in Nat \ {0}
BY DEF Ready, IsList, Sizes

LEMMA StridesAreWeights ==
  ASSUME NEW axes, Ready(axes)
  PROVE  Radix(Len(axes), Sizes(axes), Strides(axes))
<1>1. PICK n, size : n \in Nat /\ n = Len(axes) /\ size = Sizes(axes)
  BY ReadySizes
<1> n \in Nat
  BY <1>1
<1>2. \A k \in 1 .. n : size[k] \in Nat \ {0}
  BY <1>1, ReadySizes
<1> DEFINE Rule(w) == w = [k \in 0 .. n |-> IF k = n THEN 1 ELSE w[k + 1] * size[k + 1]]
<1>3. \E w : Rule(w)
  <2>1. PICK D, G : /\ D = Nat
                    /\ G = [k \in 1 .. n |-> [d \in D |-> d * size[n - k + 1]]]
    OBVIOUS
  <2>2. StepsIn(n, D, 1, G)
    <3>1. ASSUME NEW k \in 1 .. n, NEW d \in D PROVE G[k][d] \in D
      <4>1. n - k + 1 \in 1 .. n
        OBVIOUS
      <4>2. PICK s \in Nat : s = size[n - k + 1]
        BY <1>2, <4>1
      <4>3. d * s \in Nat
        BY <2>1, ProductGrows
      <4> QED
        BY <2>1, <4>2, <4>3
    <3> QED
      BY <2>1, <3>1 DEF StepsIn
  <2>3. PICK f : Stepped(n, D, 1, G, f)
    BY <2>2, StepsMakeFunction
  <2>4. PICK w : w = [k \in 0 .. n |-> f[n - k]]
    OBVIOUS
  <2>5. ASSUME NEW k \in 0 .. n
        PROVE  w[k] = IF k = n THEN 1 ELSE w[k + 1] * size[k + 1]
    <3>1. CASE k = n
      <4>1. n - k = 0
        BY <3>1
      <4> QED
        BY <2>3, <2>4, <3>1, <4>1 DEF Stepped
    <3>2. CASE k # n
      <4>1. PICK j \in 1 .. n : j = n - k /\ j - 1 = n - (k + 1) /\ n - j + 1 = k + 1
        BY <3>2
      <4>2. k + 1 \in 0 .. n
        BY <3>2
      <4>3. f[j - 1] \in D /\ f[j] = G[j][f[j - 1]]
        BY <2>3, <4>1 DEF Stepped
      <4>4. f[j] = f[j - 1] * size[n - j + 1]
        BY <2>1, <4>3
      <4>5. w[k] = f[j] /\ w[k + 1] = f[j - 1]
        BY <2>4, <4>1, <4>2
      <4> QED
        BY <3>2, <4>1, <4>4, <4>5
    <3> QED
      BY <3>1, <3>2
  <2>6. w = [k \in 0 .. n |-> w[k]]
    BY <2>4
  <2>7. Rule(w)
    BY <2>5, <2>6
  <2> QED
    BY <2>7
<1>4. PICK w : w = Strides(axes) /\ w = [k \in 0 .. n |-> IF k = n THEN 1 ELSE w[k + 1] * size[k + 1]]
  <2>1. Strides(axes) = CHOOSE w : Rule(w)
    BY <1>1 DEF Strides
  <2>2. Rule(Strides(axes))
    <3> HIDE DEF Rule
    <3> QED
      BY <1>3, <2>1
  <2> QED
    BY <2>2
<1> HIDE DEF Rule
<1>5. w[n] = 1 /\ \A k \in 1 .. n : w[k - 1] = w[k] * size[k]
  <2>1. w[n] = 1
    <3>1. n \in 0 .. n
      OBVIOUS
    <3> QED
      BY <1>4, <3>1
  <2>2. ASSUME NEW k \in 1 .. n PROVE w[k - 1] = w[k] * size[k]
    <3>1. k - 1 \in 0 .. n /\ k - 1 # n /\ (k - 1) + 1 = k
      OBVIOUS
    <3>2. w[k - 1] = w[(k - 1) + 1] * size[(k - 1) + 1]
      BY <1>4, <3>1
    <3> QED
      BY <3>1, <3>2
  <2> QED
    BY <2>1, <2>2
<1> DEFINE bad == {m \in 0 .. n : w[n - m] \notin Nat \ {0}}
<1>6. bad = {}
  <2> SUFFICES ASSUME bad # {} PROVE FALSE
    OBVIOUS
  <2>1. PICK m \in bad : \A x \in bad : m <= x
    <3>1. bad \in SUBSET Nat
      OBVIOUS
    <3> HIDE DEF bad
    <3> QED
      BY <3>1, LeastNat
  <2>2. m \in 0 .. n /\ w[n - m] \notin Nat \ {0}
    OBVIOUS
  <2>3. m # 0
    BY <1>5, <2>2
  <2>4. PICK k \in 1 .. n : k = n - (m - 1) /\ k - 1 = n - m
    BY <2>2, <2>3
  <2>5. w[k] \in Nat \ {0}
    <3>1. m - 1 \in 0 .. n /\ m - 1 \notin bad
      <4>1. m - 1 \in 0 .. n /\ ~ (m <= m - 1)
        BY <2>2, <2>3
      <4> HIDE DEF bad
      <4> QED
        BY <2>1, <4>1
    <3> QED
      BY <2>4, <3>1
  <2>6. PICK a \in Nat \ {0}, s \in Nat \ {0} : a = w[k] /\ s = size[k]
    BY <1>2, <2>5
  <2>7. a * s \in Nat \ {0}
    BY Z3
  <2>8. w[k - 1] = a * s
    BY <1>5, <2>6
  <2> QED
    BY <2>2, <2>4, <2>7, <2>8
<1>7. ASSUME NEW k \in 0 .. n PROVE w[k] \in Nat \ {0}
  <2>1. n - k \in 0 .. n /\ n - (n - k) = k /\ n - k \notin bad
    <3> HIDE DEF bad
    <3> QED
      BY <1>6
  <2> QED
    BY <2>1
<1>8. Radix(n, size, w)
  BY <1>2, <1>5, <1>7 DEF Radix
<1> QED
  BY <1>1, <1>4, <1>8

(* The indices point_axis_indices gives a point. *)
Indices(axes, p) == [k \in DOMAIN axes |-> AxisIndex(axes, p, k)]

LEMMA BeforeIsOneWay ==
  ASSUME NEW axes, Ready(axes), NEW u \in Vectors(axes), NEW v \in Vectors(axes),
         Before(u, v)
  PROVE  ~ Before(v, u)
<1>1. PICK n \in Nat : n = Len(axes) /\ DOMAIN axes = 1 .. n
  BY ReadySizes
<1>2. DOMAIN u = 1 .. n /\ DOMAIN v = 1 .. n /\ \A k \in 1 .. n : u[k] \in Int /\ v[k] \in Int
  <2>1. UNION {1 .. Sizes(axes)[k] : k \in DOMAIN axes} \subseteq Int
    OBVIOUS
  <2> QED
    BY <1>1, <2>1 DEF Vectors
<1>3. PICK k \in 1 .. n : u[k] < v[k] /\ \A j \in 1 .. k - 1 : u[j] = v[j]
  BY <1>2 DEF Before
<1> SUFFICES ASSUME Before(v, u) PROVE FALSE
  OBVIOUS
<1>4. PICK l \in 1 .. n : v[l] < u[l] /\ \A j \in 1 .. l - 1 : v[j] = u[j]
  BY <1>2 DEF Before
<1>5. CASE k < l
  <2>1. k \in 1 .. l - 1
    BY <1>5
  <2>2. v[k] = u[k]
    BY <1>4, <2>1
  <2> QED
    BY <1>2, <1>3, <2>2
<1>6. CASE l < k
  <2>1. l \in 1 .. k - 1
    BY <1>6
  <2>2. u[l] = v[l]
    BY <1>3, <2>1
  <2> QED
    BY <1>2, <1>4, <2>2
<1>7. CASE k = l
  BY <1>2, <1>3, <1>4, <1>7
<1> QED
  BY <1>5, <1>6, <1>7

LEMMA IndicesAreVectors ==
  ASSUME NEW axes, Ready(axes), NEW p \in 0 .. TotalPoints(axes) - 1
  PROVE  Indices(axes, p) \in Vectors(axes)
<1>1. PICK n, size, weight :
        /\ n = Len(axes) /\ size = Sizes(axes) /\ weight = Strides(axes)
        /\ Radix(n, size, weight) /\ DOMAIN axes = 1 .. n
  BY StridesAreWeights, ReadySizes
<1>2. p \in 0 .. weight[0] - 1
  BY <1>1 DEF TotalPoints
<1>3. \A k \in 1 .. n : Digit(size, weight, p, k) \in 1 .. size[k]
  BY <1>1, <1>2, Leading
<1>4. \A k \in DOMAIN axes : AxisIndex(axes, p, k) \in 1 .. Sizes(axes)[k]
  BY <1>1, <1>3 DEF AxisIndex, Digit
<1>5. \A k \in DOMAIN axes : \A x \in 1 .. Sizes(axes)[k] : x <= Sizes(axes)[k]
  BY <1>1, ReadySizes
<1> QED
  BY <1>4, <1>5 DEF Indices, Vectors

LEMMA IndicesInOrder ==
  ASSUME NEW axes, Ready(axes), NEW p \in 0 .. TotalPoints(axes) - 1,
         NEW q \in 0 .. TotalPoints(axes) - 1, p < q
  PROVE  Before(Indices(axes, p), Indices(axes, q))
<1>1. PICK n, size, weight :
        /\ n = Len(axes) /\ size = Sizes(axes) /\ weight = Strides(axes)
        /\ Radix(n, size, weight) /\ DOMAIN axes = 1 .. n /\ n \in Nat
  BY StridesAreWeights, ReadySizes
<1>2. p \in 0 .. weight[0] - 1 /\ q \in 0 .. weight[0] - 1
  BY <1>1 DEF TotalPoints
<1>3. PICK k \in 1 .. n :
        /\ Digit(size, weight, p, k) < Digit(size, weight, q, k)
        /\ \A j \in 1 .. k - 1 : Digit(size, weight, p, j) = Digit(size, weight, q, j)
  BY <1>1, <1>2, DigitsInOrder
<1>4. \A j \in 1 .. n : /\ Indices(axes, p)[j] = Digit(size, weight, p, j)
                        /\ Indices(axes, q)[j] = Digit(size, weight, q, j)
  BY <1>1 DEF Indices, AxisIndex, Digit
<1>5. \A j \in 1 .. k - 1 : j \in 1 .. n
  BY <1>1
<1>6. DOMAIN Indices(axes, p) = 1 .. n
  BY <1>1 DEF Indices
<1> QED
  BY <1>3, <1>4, <1>5, <1>6 DEF Before

LEMMA VectorsHavePoints ==
  ASSUME NEW axes, Ready(axes), NEW v \in Vectors(axes)
  PROVE  \E p \in 0 .. TotalPoints(axes) - 1 : v = Indices(axes, p)
<1>1. PICK n, size, weight :
        /\ n = Len(axes) /\ size = Sizes(axes) /\ weight = Strides(axes)
        /\ Radix(n, size, weight) /\ DOMAIN axes = 1 .. n
  BY StridesAreWeights, ReadySizes
<1>2. \A k \in 1 .. n : v[k] \in 1 .. size[k]
  <2>1. \A x \in UNION {1 .. Sizes(axes)[k] : k \in DOMAIN axes} : x \in Int /\ 1 <= x
    OBVIOUS
  <2>2. \A k \in 1 .. n : v[k] \in Int /\ 1 <= v[k] /\ v[k] <= size[k] /\ size[k] \in Nat
    BY <1>1, <2>1, ReadySizes DEF Vectors
  <2> QED
    BY <2>2
<1>3. PICK p \in 0 .. weight[0] - 1 : \A k \in 1 .. n : Digit(size, weight, p, k) = v[k]
  BY <1>1, <1>2, DigitsMakePoint, SMTT(30)
<1>4. p \in 0 .. TotalPoints(axes) - 1
  BY <1>1 DEF TotalPoints
<1>5. v = [k \in DOMAIN axes |-> v[k]]
  BY DEF Vectors
<1>6. \A k \in DOMAIN axes : v[k] = AxisIndex(axes, p, k)
  BY <1>1, <1>3 DEF AxisIndex, Digit
<1>7. v = Indices(axes, p)
  BY <1>5, <1>6 DEF Indices
<1> QED
  BY <1>4, <1>7

(* The vectors before those of point p are the p points before it. *)
LEMMA PointsBefore ==
  ASSUME NEW axes, Ready(axes), NEW p \in 0 .. TotalPoints(axes) - 1
  PROVE  Cardinality({u \in Vectors(axes) : Before(u, Indices(axes, p))}) = p
<1>1. PICK total \in Nat : total = TotalPoints(axes) /\ p < total
  <2>1. 0 \in 0 .. Len(axes)
    BY ReadySizes
  <2>2. TotalPoints(axes) \in Nat
    BY <2>1, StridesAreWeights DEF Radix, TotalPoints
  <2> QED
    BY <2>2
<1>2. PICK at : at = [q \in 0 .. total - 1 |-> Indices(axes, q)]
  OBVIOUS
<1>3. \A q \in 0 .. total - 1 : at[q] \in Vectors(axes)
  BY <1>1, <1>2, IndicesAreVectors
<1>4. \A q, r \in 0 .. total - 1 : q < r => Before(at[q], at[r]) /\ ~ Before(at[r], at[q]) /\ at[q] # at[r]
  <2> SUFFICES ASSUME NEW q \in 0 .. total - 1, NEW r \in 0 .. total - 1, q < r
               PROVE  Before(at[q], at[r]) /\ ~ Before(at[r], at[q]) /\ at[q] # at[r]
    OBVIOUS
  <2>1. Before(at[q], at[r])
    BY <1>1, <1>2, IndicesInOrder
  <2>2. ~ Before(at[r], at[q])
    BY <1>3, <2>1, BeforeIsOneWay
  <2> QED
    BY <2>1, <2>2
<1>5. ~ Before(at[p], at[p])
  <2>1. at[p] \in Vectors(axes)
    BY <1>1, <1>3
  <2> QED
    BY <2>1, BeforeIsOneWay
<1>6. PICK S, T : S = 0 .. p - 1 /\ T = {u \in Vectors(axes) : Before(u, Indices(axes, p))}
  OBVIOUS
<1>7. \A q \in S : q \in 0 .. total - 1 /\ q < p
  BY <1>1, <1>6
<1>8. p \in 0 .. total - 1 /\ at[p] = Indices(axes, p)
  BY <1>1, <1>2
<1>9. \A q \in S : at[q] \in T
  BY <1>3, <1>4, <1>6, <1>7, <1>8
<1>10. ASSUME NEW u \in T PROVE \E q \in S : at[q] = u
  <2>1. u \in Vectors(axes) /\ Before(u, at[p])
    BY <1>6, <1>8
  <2>2. PICK q \in 0 .. total - 1 : u = at[q]
    BY <1>1, <1>2, <2>1, VectorsHavePoints
  <2>3. ~ (p < q)
    BY <1>4, <1>8, <2>1, <2>2
  <2>4. q # p
    BY <1>5, <2>1, <2>2
  <2>5. q \in S
    BY <1>6, <1>8, <2>3, <2>4
  <2> QED
    BY <2>2, <2>5
<1>11. PICK f : f = [q \in S |-> at[q]]
  OBVIOUS
<1>12. f \in [S -> T] /\ \A q, r \in S : f[q] = f[r] => q = r
  <2>1. \A q, r \in S : q # r => at[q] # at[r]
    <3> SUFFICES ASSUME NEW q \in S, NEW r \in S, q # r PROVE at[q] # at[r]
      OBVIOUS
    <3>1. q < r \/ r < q
      BY <1>7
    <3> QED
      BY <1>4, <1>7, <3>1
  <2> QED
    BY <1>9, <1>11, <2>1
<1>13. ExistsBijection(S, T)
  <2>1. f \in Injection(S, T)
    BY <1>12 DEF Injection, IsInjective
  <2>2. f \in Surjection(S, T)
    BY <1>10, <1>11, <1>12 DEF Surjection
  <2> QED
    BY <2>1, <2>2 DEF ExistsBijection, Bijection
<1>14. IsFiniteSet(S) /\ Cardinality(S) = p
  BY <1>6, FS_Interval
<1> QED
  BY <1>6, <1>13, <1>14, FS_Bijection

(* What point_axis_indices makes of a number is the nth vector in the order of
   nested loops. *)
LEMMA ValuesAreNth ==
  ASSUME NEW axes, Ready(axes), NEW p \in 0 .. TotalPoints(axes) - 1
  PROVE  AxisValues(axes, p) = ValuesOf(axes, p)
<1> DEFINE Nth(v) == Cardinality({u \in Vectors(axes) : Before(u, v)}) = p
<1>1. Indices(axes, p) \in Vectors(axes) /\ Nth(Indices(axes, p))
  BY IndicesAreVectors, PointsBefore
<1>2. ASSUME NEW v \in Vectors(axes), Nth(v) PROVE v = Indices(axes, p)
  <2>1. PICK q \in 0 .. TotalPoints(axes) - 1 : v = Indices(axes, q)
    BY VectorsHavePoints
  <2>2. Cardinality({u \in Vectors(axes) : Before(u, v)}) = q
    BY <2>1, PointsBefore
  <2> QED
    BY <1>2, <2>1, <2>2
<1>3. (CHOOSE v \in Vectors(axes) : Nth(v)) = Indices(axes, p)
  <2> HIDE DEF Nth
  <2> QED
    BY <1>1, <1>2
<1>4. PICK nth : /\ nth = CHOOSE v \in Vectors(axes) :
                              Cardinality({u \in Vectors(axes) : Before(u, v)}) = p
                 /\ nth = Indices(axes, p)
  BY <1>3
<1>5. ValuesOf(axes, p) = [k \in DOMAIN axes |-> axes[k].values[nth[k]]]
  BY <1>4 DEF ValuesOf
<1> QED
  BY <1>4, <1>5 DEF AxisValues, Indices

-----------------------------------------------------------------------------
(***************************************************************************)
(* The trees a point goes through.                                         *)
(***************************************************************************)
LEMMA TreeSteps ==
  ASSUME NEW base, NEW axes, IsList(axes), NEW values, NEW tree,
         tree = TreesWith(base, axes, values)
  PROVE  /\ tree[0] = base
         /\ \A k \in 1 .. Len(axes) : tree[k] = SetPath(tree[k - 1], axes[k].path, values[k])
<1>1. PICK n : n = Len(axes) /\ n \in Nat /\ DOMAIN axes = 1 .. n
  BY DEF IsList
<1> n \in Nat
  BY <1>1
<1> DEFINE Rule(g) == g = [k \in 0 .. n |->
                 IF k = 0 THEN base ELSE SetPath(g[k - 1], axes[k].path, values[k])]
<1>2. \E g : Rule(g)
  <2>1. PICK Paths, Leaves, D :
          /\ Paths = DOMAIN base \cup {axes[k].path : k \in 1 .. n}
          /\ Leaves = {base[q] : q \in DOMAIN base} \cup {values[k] : k \in 1 .. n}
          /\ D = {base} \cup UNION {[P -> Leaves] : P \in SUBSET Paths}
    OBVIOUS
  <2>2. PICK G : G = [k \in 1 .. n |-> [d \in D |-> SetPath(d, axes[k].path, values[k])]]
    OBVIOUS
  <2>3. \A d \in D : DOMAIN d \subseteq Paths /\ \A q \in DOMAIN d : d[q] \in Leaves
    BY <2>1
  <2>4. ASSUME NEW k \in 1 .. n, NEW d \in D PROVE G[k][d] \in D
    <3>1. PICK P : P = {q \in DOMAIN d : ~ IsPrefix(q, axes[k].path) /\ ~ IsPrefix(axes[k].path, q)}
                         \cup {axes[k].path}
      OBVIOUS
    <3>2. P \in SUBSET Paths
      BY <2>1, <2>3, <3>1
    <3>3. SetPath(d, axes[k].path, values[k])
            = [q \in P |-> IF q = axes[k].path THEN values[k] ELSE d[q]]
      BY <3>1 DEF SetPath
    <3>4. \A q \in P : (IF q = axes[k].path THEN values[k] ELSE d[q]) \in Leaves
      BY <2>1, <2>3, <3>1
    <3>5. SetPath(d, axes[k].path, values[k]) \in [P -> Leaves]
      BY <3>3, <3>4
    <3>6. SetPath(d, axes[k].path, values[k]) \in D
      BY <2>1, <3>2, <3>5
    <3> QED
      BY <2>2, <3>6
  <2>5. StepsIn(n, D, base, G)
    BY <2>1, <2>4 DEF StepsIn
  <2>6. PICK f : Stepped(n, D, base, G, f)
    BY <2>5, StepsMakeFunction
  <2>7. f = [k \in 0 .. n |-> f[k]] /\ f[0] = base
    BY <2>6 DEF Stepped
  <2>8. ASSUME NEW k \in 0 .. n, k # 0
        PROVE  f[k] = SetPath(f[k - 1], axes[k].path, values[k])
    <3>1. k \in 1 .. n /\ k - 1 \in 0 .. n
      BY <2>8
    <3>2. f[k] = G[k][f[k - 1]] /\ f[k - 1] \in D
      BY <2>6, <3>1 DEF Stepped
    <3> QED
      BY <2>2, <3>1, <3>2
  <2>9. Rule(f)
    BY <2>7, <2>8
  <2> HIDE DEF Rule
  <2> QED
    BY <2>9
<1>3. tree = CHOOSE g : Rule(g)
  BY <1>1 DEF TreesWith
<1>4. Rule(tree)
  <2> HIDE DEF Rule
  <2> QED
    BY <1>2, <1>3
<1>5. tree[0] = base
  <2>1. 0 \in 0 .. n
    OBVIOUS
  <2> QED
    BY <1>4, <2>1
<1>6. ASSUME NEW k \in 1 .. n PROVE tree[k] = SetPath(tree[k - 1], axes[k].path, values[k])
  <2>1. k \in 0 .. n /\ k # 0
    OBVIOUS
  <2> QED
    BY <1>4, <2>1
<1> QED
  BY <1>1, <1>5, <1>6

LEMMA LeastOfThree ==
  ASSUME NEW a \in Int, NEW b \in Int, NEW c \in Int
  PROVE  Min({a, b, c}) \in {a, b, c}
<1>1. \E x \in {a, b, c} : \A y \in {a, b, c} : x <= y
  <2>1. CASE a <= b /\ a <= c
    BY <2>1
  <2>2. CASE b <= a /\ b <= c
    BY <2>2
  <2>3. CASE c <= a /\ c <= b
    BY <2>3
  <2> QED
    BY <2>1, <2>2, <2>3
<1> QED
  BY <1>1 DEF Min

LEMMA AtLeastOne ==
  ASSUME NEW x \in Int
  PROVE  Max({1, x}) \in Int /\ Max({1, x}) >= 1
<1>1. \E m \in {1, x} : \A y \in {1, x} : m >= y
  <2>1. CASE x <= 1
    BY <2>1
  <2>2. CASE 1 <= x
    BY <2>2
  <2> QED
    BY <2>1, <2>2
<1>2. Max({1, x}) \in {1, x} /\ \A y \in {1, x} : Max({1, x}) >= y
  BY <1>1 DEF Max
<1> QED
  BY <1>2

LEMMA TotalNat ==
  ASSUME NEW axes, Ready(axes)
  PROVE  TotalPoints(axes) \in Nat
<1>1. 0 \in 0 .. Len(axes)
  BY ReadySizes
<1> QED
  BY <1>1, StridesAreWeights DEF Radix, TotalPoints

(* A sweep has a thread. *)
LEMMA FirstThreadRuns ==
  ASSUME spec \in Specs, Ready(spec.axes)
  PROVE  1 \in Threads /\ NumThreads >= 1
<1>1. MaxThreads \in Nat \ {0} /\ spec.jobs \in Int
  BY SpecsAssumption
<1>2. PICK a \in Int, b \in Int :
        a = Max({1, spec.jobs}) /\ b = Max({1, TotalPoints(spec.axes)}) /\ a >= 1 /\ b >= 1
  <2>1. TotalPoints(spec.axes) \in Int
    BY TotalNat
  <2> QED
    BY <1>1, <2>1, AtLeastOne
<1>3. NumThreads = Min({MaxThreads, a, b})
  BY <1>2 DEF NumThreads
<1>4. NumThreads \in {MaxThreads, a, b}
  BY <1>1, <1>3, LeastOfThree
<1> QED
  BY <1>1, <1>2, <1>4 DEF Threads

-----------------------------------------------------------------------------
(***************************************************************************)
(* Every row its point.                                                    *)
(***************************************************************************)
PointTrees(p) == TreesWith(spec.base, spec.axes, AxisValues(spec.axes, p))

PointTree(p) == PointTrees(p)[Len(spec.axes)]

(* The row a point is to have. *)
RightRow(p) ==
  IF Accepts(PointTree(p))
  THEN [ok |-> TRUE, axis_values |-> AxisValues(spec.axes, p), metric |-> Metric(PointTree(p))]
  ELSE [ok |-> FALSE, axis_values |-> AxisValues(spec.axes, p)]

Begun == stage \in {"running", "reported"}

(* A thread's tree has the values of its own point up to the axis it is at, its
   file all of them. *)
TreesRight ==
  /\ \A t \in Threads : pc[t] \in {"override", "run"} =>
       axis[t] \in 1 .. Len(spec.axes) + 1 /\ heap[t] = PointTrees(point[t])[axis[t] - 1]
  /\ \A t \in Threads : pc[t] = "run" =>
       point[t] \in DOMAIN files /\ files[point[t]] = PointTree(point[t])

(* A point that was claimed has its row, or a thread that works on it. *)
RowsRight ==
  \A p \in DOMAIN results :
    p < next /\ (\A t \in Threads : Working(t) => point[t] # p) => results[p] = RightRow(p)

RowsInv ==
  /\ spec \in Specs /\ stage \in {"spec", "running", "reported", "refused"}
  /\ DOMAIN axis = Threads
  /\ IF Begun THEN Ready(spec.axes) /\ DOMAIN results = 0 .. TotalPoints(spec.axes) - 1
     ELSE DOMAIN results = {}
  /\ \A t \in Threads : Working(t) => stage = "running" /\ point[t] \in DOMAIN results
  /\ Begun /\ pc[1] = "joined" => \A p \in DOMAIN results : p < next
  /\ stage = "reported" => \A t \in Threads : pc[t] = "joined"
  /\ stage = "spec" => next = 0
  /\ TreesRight /\ RowsRight

LEMMA RowsInvInitially == Init => RowsInv
BY DEF Init, RowsInv, Begun, TreesRight, RowsRight, Working

LEMMA TreesOfPoint ==
  ASSUME Ready(spec.axes), NEW p
  PROVE  /\ PointTrees(p)[0] = spec.base
         /\ \A k \in 1 .. Len(spec.axes) :
              PointTrees(p)[k] = SetPath(PointTrees(p)[k - 1], spec.axes[k].path,
                                         AxisValues(spec.axes, p)[k])
BY TreeSteps, SMTT(30) DEF PointTrees, Ready

(* The rows and trees points are to have do not change. *)
LEMMA PointsFixed ==
  ASSUME spec' = spec, NEW CONSTANT p
  PROVE  /\ PointTrees(p)' = PointTrees(p) /\ PointTree(p)' = PointTree(p)
         /\ RightRow(p)' = RightRow(p)
<1>1. PointTrees(p)' = PointTrees(p)
  BY DEF PointTrees
<1>2. PointTree(p)' = PointTree(p)
  BY <1>1 DEF PointTree
<1> QED
  BY <1>1, <1>2 DEF RightRow

LEMMA StartRows ==
  ASSUME SweepInv, RowsInv, Start
  PROVE  RowsInv'
<1>1. /\ stage = "spec" /\ ~ BadSpec /\ stage' = "running"
      /\ results' = [p \in 0 .. TotalPoints(spec.axes) - 1 |-> NoRow]
      /\ pc' = [t \in Threads |-> IF t <= NumThreads THEN "claim" ELSE "joined"]
      /\ UNCHANGED <<spec, next, point, axis, point_cfg, files, report>>
  BY DEF Start
<1>2. spec \in Specs /\ next = 0 /\ DOMAIN axis = Threads
  BY <1>1 DEF RowsInv
<1>3. Ready(spec.axes)
  BY <1>1, <1>2, SpecsAssumption DEF BadSpec, Ready
<1>4. \A t \in Threads : pc'[t] \in {"claim", "joined"}
  BY <1>1
<1>5. pc'[1] = "claim"
  <2>1. 1 \in Threads /\ NumThreads >= 1
    BY <1>2, <1>3, FirstThreadRuns
  <2>2. 1 <= NumThreads
    BY <2>1
  <2> QED
    BY <1>1, <2>1, <2>2
<1>6. DOMAIN results' = 0 .. TotalPoints(spec.axes) - 1
  BY <1>1
<1>7. Begun' /\ Ready(spec.axes)'
  BY <1>1, <1>3 DEF Begun
<1>8. \A t \in Threads : ~ Working(t)'
  BY <1>4 DEF Working
<1>9. RowsRight'
  <2>1. TotalPoints(spec.axes) \in Nat
    BY <1>3, TotalNat
  <2>2. \A p \in DOMAIN results' : ~ (p < next')
    BY <1>1, <1>2, <1>6, <2>1
  <2> QED
    BY <2>2 DEF RowsRight
<1>10. TreesRight'
  BY <1>4 DEF TreesRight
<1> QED
  BY <1>1, <1>2, <1>5, <1>6, <1>7, <1>8, <1>9, <1>10 DEF RowsInv

(* What no step of a thread changes. *)
Runs == stage = "running" /\ UNCHANGED <<spec, stage>>

LEMMA RowsStart ==
  ASSUME RowsInv, stage = "running"
  PROVE  /\ spec \in Specs /\ Ready(spec.axes) /\ Begun /\ DOMAIN axis = Threads
         /\ DOMAIN results = 0 .. TotalPoints(spec.axes) - 1 /\ TotalPoints(spec.axes) \in Nat
         /\ \A t \in Threads : Working(t) => point[t] \in DOMAIN results
         /\ pc[1] = "joined" => \A p \in DOMAIN results : p < next
         /\ TreesRight /\ RowsRight
BY TotalNat DEF RowsInv, Begun

LEMMA RowsEnd ==
  ASSUME RowsInv, Runs, DOMAIN axis' = Threads, DOMAIN results' = DOMAIN results,
         \A t \in Threads : Working(t)' => point'[t] \in DOMAIN results,
         pc'[1] = "joined" => \A p \in DOMAIN results : p < next',
         TreesRight', RowsRight'
  PROVE  RowsInv'
<1>1. /\ stage' = "running" /\ spec' = spec /\ spec \in Specs /\ Ready(spec.axes)
      /\ DOMAIN results = 0 .. TotalPoints(spec.axes) - 1
  BY RowsStart DEF Runs
<1>2. Ready(spec.axes)' /\ Begun'
  BY <1>1 DEF Begun
<1> QED
  BY <1>1, <1>2 DEF RowsInv

LEMMA ClaimRows ==
  ASSUME SweepInv, RowsInv, Runs, NEW t \in Threads, Claim(t)
  PROVE  RowsInv'
<1>1. /\ pc[t] = "claim" /\ next' = next + 1 /\ point' = [point EXCEPT ![t] = next]
      /\ pc' = [pc EXCEPT ![t] = IF next \in DOMAIN results THEN "copy" ELSE "joined"]
      /\ UNCHANGED <<axis, point_cfg, heap, files, results>> /\ spec' = spec
  BY DEF Claim, Runs
<1>2. /\ next \in Nat /\ point \in [Threads -> Nat] /\ DOMAIN pc = Threads
      /\ \A u \in Threads : Working(u) => point[u] < next
  BY DEF SweepInv
<1>3. /\ DOMAIN axis = Threads /\ DOMAIN results = 0 .. TotalPoints(spec.axes) - 1
      /\ TotalPoints(spec.axes) \in Nat /\ TreesRight /\ RowsRight
      /\ \A u \in Threads : Working(u) => point[u] \in DOMAIN results
      /\ pc[1] = "joined" => \A p \in DOMAIN results : p < next
  BY RowsStart DEF Runs
<1>4. \A u \in Threads : u # t => point'[u] = point[u] /\ pc'[u] = pc[u]
  BY <1>1, <1>2
<1>5. /\ point'[t] = next
      /\ pc'[t] = IF next \in DOMAIN results THEN "copy" ELSE "joined"
  BY <1>1, <1>2
<1>6. \A u \in Threads : Working(u)' => point'[u] \in DOMAIN results
  BY <1>3, <1>4, <1>5 DEF Working
<1>7. ASSUME pc'[1] = "joined", NEW p \in DOMAIN results PROVE p < next'
  <2>0. p \in Int /\ 1 \in Threads
    <3>1. 1 \in Threads
      BY RowsStart, FirstThreadRuns DEF Runs
    <3> QED
      BY <1>3, <3>1
  <2>1. CASE t = 1
    <3>1. next \notin DOMAIN results
      BY <1>5, <1>7, <2>1
    <3>2. ~ (next <= p)
      BY <1>2, <1>3, <3>1
    <3> QED
      BY <1>1, <1>2, <2>0, <3>2
  <2>2. CASE t # 1
    <3>1. p < next
      BY <1>3, <1>4, <1>7, <2>0, <2>2
    <3> QED
      BY <1>1, <1>2, <2>0, <3>1
  <2> QED
    BY <2>1, <2>2
<1>8. TreesRight'
  <2>1. ASSUME NEW u \in Threads, pc'[u] \in {"override", "run"}
        PROVE  /\ axis'[u] \in (1 .. Len(spec.axes) + 1)'
               /\ heap'[u] = PointTrees(point[u])'[axis'[u] - 1]
               /\ pc'[u] = "run" => point'[u] \in DOMAIN files'
                                    /\ files'[point'[u]] = PointTree(point[u])'
    <3>1. u # t /\ point'[u] = point[u] /\ pc'[u] = pc[u]
      BY <1>4, <1>5, <2>1
    <3>2. PICK p : p = point[u]
      OBVIOUS
    <3>3. /\ axis[u] \in 1 .. Len(spec.axes) + 1 /\ heap[u] = PointTrees(p)[axis[u] - 1]
          /\ pc[u] = "run" => p \in DOMAIN files /\ files[p] = PointTree(p)
      BY <1>3, <2>1, <3>1, <3>2 DEF TreesRight
    <3>4. PointTrees(point[u])' = PointTrees(p) /\ PointTree(point[u])' = PointTree(p)
      BY <1>1, <3>1, <3>2 DEF PointTree, PointTrees
    <3> QED
      BY <1>1, <3>1, <3>2, <3>3, <3>4
  <2> QED
    BY <2>1 DEF TreesRight
<1>9. RowsRight'
  <2> SUFFICES ASSUME NEW p \in DOMAIN results', p < next',
                      \A u \in Threads : Working(u)' => point'[u] # p
               PROVE  results'[p] = RightRow(p)'
    BY DEF RowsRight
  <2>1. p \in DOMAIN results /\ p \in Int
    BY <1>1, <1>3
  <2>2. p # next
    BY <1>5, <2>1 DEF Working
  <2>3. p < next
    BY <1>1, <1>2, <2>1, <2>2
  <2>4. \A u \in Threads : Working(u) => point[u] # p
    BY <1>1, <1>4 DEF Working
  <2>5. results[p] = RightRow(p)
    BY <1>3, <2>1, <2>3, <2>4 DEF RowsRight
  <2> QED
    BY <1>1, <2>5, PointsFixed
<1> QED
  BY <1>1, <1>3, <1>6, <1>7, <1>8, <1>9, RowsEnd

(* A step by which a thread goes on with its own tree and its own file. *)
OwnTree(t, step, a) ==
  /\ pc' = [pc EXCEPT ![t] = step] /\ step \in {"override", "run"}
  /\ DOMAIN axis' = Threads /\ axis'[t] = a /\ \A u \in Threads : u # t => axis'[u] = axis[u]
  /\ a \in 1 .. Len(spec.axes) + 1 /\ heap'[t] = PointTrees(point[t])[a - 1]
  /\ \A u \in Threads : u # t => heap'[u] = heap[u]
  /\ UNCHANGED <<next, point, results>>

OwnFile(t, step) ==
  /\ \A u \in Threads : u # t /\ pc[u] = "run" /\ point[u] \in DOMAIN files =>
       point[u] \in DOMAIN files' /\ files'[point[u]] = files[point[u]]
  /\ step = "run" => point[t] \in DOMAIN files' /\ files'[point[t]] = PointTree(point[t])

LEMMA OwnTreeRows ==
  ASSUME SweepInv, RowsInv, Runs, NEW t \in Threads, Working(t),
         NEW step, NEW a, OwnTree(t, step, a), OwnFile(t, step)
  PROVE  RowsInv'
<1>1. /\ pc' = [pc EXCEPT ![t] = step] /\ step \in {"override", "run"}
      /\ DOMAIN axis' = Threads /\ axis'[t] = a /\ \A u \in Threads : u # t => axis'[u] = axis[u]
      /\ a \in 1 .. Len(spec.axes) + 1 /\ heap'[t] = PointTrees(point[t])[a - 1]
      /\ \A u \in Threads : u # t => heap'[u] = heap[u]
      /\ UNCHANGED <<next, point, results>> /\ spec' = spec
  BY DEF OwnTree, Runs
<1>2. DOMAIN pc = Threads
  BY DEF SweepInv
<1>3. /\ TreesRight /\ RowsRight
      /\ \A u \in Threads : Working(u) => point[u] \in DOMAIN results
      /\ pc[1] = "joined" => \A p \in DOMAIN results : p < next
  BY RowsStart DEF Runs
<1>4. pc'[t] = step /\ \A u : u # t => pc'[u] = pc[u]
  BY <1>1, <1>2
<1>5. \A u \in Threads : Working(u)' <=> Working(u)
  BY <1>1, <1>4 DEF Working
<1>6. pc'[1] = "joined" => \A p \in DOMAIN results : p < next'
  BY <1>1, <1>3, <1>4
<1>7. TreesRight'
  <2>1. ASSUME NEW u \in Threads, pc'[u] \in {"override", "run"}
        PROVE  /\ axis'[u] \in (1 .. Len(spec.axes) + 1)'
               /\ heap'[u] = PointTrees(point[u])'[axis'[u] - 1]
               /\ pc'[u] = "run" => point'[u] \in DOMAIN files'
                                    /\ files'[point'[u]] = PointTree(point[u])'
    <3>1. PICK p : p = point[u]
      OBVIOUS
    <3>2. point'[u] = p
      BY <1>1, <3>1
    <3>3. PointTrees(point[u])' = PointTrees(p) /\ PointTree(point[u])' = PointTree(p)
      BY <1>1, <3>1, <3>2 DEF PointTree, PointTrees
    <3>4. CASE u = t
      BY <1>1, <1>4, <3>1, <3>2, <3>3, <3>4 DEF OwnFile
    <3>5. CASE u # t
      <4>1. /\ axis[u] \in 1 .. Len(spec.axes) + 1 /\ heap[u] = PointTrees(p)[axis[u] - 1]
            /\ pc[u] = "run" => p \in DOMAIN files /\ files[p] = PointTree(p)
        BY <1>3, <1>4, <2>1, <3>1, <3>5 DEF TreesRight
      <4>2. axis'[u] = axis[u] /\ heap'[u] = heap[u] /\ pc'[u] = pc[u]
        BY <1>1, <1>4, <3>5
      <4>3. pc[u] = "run" => p \in DOMAIN files' /\ files'[p] = PointTree(p)
        BY <3>1, <3>5, <4>1 DEF OwnFile
      <4> QED
        BY <1>1, <3>2, <3>3, <4>1, <4>2, <4>3
    <3> QED
      BY <3>4, <3>5
  <2> QED
    BY <2>1 DEF TreesRight
<1>8. RowsRight'
  <2> SUFFICES ASSUME NEW p \in DOMAIN results', p < next',
                      \A u \in Threads : Working(u)' => point'[u] # p
               PROVE  results'[p] = RightRow(p)'
    BY DEF RowsRight
  <2>1. results[p] = RightRow(p)
    BY <1>1, <1>3, <1>5 DEF RowsRight
  <2> QED
    BY <1>1, <2>1, PointsFixed
<1>9. \A u \in Threads : Working(u)' => point'[u] \in DOMAIN results
  BY <1>1, <1>3, <1>5
<1> QED
  BY <1>1, <1>6, <1>7, <1>8, <1>9, RowsEnd

LEMMA CopyRows ==
  ASSUME SweepInv, RowsInv, Runs, NEW t \in Threads, Copy(t)
  PROVE  RowsInv'
<1>1. /\ pc[t] = "copy" /\ pc' = [pc EXCEPT ![t] = "override"]
      /\ axis' = [axis EXCEPT ![t] = 1] /\ heap' = [heap EXCEPT ![t] = heap[Base]]
      /\ UNCHANGED <<next, point, files, results>>
  BY DEF Copy, DeepCopy
<1>2. DOMAIN heap = {Base} \cup Threads /\ heap[Base] = spec.base
  BY DEF SweepInv, PointsApart, Runs
<1>3. Ready(spec.axes) /\ DOMAIN axis = Threads
  BY RowsStart DEF Runs
<1>4. Len(spec.axes) \in Nat
  BY <1>3, ReadySizes
<1>5. PointTrees(point[t])[0] = spec.base
  BY <1>3, TreesOfPoint
<1>6. OwnTree(t, "override", 1)
  BY <1>1, <1>2, <1>3, <1>4, <1>5 DEF OwnTree
<1>7. OwnFile(t, "override") /\ Working(t)
  BY <1>1 DEF OwnFile, Working
<1> QED
  BY <1>6, <1>7, OwnTreeRows

LEMMA OverrideRows ==
  ASSUME SweepInv, RowsInv, Runs, NEW t \in Threads, Override(t)
  PROVE  RowsInv'
<1>1. PICK a, p : a = axis[t] /\ p = point[t]
  OBVIOUS
<1>2. /\ pc[t] = "override" /\ a <= Len(spec.axes)
      /\ heap' = [heap EXCEPT ![point_cfg[t]] =
           SetPath(@, spec.axes[a].path, AxisValues(spec.axes, p)[a])]
      /\ axis' = [axis EXCEPT ![t] = @ + 1]
      /\ UNCHANGED <<next, pc, point, point_cfg, files, results>>
  BY <1>1 DEF Override
<1>3. DOMAIN heap = {Base} \cup Threads /\ point_cfg[t] = t /\ pc' = [pc EXCEPT ![t] = "override"]
  BY <1>2 DEF SweepInv, PointsApart
<1>4. Ready(spec.axes) /\ DOMAIN axis = Threads /\ TreesRight
  BY RowsStart DEF Runs
<1>5. Len(spec.axes) \in Nat
  BY <1>4, ReadySizes
<1>6. a \in 1 .. Len(spec.axes) + 1 /\ heap[t] = PointTrees(p)[a - 1]
  BY <1>1, <1>2, <1>4 DEF TreesRight
<1>7. a \in 1 .. Len(spec.axes) /\ a + 1 \in 1 .. Len(spec.axes) + 1 /\ (a + 1) - 1 = a
  BY <1>2, <1>5, <1>6
<1>8. PointTrees(p)[a] = SetPath(PointTrees(p)[a - 1], spec.axes[a].path,
                                 AxisValues(spec.axes, p)[a])
  BY <1>4, <1>7, TreesOfPoint
<1>9. heap'[t] = PointTrees(p)[a] /\ \A u \in Threads : u # t => heap'[u] = heap[u]
  BY <1>2, <1>3, <1>6, <1>8
<1>10. axis'[t] = a + 1 /\ DOMAIN axis' = Threads /\ \A u \in Threads : u # t => axis'[u] = axis[u]
  BY <1>1, <1>2, <1>4
<1>11. OwnTree(t, "override", a + 1)
  BY <1>1, <1>2, <1>3, <1>7, <1>9, <1>10 DEF OwnTree
<1>12. OwnFile(t, "override") /\ Working(t)
  BY <1>2 DEF OwnFile, Working
<1> QED
  BY <1>11, <1>12, OwnTreeRows

LEMMA WriteRows ==
  ASSUME SweepInv, RowsInv, Runs, NEW t \in Threads, Write(t)
  PROVE  RowsInv'
<1>1. PICK a, p : a = axis[t] /\ p = point[t]
  OBVIOUS
<1>2. /\ pc[t] = "override" /\ a > Len(spec.axes)
      /\ files' = [q \in DOMAIN files \cup {p} |-> IF q = p THEN heap[point_cfg[t]] ELSE files[q]]
      /\ pc' = [pc EXCEPT ![t] = "run"]
      /\ UNCHANGED <<next, point, axis, point_cfg, heap, results>>
  BY <1>1 DEF Write
<1>3. point_cfg[t] = t
  BY <1>2 DEF SweepInv, PointsApart
<1>4. \A u \in Threads : u # t /\ pc[u] = "run" => point[u] # p
  BY <1>1, <1>2 DEF SweepInv, PointsApart, Working
<1>5. Ready(spec.axes) /\ DOMAIN axis = Threads /\ TreesRight
  BY RowsStart DEF Runs
<1>6. Len(spec.axes) \in Nat
  BY <1>5, ReadySizes
<1>7. a \in 1 .. Len(spec.axes) + 1 /\ heap[t] = PointTrees(p)[a - 1]
  BY <1>1, <1>2, <1>5 DEF TreesRight
<1>8. a - 1 = Len(spec.axes)
  BY <1>2, <1>6, <1>7
<1>9. heap[t] = PointTree(p)
  BY <1>7, <1>8 DEF PointTree
<1>10. OwnTree(t, "run", a)
  BY <1>1, <1>2, <1>5, <1>7 DEF OwnTree
<1>11. OwnFile(t, "run") /\ Working(t)
  BY <1>1, <1>2, <1>3, <1>4, <1>9 DEF OwnFile, Working
<1> QED
  BY <1>10, <1>11, OwnTreeRows

LEMMA RunRows ==
  ASSUME SweepInv, RowsInv, Runs, NEW t \in Threads, Run(t)
  PROVE  RowsInv'
<1>1. PICK p : p = point[t]
  OBVIOUS
<1>2. /\ pc[t] = "run" /\ pc' = [pc EXCEPT ![t] = "claim"] /\ spec' = spec
      /\ UNCHANGED <<next, point, axis, point_cfg, heap, files>>
  BY DEF Run, Runs
<1>3. /\ DOMAIN axis = Threads /\ TreesRight /\ RowsRight
      /\ \A u \in Threads : Working(u) => point[u] \in DOMAIN results
      /\ pc[1] = "joined" => \A q \in DOMAIN results : q < next
  BY RowsStart DEF Runs
<1>4. files[p] = PointTree(p) /\ p \in DOMAIN results
  BY <1>1, <1>2, <1>3 DEF TreesRight, Working
<1>5. results' = [results EXCEPT ![p] = RightRow(p)]
  BY <1>1, <1>4 DEF Run, RightRow
<1>6. DOMAIN pc = Threads
  BY DEF SweepInv
<1>7. pc'[t] = "claim" /\ \A u : u # t => pc'[u] = pc[u]
  BY <1>2, <1>6
<1>8. \A u \in Threads : Working(u)' <=> u # t /\ Working(u)
  BY <1>7 DEF Working
<1>9. TreesRight'
  <2>1. ASSUME NEW u \in Threads, pc'[u] \in {"override", "run"}
        PROVE  /\ axis'[u] \in (1 .. Len(spec.axes) + 1)'
               /\ heap'[u] = PointTrees(point[u])'[axis'[u] - 1]
               /\ pc'[u] = "run" => point'[u] \in DOMAIN files'
                                    /\ files'[point'[u]] = PointTree(point[u])'
    <3>1. PICK q : q = point[u]
      OBVIOUS
    <3>2. /\ axis[u] \in 1 .. Len(spec.axes) + 1 /\ heap[u] = PointTrees(q)[axis[u] - 1]
          /\ pc[u] = "run" => q \in DOMAIN files /\ files[q] = PointTree(q)
      BY <1>3, <1>7, <2>1, <3>1 DEF TreesRight
    <3>3. PointTrees(point[u])' = PointTrees(q) /\ PointTree(point[u])' = PointTree(q)
      BY <1>2, <3>1 DEF PointTree, PointTrees
    <3> QED
      BY <1>2, <1>7, <3>1, <3>2, <3>3
  <2> QED
    BY <2>1 DEF TreesRight
<1>10. RowsRight'
  <2> SUFFICES ASSUME NEW q \in DOMAIN results', q < next',
                      \A u \in Threads : Working(u)' => point'[u] # q
               PROVE  results'[q] = RightRow(q)'
    BY DEF RowsRight
  <2>1. q \in DOMAIN results
    BY <1>5
  <2>2. CASE q = p
    BY <1>2, <1>4, <1>5, <2>2, PointsFixed
  <2>3. CASE q # p
    <3>1. \A u \in Threads : Working(u) => point[u] # q
      BY <1>1, <1>2, <1>8, <2>3
    <3>2. results[q] = RightRow(q)
      BY <1>2, <1>3, <2>1, <3>1 DEF RowsRight
    <3> QED
      BY <1>2, <1>5, <2>1, <2>3, <3>2, PointsFixed
  <2> QED
    BY <2>2, <2>3
<1>11. /\ DOMAIN results' = DOMAIN results /\ DOMAIN axis' = Threads
       /\ \A u \in Threads : Working(u)' => point'[u] \in DOMAIN results
       /\ pc'[1] = "joined" => \A q \in DOMAIN results : q < next'
  BY <1>2, <1>3, <1>5, <1>7, <1>8
<1> QED
  BY <1>9, <1>10, <1>11, RowsEnd

(* A step that leaves the threads and what they work on alone. *)
LEMMA IdleRows ==
  ASSUME RowsInv, UNCHANGED <<spec, threadVars>>,
         stage' = stage \/ (stage = "spec" /\ stage' = "refused")
         \/ (stage = "running" /\ stage' = "reported" /\ \A t \in Threads : pc[t] = "joined")
  PROVE  RowsInv'
<1>1. spec' = spec /\ UNCHANGED <<next, pc, point, axis, point_cfg, heap, files, results>>
  BY DEF threadVars
<1>2. TreesRight' /\ RowsRight'
  BY <1>1 DEF RowsInv, TreesRight, RowsRight, RightRow, PointTree, PointTrees, Working
<1>3. /\ stage \in {"spec", "running", "reported", "refused"} /\ spec \in Specs
      /\ DOMAIN axis = Threads /\ Begun' = Begun
  BY DEF RowsInv, Begun
<1>4. stage' # stage => \A t \in Threads : ~ Working(t)
  BY DEF RowsInv, Working
<1> QED
  BY <1>1, <1>2, <1>3, <1>4 DEF RowsInv, Working, Ready

LEMMA RowsInvKept == SweepInv /\ RowsInv /\ [Next]_vars => RowsInv'
<1> SUFFICES ASSUME SweepInv, RowsInv, [Next]_vars PROVE RowsInv'
  OBVIOUS
<1>1. CASE Refuse
  BY <1>1, IdleRows DEF Refuse
<1>2. CASE Start
  BY <1>2, StartRows
<1>3. ASSUME NEW t \in Threads, Thread(t) PROVE RowsInv'
  <2>1. Runs /\ (Claim(t) \/ Copy(t) \/ Override(t) \/ Write(t) \/ Run(t))
    BY <1>3 DEF Thread, Runs
  <2> QED
    BY <2>1, ClaimRows, CopyRows, OverrideRows, WriteRows, RunRows
<1>4. CASE Report
  BY <1>4, IdleRows DEF Report
<1>5. CASE UNCHANGED vars
  BY <1>5, IdleRows DEF vars
<1> QED
  BY <1>1, <1>2, <1>3, <1>4, <1>5 DEF Next

LEMMA RightRowsSuffice == SweepInv /\ RowsInv => EveryRowItsPoint
<1> SUFFICES ASSUME SweepInv, RowsInv, NEW p \in DOMAIN results,
                    results[p] # NoRow \/ stage = "reported"
             PROVE  LET values == ValuesOf(spec.axes, p)
                        tree   == TreesWith(spec.base, spec.axes, values)[Len(spec.axes)]
                    IN  /\ results[p].axis_values = values
                        /\ results[p].ok <=> Accepts(tree)
                        /\ results[p].ok => results[p].metric = Metric(tree)
  BY DEF EveryRowItsPoint
<1>1. /\ Ready(spec.axes) /\ DOMAIN results = 0 .. TotalPoints(spec.axes) - 1
      /\ spec \in Specs /\ RowsRight
  BY DEF RowsInv
<1>2. p < next /\ \A t \in Threads : Working(t) => point[t] # p
  <2>1. CASE results[p] # NoRow
    <3>1. \A t \in Threads : Working(t) => point[t] # p
      BY <2>1 DEF SweepInv
    <3>2. p \in Int /\ next \in Int /\ ~ (p >= next)
      BY <2>1 DEF SweepInv
    <3> QED
      BY <3>1, <3>2
  <2>2. CASE stage = "reported"
    <3>1. \A t \in Threads : pc[t] = "joined"
      BY <2>2 DEF RowsInv
    <3>2. 1 \in Threads
      BY <1>1, FirstThreadRuns
    <3> QED
      BY <2>2, <3>1, <3>2 DEF RowsInv, Begun, Working
  <2> QED
    BY <2>1, <2>2
<1>3. results[p] = RightRow(p)
  BY <1>1, <1>2 DEF RowsRight
<1>4. ValuesOf(spec.axes, p) = AxisValues(spec.axes, p)
  BY <1>1, ValuesAreNth
<1> QED
  BY <1>3, <1>4 DEF RightRow, PointTree, PointTrees

(* However many threads share the points of a sweep, and however long its axes are:
   a row that is filled, and every row of the report, holds the values of its own
   point of the product, and the outcome of the base tree with those values set. *)
THEOREM RowsAreTheirPoints == Spec => []EveryRowItsPoint
<1>1. Init => SweepInv /\ RowsInv
  BY SweepInvInitially, RowsInvInitially
<1>2. (SweepInv /\ RowsInv) /\ [Next]_vars => (SweepInv /\ RowsInv)'
  BY SweepInvKept, RowsInvKept
<1> QED
  BY <1>1, <1>2, RightRowsSuffice, PTL DEF Spec
=============================================================================
