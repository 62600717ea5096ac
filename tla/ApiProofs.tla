------------------------------ MODULE ApiProofs ------------------------------
(***************************************************************************)
(* The daemon's promise, for every number of threads, calls and logs:      *)
(* nothing is lost and nothing reported twice, whatever the other threads  *)
(* push and run between two of its calls.  The invariant relates what it   *)
(* has read to the results it has not, and those it counted to those that  *)
(* came after: all that came after have higher ids, which is why the       *)
(* highest id reported is a safe place to prune up to.                     *)
(***************************************************************************)
EXTENDS ApiProperties, FiniteSetTheorems, SequenceTheorems, TLAPS

ApiTypes ==
  /\ calls \in Seq(Range(calls))
  /\ results \in Seq(Nat) /\ reported \in Seq(Nat)
  /\ done \in Nat /\ n \in Nat /\ i \in Nat /\ max_id \in Nat
  /\ pc \in {"run", "count", "read", "prune"}

(* The results are of transactions that are over, each there once. *)
ResultsDistinct ==
  /\ done <= NumPushed
  /\ Retained \subseteq 1 .. done
  /\ \A j, k \in DOMAIN results : results[j] = results[k] => j = k

(* While it reads and prunes: those before i are reported and no others, and
   max_id is the highest of them; those it did not count are all younger. *)
Draining ==
  /\ 0 < n /\ n <= Len(results) /\ i <= n
  /\ \A k \in 1 .. i : results[k] \in Reported /\ results[k] <= max_id
  /\ \A k \in i + 1 .. Len(results) : results[k] \notin Reported
  /\ \A j \in 1 .. n, k \in n + 1 .. Len(results) : results[j] < results[k]
  /\ IF i = 0 THEN max_id = 0 ELSE \E k \in 1 .. i : max_id = results[k]

DaemonProgress ==
  /\ pc \in {"run", "count"} => Reported \cap Retained = {}
  /\ pc = "read" => i < n
  /\ pc = "prune" => i = n
  /\ pc \in {"read", "prune"} => Draining

ApiInv == ApiTypes /\ ResultsDistinct /\ NothingLost /\ ReportedOnce /\ DaemonProgress

-----------------------------------------------------------------------------
(* A function on 1 .. m is a sequence. *)
LEMMA FunctionIsSequence ==
  ASSUME NEW S, NEW m \in Nat, NEW f \in [1 .. m -> S]
  PROVE  f \in Seq(S) /\ Len(f) = m
<1>1. f \in Seq(S)
  BY SeqDef
<1> QED
  BY <1>1, LenProperties

(* What appending to a sequence of anything gives. *)
LEMMA AppendAnything ==
  ASSUME NEW s, s \in Seq(Range(s)), NEW e
  PROVE  /\ Append(s, e) \in Seq(Range(Append(s, e)))
         /\ DOMAIN s \subseteq DOMAIN Append(s, e)
         /\ \A k \in DOMAIN s : Append(s, e)[k] = s[k]
<1> DEFINE T == Range(s) \cup {e}
           t == Append(s, e)
           len == Len(s)
<1>1. s \in Seq(T)
  BY SeqMonotonic
<1>2. t \in Seq(T) /\ Len(t) = len + 1 /\ \A k \in 1 .. len : t[k] = s[k]
  BY <1>1, AppendProperties
<1>3. len \in Nat /\ DOMAIN s = 1 .. len /\ t \in [1 .. len + 1 -> T]
  BY <1>1, <1>2, LenProperties
<1> HIDE DEF T, t, len
<1>4. t \in [1 .. len + 1 -> Range(t)]
  <2>1. t = [k \in 1 .. len + 1 |-> t[k]] /\ DOMAIN t = 1 .. len + 1
    BY <1>3
  <2>2. \A k \in 1 .. len + 1 : t[k] \in Range(t)
    BY <2>1 DEF Range
  <2> QED
    BY <2>1, <2>2
<1>5. t \in Seq(Range(t))
  BY <1>3, <1>4, FunctionIsSequence
<1> QED
  BY <1>2, <1>3, <1>5 DEF t

LEMMA PushesCounted ==
  ASSUME calls \in Seq(Range(calls))
  PROVE  IsFiniteSet(Pushes) /\ NumPushed \in Nat
<1>1. Len(calls) \in Nat /\ DOMAIN calls = 1 .. Len(calls)
  BY LenProperties
<1>2. IsFiniteSet(1 .. Len(calls))
  BY <1>1, FS_Interval
<1> QED
  BY <1>1, <1>2, FS_Subset, FS_CardinalityType DEF Pushes, NumPushed

(* A call added never takes a push away. *)
LEMMA PushesStay ==
  ASSUME calls \in Seq(Range(calls)), NEW call, calls' = Append(calls, call)
  PROVE  calls' \in Seq(Range(calls')) /\ NumPushed <= NumPushed' /\ NumPushed' \in Nat
<1>1. /\ calls' \in Seq(Range(calls'))
      /\ DOMAIN calls \subseteq DOMAIN calls'
      /\ \A k \in DOMAIN calls : calls'[k] = calls[k]
  BY AppendAnything
<1>2. Pushes \subseteq Pushes'
  BY <1>1 DEF Pushes
<1>3. IsFiniteSet(Pushes')
  <2>1. Len(calls') \in Nat /\ DOMAIN calls' = 1 .. Len(calls')
    BY <1>1, LenProperties
  <2>2. IsFiniteSet(1 .. Len(calls'))
    BY <2>1, FS_Interval
  <2> QED
    BY <2>1, <2>2, FS_Subset DEF Pushes
<1> QED
  BY <1>1, <1>2, <1>3, FS_Subset, FS_CardinalityType DEF NumPushed
-----------------------------------------------------------------------------
(* A run adds the younger ids at the end, each once, and nothing else. *)
LEMMA RunAdds ==
  ASSUME ApiTypes, ResultsDistinct, Run
  PROVE  /\ results' \in Seq(Nat) /\ Len(results) <= Len(results')
         /\ \A k \in 1 .. Len(results) : results'[k] = results[k]
         /\ \A k \in Len(results) + 1 .. Len(results') : results'[k] \in done + 1 .. done'
         /\ done' \in Nat /\ done <= done' /\ done' = NumPushed /\ calls' = calls
         /\ \A id \in done + 1 .. done' : \E k \in DOMAIN results' : results'[k] = id
         /\ \A j, k \in DOMAIN results' : results'[j] = results'[k] => j = k
<1> DEFINE m == NumPushed - done
           len == Len(results)
<1>1. NumPushed \in Nat /\ done \in Nat /\ m \in Nat
  BY PushesCounted DEF ApiTypes, ResultsDistinct
<1>2. PICK order \in FinishingOrders :
        results' = results \o order /\ done' = NumPushed /\ calls' = calls
  BY DEF Run
<1> HIDE DEF m, len
<1>3. /\ order \in [1 .. m -> done + 1 .. NumPushed]
      /\ \A p, q \in 1 .. m : order[p] = order[q] => p = q
      /\ \A id \in done + 1 .. NumPushed : \E p \in 1 .. m : order[p] = id
  BY DEF FinishingOrders, m, Bijection, Injection, Surjection, IsInjective
<1>4. order \in Seq(Nat) /\ Len(order) = m
  <2>1. order \in [1 .. m -> Nat]
    BY <1>1, <1>3
  <2> QED
    BY <1>1, <2>1, FunctionIsSequence
<1>5. results \in Seq(Nat) /\ len \in Nat /\ DOMAIN results = 1 .. len
  BY LenProperties DEF ApiTypes, len
<1>6. /\ results' \in Seq(Nat) /\ Len(results') = len + m
      /\ \A k \in 1 .. len + m :
           results'[k] = IF k <= len THEN results[k] ELSE order[k - len]
  BY <1>2, <1>4, <1>5, ConcatProperties DEF len
<1>7. DOMAIN results' = 1 .. len + m
  BY <1>6, LenProperties
<1>8. ASSUME NEW k \in 1 .. len
      PROVE  results'[k] = results[k] /\ results[k] \in 1 .. done
  <2>1. k \in 1 .. len + m /\ k <= len
    BY <1>1, <1>5
  <2>2. results[k] \in Retained
    BY <1>5 DEF Retained
  <2> QED
    BY <1>6, <2>1, <2>2 DEF ResultsDistinct
<1>9. ASSUME NEW k \in len + 1 .. len + m
      PROVE  /\ k - len \in 1 .. m
             /\ results'[k] = order[k - len]
             /\ results'[k] \in done + 1 .. NumPushed
  <2>1. k \in 1 .. len + m /\ ~ (k <= len) /\ k - len \in 1 .. m
    BY <1>1, <1>5
  <2>2. results'[k] = order[k - len]
    BY <1>6, <2>1
  <2> QED
    BY <1>3, <2>1, <2>2
<1>10. ASSUME NEW id \in done + 1 .. NumPushed
       PROVE  \E k \in DOMAIN results' : results'[k] = id
  <2>1. PICK p \in 1 .. m : order[p] = id
    BY <1>3
  <2>2. \E k \in len + 1 .. len + m : k - len = p
    BY <1>1, <1>5
  <2>3. PICK k \in len + 1 .. len + m : k - len = p
    BY <2>2
  <2>4. results'[k] = id /\ k \in 1 .. len + m
    BY <1>1, <1>5, <1>9, <2>1, <2>3
  <2> QED
    BY <1>7, <2>4
<1>11. ASSUME NEW j \in DOMAIN results', NEW k \in DOMAIN results', results'[j] = results'[k]
       PROVE  j = k
  <2>1. CASE j <= len /\ k <= len
    BY <1>5, <1>7, <1>8, <1>11, <2>1 DEF ResultsDistinct
  <2>2. CASE j > len /\ k > len
    BY <1>1, <1>3, <1>5, <1>7, <1>9, <1>11, <2>2
  <2>3. CASE (j <= len) # (k <= len)
    BY <1>1, <1>5, <1>7, <1>8, <1>9, <1>11, <2>3
  <2> QED
    BY <1>1, <1>5, <1>7, <2>1, <2>2, <2>3
<1>12. done \in Nat /\ done <= done' /\ done' \in Nat
  BY <1>1, <1>2 DEF ResultsDistinct
<1>13. len <= len + m
  BY <1>1, <1>5
<1> QED
  BY <1>2, <1>6, <1>8, <1>9, <1>10, <1>11, <1>12, <1>13 DEF len

(* Pruning keeps exactly the results with a higher id, each still once. *)
LEMMA PruneKeeps ==
  ASSUME ApiTypes, ResultsDistinct, NEW bound \in Nat, PruneResultsBefore(bound)
  PROVE  /\ results' \in Seq(Nat)
         /\ Retained' = {id \in Retained : id > bound}
         /\ \A j, k \in DOMAIN results' : results'[j] = results'[k] => j = k
<1> DEFINE K == Kept(bound)
           m == Cardinality(K)
<1>1. results \in Seq(Nat) /\ Len(results) \in Nat /\ DOMAIN results = 1 .. Len(results)
  BY LenProperties DEF ApiTypes
<1>2. m \in Nat
  <2>1. K \in SUBSET (1 .. Len(results)) /\ IsFiniteSet(1 .. Len(results))
    BY <1>1, FS_Interval DEF Kept
  <2> QED
    BY <2>1, FS_Subset, FS_CardinalityType
<1>3. PICK place \in Bijection(1 .. m, K) : results' = [p \in DOMAIN place |-> results[place[p]]]
  BY DEF PruneResultsBefore
<1> HIDE DEF m
<1>4. /\ place \in [1 .. m -> K] /\ DOMAIN place = 1 .. m
      /\ \A p, q \in 1 .. m : place[p] = place[q] => p = q
      /\ \A k \in K : \E p \in 1 .. m : place[p] = k
  BY <1>3 DEF Bijection, Injection, Surjection, IsInjective
<1>5. \A k \in K : k \in DOMAIN results /\ results[k] \in Nat /\ results[k] > bound
  BY <1>1, ElementOfSeq DEF Kept
<1>6. results' \in [1 .. m -> Nat] /\ \A p \in 1 .. m : results'[p] = results[place[p]]
  BY <1>3, <1>4, <1>5
<1>7. results' \in Seq(Nat) /\ DOMAIN results' = 1 .. m
  BY <1>2, <1>6, FunctionIsSequence
<1>8. \A id \in Retained' : id \in Retained /\ id > bound
  BY <1>4, <1>5, <1>6, <1>7 DEF Retained
<1>9. ASSUME NEW id \in Retained, id > bound PROVE id \in Retained'
  <2>1. PICK k \in DOMAIN results : results[k] = id
    BY DEF Retained
  <2>2. k \in K
    BY <1>9, <2>1 DEF Kept
  <2>3. PICK p \in 1 .. m : place[p] = k
    BY <1>4, <2>2
  <2> QED
    BY <1>6, <1>7, <2>1, <2>3 DEF Retained
<1>10. ASSUME NEW j \in DOMAIN results', NEW k \in DOMAIN results', results'[j] = results'[k]
       PROVE  j = k
  <2>1. results[place[j]] = results[place[k]] /\ place[j] \in K /\ place[k] \in K
    BY <1>4, <1>6, <1>7, <1>10
  <2>2. place[j] = place[k]
    BY <1>5, <2>1 DEF ResultsDistinct
  <2> QED
    BY <1>4, <1>7, <2>2
<1> QED
  BY <1>7, <1>8, <1>9, <1>10
-----------------------------------------------------------------------------
LEMMA ReportLength ==
  ASSUME ApiTypes
  PROVE  /\ Len(results) \in Nat /\ DOMAIN results = 1 .. Len(results)
         /\ Len(reported) \in Nat /\ DOMAIN reported = 1 .. Len(reported)
BY LenProperties DEF ApiTypes

(* Another call on record changes nothing of it. *)
LEMMA CallAdded ==
  ASSUME ApiInv, NEW call, calls' = Append(calls, call), UNCHANGED <<results, done, daemonVars>>
  PROVE  ApiInv'
<1>1. calls' \in Seq(Range(calls')) /\ NumPushed <= NumPushed' /\ NumPushed' \in Nat
  BY PushesStay DEF ApiInv, ApiTypes
<1>2. NumPushed \in Nat
  BY PushesCounted DEF ApiInv, ApiTypes
<1>3. UNCHANGED <<Retained, Reported>>
  BY DEF Retained, Reported, daemonVars
<1>4. ApiTypes'
  BY <1>1 DEF ApiInv, ApiTypes, daemonVars
<1>5. ResultsDistinct'
  BY <1>1, <1>2, <1>3 DEF ApiInv, ApiTypes, ResultsDistinct
<1>6. NothingLost' /\ ReportedOnce'
  BY <1>3 DEF ApiInv, NothingLost, ReportedOnce, daemonVars
<1>7. DaemonProgress'
  BY <1>3 DEF ApiInv, DaemonProgress, Draining, daemonVars
<1> QED
  BY <1>4, <1>5, <1>6, <1>7 DEF ApiInv

(* Nor does a run, by the daemon or by another thread in the midst of its reading. *)
LEMMA RunKeeps ==
  ASSUME ApiInv, Run, UNCHANGED <<n, i, max_id, reported>>,
         pc' = pc \/ (pc = "run" /\ pc' = "count")
  PROVE  ApiInv'
<1>1. /\ ApiTypes /\ ResultsDistinct /\ NothingLost /\ ReportedOnce /\ DaemonProgress
      /\ done \in Nat
  BY DEF ApiInv, ApiTypes
<1>2. /\ results' \in Seq(Nat) /\ Len(results) <= Len(results')
      /\ \A k \in 1 .. Len(results) : results'[k] = results[k]
      /\ \A k \in Len(results) + 1 .. Len(results') : results'[k] \in done + 1 .. done'
      /\ done' \in Nat /\ done <= done' /\ done' = NumPushed /\ calls' = calls
      /\ \A id \in done + 1 .. done' : \E k \in DOMAIN results' : results'[k] = id
      /\ \A j, k \in DOMAIN results' : results'[j] = results'[k] => j = k
  BY <1>1, RunAdds
<1> DEFINE len == Len(results)
           len2 == Len(results')
<1>3. /\ len \in Nat /\ DOMAIN results = 1 .. len
      /\ len2 \in Nat /\ DOMAIN results' = 1 .. len2 /\ len <= len2
      /\ \A k \in 1 .. len : results'[k] = results[k]
      /\ \A k \in len + 1 .. len2 : results'[k] \in done + 1 .. done'
  BY <1>1, <1>2, ReportLength, LenProperties
<1> HIDE DEF len, len2
<1>4. \A id \in Retained : id \in 1 .. done
  BY <1>1 DEF ResultsDistinct
<1>5. ASSUME NEW k \in 1 .. len2
      PROVE  \/ k \in 1 .. len /\ results'[k] = results[k] /\ results[k] \in Retained
             \/ k \in len + 1 .. len2 /\ results'[k] \in done + 1 .. done'
  <2>1. CASE k <= len
    BY <1>3, <2>1 DEF Retained
  <2>2. CASE k > len
    BY <1>3, <2>2
  <2> QED
    BY <1>3, <2>1, <2>2
<1>6. Retained \subseteq Retained'
  <2> SUFFICES ASSUME NEW k \in 1 .. len PROVE results[k] \in Retained'
    BY <1>3 DEF Retained
  <2>1. k \in 1 .. len2
    BY <1>3
  <2> QED
    BY <1>3, <2>1 DEF Retained
<1>7. UNCHANGED Reported
  BY DEF Reported
<1>8. NumPushed' = NumPushed
  BY <1>2 DEF NumPushed, Pushes
<1>9. ApiTypes'
  BY <1>1, <1>2 DEF ApiTypes
<1>10. ResultsDistinct'
  <2>1. \A id \in Retained' : id \in 1 .. done'
    <3> SUFFICES ASSUME NEW k \in 1 .. len2 PROVE results'[k] \in 1 .. done'
      BY <1>3 DEF Retained
    <3> QED
      BY SMTT(30), <1>1, <1>2, <1>4, <1>5
  <2> QED
    BY <1>2, <1>8, <2>1 DEF ResultsDistinct
<1>11. NothingLost'
  <2> SUFFICES ASSUME NEW id \in 1 .. done' PROVE id \in Retained' \cup Reported'
    BY DEF NothingLost
  <2>1. CASE id <= done
    BY <1>1, <1>2, <1>6, <1>7, <2>1 DEF NothingLost
  <2>2. CASE id > done
    BY <1>1, <1>2, <2>2 DEF Retained
  <2> QED
    BY <1>1, <2>1, <2>2
<1>12. ReportedOnce'
  BY <1>1, <1>2, <1>7 DEF ReportedOnce
<1>13. \A k \in len + 1 .. len2 : results'[k] \notin Reported
  BY <1>1, <1>2, <1>3 DEF ReportedOnce
<1>14. pc' \in {"run", "count"} => Reported' \cap Retained' = {}
  <2> SUFFICES ASSUME pc \in {"run", "count"}, NEW k \in 1 .. len2
               PROVE  results'[k] \notin Reported
    BY <1>1, <1>3, <1>7 DEF Retained, ApiTypes
  <2>1. Reported \cap Retained = {}
    BY <1>1 DEF DaemonProgress
  <2> QED
    BY <1>5, <1>13, <2>1
<1>15. Draining => Draining'
  <2> SUFFICES ASSUME Draining PROVE Draining'
    OBVIOUS
  <2>1. n \in Nat /\ i \in Nat /\ 0 < n /\ n <= len /\ i <= n
    BY <1>1 DEF Draining, ApiTypes, len
  <2>2. n <= len2
    BY <1>3, <2>1
  <2>3. \A k \in 1 .. i : results'[k] = results[k]
    BY <1>3, <2>1
  <2>4. ASSUME NEW k \in i + 1 .. len2 PROVE results'[k] \notin Reported
    <3>1. CASE k <= len
      BY <1>3, <2>1, <3>1 DEF Draining, len
    <3>2. CASE k > len
      BY <1>3, <1>13, <2>1, <3>2
    <3> QED
      BY <1>3, <2>1, <3>1, <3>2
  <2>5. ASSUME NEW j \in 1 .. n, NEW k \in n + 1 .. len2 PROVE results'[j] < results'[k]
    <3>1. results'[j] = results[j] /\ results[j] \in 1 .. done
      BY <1>3, <1>4, <2>1 DEF Retained
    <3>2. CASE k <= len
      BY <1>3, <2>1, <3>1, <3>2 DEF Draining, len
    <3>3. CASE k > len
      BY <1>1, <1>2, <1>3, <2>1, <3>1, <3>3
    <3> QED
      BY <1>3, <2>1, <3>2, <3>3
  <2> QED
    BY <1>7, <2>1, <2>2, <2>3, <2>4, <2>5 DEF Draining, len2
<1>16. DaemonProgress'
  BY <1>1, <1>14, <1>15 DEF DaemonProgress
<1> QED
  BY <1>9, <1>10, <1>11, <1>12, <1>16 DEF ApiInv
-----------------------------------------------------------------------------
(* The daemon's own calls. *)
LEMMA CountKeeps == ApiInv /\ DaemonCount => ApiInv'
<1> SUFFICES ASSUME ApiInv, DaemonCount PROVE ApiInv'
  OBVIOUS
<1>1. /\ ApiTypes /\ ResultsDistinct /\ NothingLost /\ ReportedOnce /\ DaemonProgress
      /\ Len(results) \in Nat /\ DOMAIN results = 1 .. Len(results)
  BY ReportLength DEF ApiInv
<1>2. UNCHANGED <<calls, results, done, reported>>
  BY DEF DaemonCount, callVars
<1>3. UNCHANGED <<Retained, Reported, NumPushed>>
  BY <1>2 DEF Retained, Reported, NumPushed, Pushes
<1>4. ApiTypes'
  BY <1>1, <1>2 DEF DaemonCount, ApiTypes
<1>5. ResultsDistinct' /\ NothingLost' /\ ReportedOnce'
  BY <1>1, <1>2, <1>3 DEF ResultsDistinct, NothingLost, ReportedOnce
<1>6. Reported \cap Retained = {}
  BY <1>1 DEF DaemonProgress, DaemonCount
<1>7. CASE Len(results) = 0
  <2>1. pc' = "run"
    BY <1>7 DEF DaemonCount
  <2> QED
    BY <1>3, <1>4, <1>5, <1>6, <2>1 DEF DaemonProgress, ApiInv
<1>8. CASE Len(results) > 0
  <2>1. n' = Len(results) /\ i' = 0 /\ max_id' = 0 /\ pc' = "read"
    BY <1>1, <1>8 DEF DaemonCount
  <2>2. \A k \in 1 .. Len(results) : results[k] \notin Reported
    BY <1>1, <1>6 DEF Retained
  <2>3. Draining'
    BY <1>1, <1>2, <1>3, <1>8, <2>1, <2>2 DEF Draining
  <2> QED
    BY <1>4, <1>5, <1>8, <2>1, <2>3 DEF DaemonProgress, ApiInv
<1> QED
  BY <1>1, <1>7, <1>8

LEMMA ReadKeeps == ApiInv /\ DaemonRead => ApiInv'
<1> SUFFICES ASSUME ApiInv, DaemonRead PROVE ApiInv'
  OBVIOUS
<1>1. /\ ApiTypes /\ ResultsDistinct /\ NothingLost /\ ReportedOnce
      /\ Len(results) \in Nat /\ DOMAIN results = 1 .. Len(results)
      /\ Len(reported) \in Nat /\ DOMAIN reported = 1 .. Len(reported)
  BY ReportLength DEF ApiInv
<1>2. Draining /\ i < n /\ i \in Nat /\ n \in Nat /\ max_id \in Nat /\ done \in Nat
  BY DEF ApiInv, ApiTypes, DaemonProgress, DaemonRead
<1>3. i + 1 \in 1 .. Len(results)
  BY <1>1, <1>2 DEF Draining
<1> DEFINE id == results[i + 1]
<1>4. id \in Retained /\ id \in Nat
  BY <1>1, <1>3, ElementOfSeq DEF Retained, ApiTypes
<1>5. /\ reported' = Append(reported, id)
      /\ max_id' = IF id > max_id THEN id ELSE max_id
      /\ i' = i + 1 /\ pc' = IF i + 1 = n THEN "prune" ELSE "read"
      /\ UNCHANGED <<calls, results, done, n>>
  BY <1>1, <1>2, <1>3 DEF DaemonRead, ResultAt, callVars
<1>6. id \notin Reported
  BY <1>1, <1>2, <1>3 DEF Draining
<1> HIDE DEF id
<1>7. /\ reported' \in Seq(Nat) /\ DOMAIN reported' = 1 .. Len(reported) + 1
      /\ \A k \in 1 .. Len(reported) : reported'[k] = reported[k]
      /\ reported'[Len(reported) + 1] = id
  BY <1>1, <1>4, <1>5, AppendProperties, LenProperties DEF ApiTypes
<1>8. Reported' = Reported \cup {id}
  <2>1. \A k \in 1 .. Len(reported) + 1 : k \in 1 .. Len(reported) \/ k = Len(reported) + 1
    BY <1>1
  <2>2. 1 .. Len(reported) \subseteq 1 .. Len(reported) + 1 /\ Len(reported) + 1 \in 1 .. Len(reported) + 1
    BY <1>1
  <2> QED
    BY <1>1, <1>7, <2>1, <2>2 DEF Reported
<1>9. UNCHANGED <<Retained, NumPushed>>
  BY <1>5 DEF Retained, NumPushed, Pushes
<1>10. ApiTypes'
  BY <1>1, <1>2, <1>4, <1>5, <1>7 DEF ApiTypes
<1>11. ResultsDistinct' /\ NothingLost'
  BY <1>1, <1>5, <1>8, <1>9 DEF ResultsDistinct, NothingLost
<1>12. ReportedOnce'
  <2>1. Reported' \subseteq 1 .. done'
    BY <1>1, <1>4, <1>5, <1>8 DEF ReportedOnce, ResultsDistinct
  <2>2. ASSUME NEW j \in 1 .. Len(reported) + 1, NEW k \in 1 .. Len(reported) + 1,
               reported'[j] = reported'[k]
        PROVE  j = k
    <3>1. \A l \in 1 .. Len(reported) : reported[l] # id
      BY <1>1, <1>6 DEF Reported
    <3> QED
      BY SMTT(30), <1>1, <1>7, <2>2, <3>1 DEF ReportedOnce
  <2> QED
    BY <1>7, <2>1, <2>2 DEF ReportedOnce
<1>13. Draining'
  <2>1. ASSUME NEW k \in 1 .. i + 1 PROVE results[k] \in Reported' /\ results[k] <= max_id'
    <3>1. CASE k = i + 1
      BY <1>2, <1>4, <1>5, <1>8, <3>1 DEF id
    <3>2. CASE k \in 1 .. i
      <4>1. results[k] \in Reported /\ results[k] <= max_id /\ results[k] \in Nat
        BY <1>1, <1>2, <1>3, <3>2, ElementOfSeq DEF Draining, ApiTypes
      <4> QED
        BY <1>2, <1>4, <1>5, <1>8, <4>1
    <3> QED
      BY <1>2, <3>1, <3>2
  <2>2. ASSUME NEW k \in i + 2 .. Len(results) PROVE results[k] \notin Reported'
    <3>1. results[k] \notin Reported
      BY <1>1, <1>2, <1>3 DEF Draining
    <3>2. results[k] # id
      BY <1>1, <1>2, <1>3 DEF ResultsDistinct, id
    <3> QED
      BY <1>8, <3>1, <3>2
  <2>3. \E k \in 1 .. i + 1 : max_id' = results[k]
    <3>1. CASE id > max_id
      BY <1>2, <1>5, <3>1 DEF id
    <3>2. CASE ~ (id > max_id) /\ i > 0
      <4>1. PICK k \in 1 .. i : max_id = results[k]
        BY <1>2, <3>2 DEF Draining
      <4> QED
        BY <1>2, <1>5, <3>2, <4>1
    <3>3. CASE ~ (id > max_id) /\ i = 0
      <4>1. id \in 1 .. done /\ max_id = 0
        BY <1>1, <1>2, <1>4, <3>3 DEF Draining, ResultsDistinct
      <4> QED
        BY <1>2, <3>3, <4>1
    <3> QED
      BY <1>2, <3>1, <3>2, <3>3
  <2>4. i + 1 + 1 = i + 2 /\ i + 1 <= n /\ i + 1 # 0
    BY <1>2
  <2> QED
    BY <1>2, <1>5, <2>1, <2>2, <2>3, <2>4 DEF Draining
<1>14. DaemonProgress'
  BY <1>2, <1>5, <1>13 DEF DaemonProgress
<1> QED
  BY <1>10, <1>11, <1>12, <1>14 DEF ApiInv

LEMMA PruneKeepsInv == ApiInv /\ DaemonPrune => ApiInv'
<1> SUFFICES ASSUME ApiInv, DaemonPrune PROVE ApiInv'
  OBVIOUS
<1>1. /\ ApiTypes /\ ResultsDistinct /\ NothingLost /\ ReportedOnce
      /\ Len(results) \in Nat /\ DOMAIN results = 1 .. Len(results)
  BY ReportLength DEF ApiInv
<1>2. Draining /\ i = n /\ n \in Nat /\ max_id \in Nat /\ 0 < n /\ n <= Len(results)
  BY DEF ApiInv, ApiTypes, DaemonProgress, DaemonPrune, Draining
<1>3. /\ PruneResultsBefore(max_id) /\ pc' = "run"
      /\ UNCHANGED <<done, n, i, max_id, reported>>
  BY DEF DaemonPrune, PruneResultsBefore
<1>4. /\ results' \in Seq(Nat)
      /\ Retained' = {id \in Retained : id > max_id}
      /\ \A j, k \in DOMAIN results' : results'[j] = results'[k] => j = k
  BY <1>1, <1>2, <1>3, PruneKeeps
<1>5. calls' \in Seq(Range(calls')) /\ NumPushed <= NumPushed' /\ NumPushed' \in Nat
  BY <1>1, <1>3, PushesStay DEF ApiTypes, PruneResultsBefore
<1>6. NumPushed \in Nat /\ done \in Nat
  BY <1>1, PushesCounted DEF ApiTypes
<1>7. UNCHANGED Reported
  BY <1>3 DEF Reported
<1>8. ASSUME NEW k \in 1 .. Len(results)
      PROVE  IF results[k] > max_id THEN results[k] \notin Reported ELSE results[k] \in Reported
  <2>1. CASE k <= n
    <3>1. results[k] \in Nat /\ results[k] <= max_id /\ results[k] \in Reported
      BY <1>1, <1>2, <2>1, ElementOfSeq DEF Draining, ApiTypes
    <3> QED
      BY <1>2, <3>1
  <2>2. CASE k > n
    <3>1. PICK j \in 1 .. n : max_id = results[j]
      BY <1>2 DEF Draining
    <3>2. results[j] < results[k] /\ results[k] \notin Reported
      BY <1>1, <1>2, <2>2 DEF Draining
    <3>3. results[k] \in Nat
      BY <1>1, ElementOfSeq DEF ApiTypes
    <3> QED
      BY <1>2, <3>1, <3>2, <3>3
  <2> QED
    BY <1>1, <1>2, <2>1, <2>2
<1>9. ApiTypes'
  BY <1>1, <1>3, <1>4, <1>5 DEF ApiTypes
<1>10. ResultsDistinct'
  <2>1. done' <= NumPushed'
    BY <1>1, <1>3, <1>5, <1>6 DEF ResultsDistinct
  <2>2. Retained' \subseteq 1 .. done'
    BY <1>1, <1>3, <1>4 DEF ResultsDistinct
  <2> QED
    BY <1>4, <2>1, <2>2 DEF ResultsDistinct
<1>11. NothingLost'
  <2> SUFFICES ASSUME NEW id \in 1 .. done, id \notin Reported PROVE id \in Retained'
    BY <1>3, <1>7 DEF NothingLost
  <2>1. PICK k \in 1 .. Len(results) : results[k] = id
    BY <1>1 DEF NothingLost, Retained
  <2>2. id > max_id
    BY <1>8, <2>1
  <2> QED
    BY <1>1, <1>4, <2>1, <2>2 DEF Retained
<1>12. ReportedOnce'
  BY <1>1, <1>3, <1>7 DEF ReportedOnce
<1>13. Reported \cap Retained' = {}
  BY <1>1, <1>4, <1>8 DEF Retained
<1>14. DaemonProgress'
  BY <1>3, <1>7, <1>13 DEF DaemonProgress
<1> QED
  BY <1>9, <1>10, <1>11, <1>12, <1>14 DEF ApiInv

-----------------------------------------------------------------------------
LEMMA ApiInvInitially == ApiInit => ApiInv
<1> SUFFICES ASSUME ApiInit PROVE ApiInv
  OBVIOUS
<1>1. /\ calls = <<>> /\ results = <<>> /\ done = 0 /\ reported = <<>>
      /\ pc = "run" /\ n = 0 /\ i = 0 /\ max_id = 0
  BY DEF ApiInit, Init
<1>2. DOMAIN calls = {} /\ DOMAIN results = {} /\ DOMAIN reported = {}
  BY <1>1
<1>3. Retained = {} /\ Reported = {} /\ Pushes = {}
  BY <1>2 DEF Retained, Reported, Pushes
<1>4. NumPushed = 0
  BY <1>3, FS_EmptySet DEF NumPushed
<1>5. ApiTypes
  BY <1>1, EmptySeq DEF ApiTypes
<1> QED
  BY <1>1, <1>2, <1>3, <1>4, <1>5
     DEF ApiInv, ResultsDistinct, NothingLost, ReportedOnce, DaemonProgress

LEMMA ApiInvKept == ApiInv /\ [ApiNext]_vars => ApiInv'
<1> SUFFICES ASSUME ApiInv, [ApiNext]_vars PROVE ApiInv'
  OBVIOUS
<1>1. ASSUME NEW core \in Cores, NEW axi \in AxiIds, PushTxnCall(core, axi) PROVE ApiInv'
  BY <1>1, CallAdded DEF PushTxnCall, PushTxn
<1>2. ASSUME NEW core \in Cores, PushBarrierCall(core) PROVE ApiInv'
  BY <1>2, CallAdded DEF PushBarrierCall, PushBarrier
<1>3. CASE RunCall
  BY <1>3, RunKeeps DEF RunCall, daemonVars
<1>4. CASE UNCHANGED <<callVars, daemonVars>>
  <2>1. UNCHANGED <<calls, results, done, pc, n, i, max_id, reported>>
    BY <1>4 DEF callVars, daemonVars
  <2>2. UNCHANGED <<NumPushed, Retained, Reported>>
    BY <2>1 DEF NumPushed, Pushes, Retained, Reported
  <2>3. ApiTypes' /\ ResultsDistinct' /\ NothingLost' /\ ReportedOnce'
    BY <2>1, <2>2 DEF ApiInv, ApiTypes, ResultsDistinct, NothingLost, ReportedOnce
  <2>4. DaemonProgress'
    BY <2>1, <2>2 DEF ApiInv, DaemonProgress, Draining
  <2> QED
    BY <2>3, <2>4 DEF ApiInv
<1>5. CASE LoadMalformed
  BY <1>4, <1>5 DEF LoadMalformed
<1>6. ASSUME NEW t \in Threads, NEW core \in Cores, NEW file \in Files, BeginLoad(t, core, file)
      PROVE  ApiInv'
  BY <1>4, <1>6 DEF BeginLoad
<1>7. CASE LoadEntry
  BY <1>7, CallAdded DEF LoadEntry, PushTxn, PushBarrier
<1>8. CASE DaemonRun
  BY <1>8, RunKeeps DEF DaemonRun
<1>9. CASE DaemonCount \/ DaemonRead \/ DaemonPrune
  BY <1>9, CountKeeps, ReadKeeps, PruneKeepsInv
<1>10. CASE UNCHANGED vars
  BY <1>4, <1>10 DEF vars
<1> QED
  BY <1>1, <1>2, <1>3, <1>5, <1>6, <1>7, <1>8, <1>9, <1>10 DEF ApiNext, Daemon

(* While nobody loads, every log is in; while somebody does, every log is but the
   one whose last entries are still to be pushed. *)
Finished(l) == l.first + Len(l.entries) - 1 <= Len(calls)

HalfLoaded(l) ==
  /\ loading = [core |-> l.core, entries |-> loading.entries]
  /\ loading.entries \in Seq(Range(loading.entries))
  /\ Len(loading.entries) > 0
  /\ Len(loading.entries) = l.first + Len(l.entries) - 1 - Len(calls)
  /\ l.first <= Len(calls) + 1
  /\ \A k \in 1 .. Len(loading.entries) : loading.entries[k] = l.entries[Len(calls) + 1 - l.first + k]

LoadInv ==
  /\ calls \in Seq(Range(calls))
  /\ \A l \in loads :
       /\ l.first \in Nat \ {0} /\ Len(l.entries) \in Nat /\ DOMAIN l.entries = 1 .. Len(l.entries)
       /\ \/ Finished(l)
          \/ owner # Nobody /\ HalfLoaded(l)
  /\ LogLoadedWhole

(* A call added while nobody loads comes after every log. *)
LEMMA LaterCall ==
  ASSUME LoadInv, owner = Nobody, NEW call, calls' = Append(calls, call), UNCHANGED <<owner, loads>>
  PROVE  LoadInv'
<1>1. /\ calls' \in Seq(Range(calls')) /\ Len(calls) \in Nat /\ DOMAIN calls = 1 .. Len(calls)
      /\ Len(calls') = Len(calls) + 1
      /\ \A k \in DOMAIN calls : calls'[k] = calls[k]
  <2>1. calls' \in Seq(Range(calls')) /\ DOMAIN calls \subseteq DOMAIN calls'
        /\ \A k \in DOMAIN calls : calls'[k] = calls[k]
    BY AppendAnything DEF LoadInv
  <2>2. calls \in Seq(Range(calls) \cup {call})
    BY SeqMonotonic DEF LoadInv
  <2> QED
    BY <2>1, <2>2, AppendProperties, LenProperties
<1>2. ASSUME NEW l \in loads PROVE Finished(l) /\ Finished(l)'
  BY <1>1 DEF LoadInv, Finished
<1>3. ASSUME NEW l \in loads, NEW k \in DOMAIN l.entries
      PROVE  l.first + k - 1 \in DOMAIN calls
  BY <1>1, <1>2 DEF LoadInv, Finished
<1>4. LogLoadedWhole'
  BY <1>1, <1>3 DEF LoadInv, LogLoadedWhole
<1> QED
  BY <1>1, <1>2, <1>4 DEF LoadInv

(* A load begun has nothing in yet, and comes after everything. *)
LEMMA LoadBegun ==
  ASSUME LoadInv,
         NEW t \in Threads, NEW core \in Cores, NEW file \in Files, BeginLoad(t, core, file)
  PROVE  LoadInv'
<1> DEFINE rows == Rows(file)
<1>0. PICK load : load = [core |-> core, first |-> Len(calls) + 1, entries |-> rows]
  OBVIOUS
<1>1. /\ owner = Nobody /\ owner' = t /\ loading' = [core |-> core, entries |-> rows]
      /\ loads' = loads \cup {load} /\ calls' = calls /\ rows # <<>>
  BY <1>0 DEF BeginLoad, Free, callVars
<1>2. rows \in Seq(Range(rows))
  BY LogsAssumption
<1> HIDE DEF rows
<1>3. Len(rows) \in Nat \ {0} /\ DOMAIN rows = 1 .. Len(rows)
  BY <1>1, <1>2, EmptySeq, LenProperties
<1>4. Len(calls) \in Nat /\ DOMAIN calls = 1 .. Len(calls)
  BY LenProperties DEF LoadInv
<1>5. t # Nobody
  BY ApiAssumption
<1>6. load.core = core /\ load.first = Len(calls) + 1 /\ load.entries = rows
  BY <1>0
<1>7. HalfLoaded(load)'
  <2>1. /\ loading' = [core |-> load.core, entries |-> loading'.entries]
        /\ loading'.entries = rows /\ Len(calls') = Len(calls)
    BY <1>1, <1>6
  <2>2. Len(rows) = Len(calls) + 1 + Len(rows) - 1 - Len(calls)
    BY <1>3, <1>4
  <2>3. \A k \in 1 .. Len(rows) : Len(calls) + 1 - (Len(calls) + 1) + k = k
    BY <1>3, <1>4
  <2>4. \A k \in 1 .. Len(rows) : rows[k] = rows[Len(calls) + 1 - (Len(calls) + 1) + k]
    BY <2>3
  <2> QED
    BY <1>2, <1>3, <1>4, <1>6, <2>1, <2>2, <2>4 DEF HalfLoaded
<1>8. ASSUME NEW l \in loads PROVE Finished(l)'
  BY <1>1 DEF LoadInv, Finished
<1>9. ASSUME NEW k \in DOMAIN load.entries PROVE load.first + k - 1 \notin DOMAIN calls
  BY <1>3, <1>4, <1>6
<1>10. LogLoadedWhole'
  BY <1>1, <1>9 DEF LoadInv, LogLoadedWhole
<1>11. load.first \in Nat \ {0} /\ Len(load.entries) \in Nat
       /\ DOMAIN load.entries = 1 .. Len(load.entries)
  BY <1>3, <1>4, <1>6
<1> QED
  BY <1>1, <1>5, <1>7, <1>8, <1>10, <1>11 DEF LoadInv

(* The next entry goes in behind those of its log that are in. *)
LEMMA EntryLoaded ==
  ASSUME LoadInv, LoadEntry
  PROVE  LoadInv'
<1> DEFINE head == Head(loading.entries)
           len == Len(calls)
           rest == loading.entries
<1>1. PICK call : /\ calls' = Append(calls, call) /\ call.core = loading.core
                  /\ IF head.type = "BARRIER" THEN call.kind = "barrier"
                     ELSE call.kind = "txn" /\ call.axi = head.axi
  <2>1. CASE head.type = "BARRIER"
    <3>1. calls' = Append(calls, [kind |-> "barrier", core |-> loading.core])
      BY <2>1 DEF LoadEntry, PushBarrier
    <3> QED
      BY <2>1, <3>1
  <2>2. CASE head.type # "BARRIER"
    <3> DEFINE txn == [kind |-> "txn", core |-> loading.core, axi |-> head.axi,
                       txn_id |-> NumPushed + 1]
    <3>1. calls' = Append(calls, txn)
      BY <2>2 DEF LoadEntry, PushTxn
    <3>2. txn.kind = "txn" /\ txn.core = loading.core /\ txn.axi = head.axi
      OBVIOUS
    <3> QED
      BY <2>2, <3>1, <3>2
  <2> QED
    BY <2>1, <2>2
<1>2. /\ owner # Nobody /\ loads' = loads
      /\ loading' = [loading EXCEPT !.entries = Tail(@)]
      /\ owner' = IF Len(rest) = 1 THEN Nobody ELSE owner
  BY DEF LoadEntry
<1>3. /\ calls' \in Seq(Range(calls')) /\ len \in Nat /\ DOMAIN calls = 1 .. len
      /\ Len(calls') = len + 1 /\ DOMAIN calls' = 1 .. len + 1
      /\ \A k \in 1 .. len : calls'[k] = calls[k]
      /\ calls'[len + 1] = call
  <2>1. calls' \in Seq(Range(calls'))
    BY <1>1, AppendAnything DEF LoadInv
  <2>2. calls \in Seq(Range(calls) \cup {call})
    BY SeqMonotonic DEF LoadInv
  <2> QED
    BY <1>1, <2>1, <2>2, AppendProperties, LenProperties
<1> HIDE DEF len
<1>4. ASSUME NEW l \in loads, Finished(l)
      PROVE  /\ Finished(l)'
             /\ \A k \in DOMAIN l.entries : l.first + k - 1 \in 1 .. len
  BY <1>3, <1>4 DEF LoadInv, Finished, len
<1>5. ASSUME NEW l \in loads, HalfLoaded(l)
      PROVE  /\ l.first + Len(l.entries) - 1 > len /\ l.first <= len + 1
             /\ l.entries[len + 2 - l.first] = head
             /\ call.core = l.core
             /\ IF Len(rest) = 1 THEN Finished(l)' ELSE HalfLoaded(l)'
  <2> DEFINE first == l.first
             size == Len(l.entries)
             left == Len(rest)
  <2>1. /\ rest \in Seq(Range(rest)) /\ rest # <<>> /\ left \in Nat /\ left > 0
        /\ left = first + size - 1 - len
        /\ \A k \in 1 .. left : rest[k] = l.entries[len + 1 - first + k]
        /\ first \in Nat /\ size \in Nat /\ loading.core = l.core
        /\ first <= len + 1
    BY <1>5, EmptySeq, LenProperties DEF HalfLoaded, LoadInv, len
  <2>2. /\ head = Head(rest) /\ loading = [core |-> l.core, entries |-> rest]
        /\ loading' = [loading EXCEPT !.entries = Tail(rest)]
    BY <1>2, <1>5 DEF HalfLoaded
  <2> HIDE DEF rest, head
  <2>21. head = rest[1] /\ Tail(rest) \in Seq(Range(rest)) /\ Len(Tail(rest)) = left - 1
        /\ \A k \in 1 .. left - 1 : Tail(rest)[k] = rest[k + 1]
    BY <2>1, <2>2, HeadTailProperties
  <2>3. loading' = [core |-> l.core, entries |-> Tail(rest)]
    BY <2>2
  <2> HIDE DEF first, size, left
  <2>4. l.entries[len + 2 - first] = head
    <3>1. len + 1 - first + 1 = len + 2 - first
      BY <1>3, <2>1
    <3>2. rest[1] = l.entries[len + 1 - first + 1]
      BY <2>1
    <3> QED
      BY <2>21, <3>1, <3>2
  <2>5. left = 1 => Finished(l)'
    <3> SUFFICES ASSUME left = 1 PROVE first + size - 1 <= len + 1
      BY <1>3 DEF Finished, first, size
    <3> QED
      BY <1>3, <2>1
  <2>6. left # 1 => HalfLoaded(l)'
    <3> SUFFICES ASSUME left # 1 PROVE HalfLoaded(l)'
      OBVIOUS
    <3> DEFINE tail == Tail(rest)
    <3>1. /\ loading' = [core |-> l.core, entries |-> loading'.entries]
          /\ loading'.entries = tail /\ Len(calls') = len + 1
      BY <1>3, <2>3
    <3>2. /\ tail \in Seq(Range(tail)) /\ Len(tail) > 0 /\ Len(tail) = left - 1
          /\ Len(tail) = first + size - 1 - (len + 1)
      <4>1. tail \in [1 .. Len(tail) -> Range(rest)] /\ Len(tail) \in Nat
        BY <2>21, LenProperties
      <4>2. tail \in [1 .. Len(tail) -> Range(tail)]
        BY <4>1 DEF Range
      <4>3. tail \in Seq(Range(tail))
        BY <4>1, <4>2, FunctionIsSequence
      <4> QED
        BY <1>3, <2>1, <2>21, <4>3
    <3> HIDE DEF tail
    <3>3. ASSUME NEW k \in 1 .. Len(tail)
          PROVE  tail[k] = l.entries[len + 1 + 1 - first + k]
      <4>1. k + 1 \in 1 .. left /\ k \in 1 .. left - 1 /\ k \in Nat
        BY <2>1, <3>2
      <4>2. tail[k] = rest[k + 1]
        BY <2>21, <4>1 DEF tail
      <4>3. len + 1 - first + (k + 1) = len + 1 + 1 - first + k
        BY <1>3, <2>1, <4>1
      <4>4. rest[k + 1] = l.entries[len + 1 - first + (k + 1)]
        BY <2>1, <4>1
      <4> QED
        BY <4>2, <4>3, <4>4
    <3>4. first <= len + 1 + 1
      BY <1>3, <2>1
    <3> QED
      BY <3>1, <3>2, <3>3, <3>4 DEF HalfLoaded, first, size
  <2>7. first + size - 1 > len
    BY <1>3, <2>1
  <2> QED
    BY <1>1, <2>1, <2>4, <2>5, <2>6, <2>7 DEF first, size, left
<1>6. ASSUME NEW l \in loads
      PROVE  \/ Finished(l)'
             \/ owner' # Nobody /\ HalfLoaded(l)'
  BY <1>2, <1>4, <1>5 DEF LoadInv
<1>7. ASSUME NEW l \in loads, NEW k \in DOMAIN l.entries, l.first + k - 1 \in DOMAIN calls'
      PROVE  /\ calls'[l.first + k - 1].core = l.core
             /\ IF l.entries[k].type = "BARRIER" THEN calls'[l.first + k - 1].kind = "barrier"
                ELSE /\ calls'[l.first + k - 1].kind = "txn"
                     /\ calls'[l.first + k - 1].axi = l.entries[k].axi
  <2> DEFINE at == l.first + k - 1
  <2>1. l.first \in Nat /\ k \in Nat /\ at \in 1 .. len + 1
    BY <1>3, <1>7 DEF LoadInv
  <2>2. CASE at \in 1 .. len
    <3>1. calls'[at] = calls[at] /\ at \in DOMAIN calls
      BY <1>3, <2>2
    <3>2. /\ calls[at].core = l.core
          /\ IF l.entries[k].type = "BARRIER" THEN calls[at].kind = "barrier"
             ELSE calls[at].kind = "txn" /\ calls[at].axi = l.entries[k].axi
      BY <3>1 DEF LoadInv, LogLoadedWhole
    <3> QED
      BY <3>1, <3>2
  <2>3. CASE at = len + 1
    <3>1. ~ Finished(l)
      BY <1>3, <1>4, <2>3
    <3>2. HalfLoaded(l)
      BY <3>1 DEF LoadInv
    <3>3. k = len + 2 - l.first
      BY <1>3, <2>1, <2>3
    <3>4. l.entries[k] = head /\ call.core = l.core
      BY <1>5, <3>2, <3>3
    <3>5. calls'[at] = call
      BY <1>3, <2>3
    <3> HIDE DEF head, at
    <3> QED
      BY <1>1, <3>4, <3>5 DEF at
  <2> QED
    BY <1>3, <2>1, <2>2, <2>3
<1>8. LogLoadedWhole'
  BY <1>2, <1>7 DEF LogLoadedWhole
<1> QED
  BY <1>2, <1>3, <1>6, <1>8 DEF LoadInv

LEMMA LoadInvInitially == ApiInit => LoadInv
BY EmptySeq DEF ApiInit, Init, LoadInv, LogLoadedWhole, Range

LEMMA LoadInvKept == LoadInv /\ [ApiNext]_vars => LoadInv'
<1> SUFFICES ASSUME LoadInv, [ApiNext]_vars PROVE LoadInv'
  OBVIOUS
<1>1. ASSUME NEW core \in Cores, NEW axi \in AxiIds, PushTxnCall(core, axi) PROVE LoadInv'
  BY <1>1, LaterCall DEF PushTxnCall, PushTxn, Free, loadVars
<1>2. ASSUME NEW core \in Cores, PushBarrierCall(core) PROVE LoadInv'
  BY <1>2, LaterCall DEF PushBarrierCall, PushBarrier, Free, loadVars
<1>3. CASE UNCHANGED <<calls, owner, loading, loads>>
  BY <1>3 DEF LoadInv, Finished, HalfLoaded, LogLoadedWhole
<1>4. CASE RunCall \/ LoadMalformed \/ DaemonRun \/ DaemonCount \/ DaemonRead \/ UNCHANGED vars
  BY <1>3, <1>4 DEF RunCall, LoadMalformed, DaemonRun, DaemonCount, DaemonRead, Run, vars,
     callVars, loadVars
<1>5. ASSUME NEW t \in Threads, NEW core \in Cores, NEW file \in Files, BeginLoad(t, core, file)
      PROVE  LoadInv'
  BY <1>5, LoadBegun
<1>6. CASE LoadEntry
  BY <1>6, EntryLoaded
<1>7. CASE DaemonPrune
  BY <1>7, LaterCall DEF DaemonPrune, PruneResultsBefore, Free, loadVars
<1> QED
  BY <1>1, <1>2, <1>4, <1>5, <1>6, <1>7 DEF ApiNext, Daemon

(* A log goes in as one piece: nobody else's push comes between its transactions. *)
THEOREM LogsLoadWhole == ApiSpec => []LogLoadedWhole
<1>1. LoadInv => LogLoadedWhole
  BY DEF LoadInv
<1> QED
  BY <1>1, LoadInvInitially, LoadInvKept, PTL DEF ApiSpec

(* Whatever a summary counts is retained or reported: pruning through the highest
   id reported loses nothing that another thread's run has added meanwhile. *)
THEOREM DaemonLosesNothing == ApiSpec => []NothingLost
<1>1. ApiInv => NothingLost
  BY DEF ApiInv
<1> QED
  BY <1>1, ApiInvInitially, ApiInvKept, PTL DEF ApiSpec

(* The daemon reports nothing twice, and nothing that is not over: the index it
   reads at still names the result it counted. *)
THEOREM DaemonReportsOnce == ApiSpec => []ReportedOnce
<1>1. ApiInv => ReportedOnce
  BY DEF ApiInv
<1> QED
  BY <1>1, ApiInvInitially, ApiInvKept, PTL DEF ApiSpec
=============================================================================
