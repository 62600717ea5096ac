----------------------------- MODULE EngineCalls -----------------------------
(***************************************************************************)
(* What an engine promises to a caller, whatever the hardware it models:   *)
(* ids count up from 1 in the order of the pushes, a run finishes all that *)
(* was pushed before it and reports each transaction once, the results of  *)
(* a stream (a core and an id) in the order they were pushed and those of  *)
(* a core in the order of its barriers, and pruning takes away results and *)
(* nothing else.                                                           *)
(***************************************************************************)
EXTENDS Integers, Sequences, FiniteSets, Functions

CONSTANTS
  Cores, AxiIds,
  MaxCalls            \* bound on the transactions and barriers pushed

VARIABLES
  calls,              \* the calls made between runs, in order
  results,            \* the ids the result calls give access to, by index
  done                \* summary().total_txns: the transactions with ids 1 .. done are over

callVars == <<calls, results, done>>

ASSUME CallsAssumption == MaxCalls \in Nat

Pushes == {i \in DOMAIN calls : calls[i].kind = "txn"}
NumPushed == Cardinality(Pushes)

(* n more pushes are within the bound. *)
Allowed(n) == Cardinality({i \in DOMAIN calls : calls[i].kind # "prune"}) + n <= MaxCalls

(* Transactions i and j (calls) must finish in the order they were pushed. *)
Ordered(i, j) ==
  /\ i < j /\ calls[i].core = calls[j].core
  /\ \/ calls[i].axi = calls[j].axi
     \/ \E b \in i .. j : calls[b].kind = "barrier" /\ calls[b].core = calls[i].core

-----------------------------------------------------------------------------
PushTxn(core, axi) ==
  /\ Allowed(1)
  /\ calls' = Append(calls, [kind |-> "txn", core |-> core, axi |-> axi, txn_id |-> NumPushed + 1])
  /\ UNCHANGED <<results, done>>

PushBarrier(core) ==
  /\ Allowed(1)
  /\ calls' = Append(calls, [kind |-> "barrier", core |-> core])
  /\ UNCHANGED <<results, done>>

(* The orders a run may finish what is not over in. *)
FinishingOrders ==
  {order \in Bijection(1 .. NumPushed - done, done + 1 .. NumPushed) :
     \A i, j \in Pushes : \A p, q \in DOMAIN order :
       /\ Ordered(i, j)
       /\ order[p] = calls[i].txn_id /\ order[q] = calls[j].txn_id
       => p < q}

(* Mutant: a run stops at the first barrier, and so do all that follow. *)
RunToBarrier ==
  /\ \A b \in DOMAIN calls : calls[b].kind # "barrier"
  /\ \E order \in FinishingOrders :
       results' = results \o order /\ done' = NumPushed /\ UNCHANGED calls

Run ==
  \E order \in FinishingOrders :
    /\ results' = results \o order
    /\ done' = NumPushed
    /\ UNCHANGED calls

(* Mutant: a result with the very id given is kept. *)
KeptWithLast(max_id) == {k \in DOMAIN results : results[k] >= max_id}

Kept(max_id) == {k \in DOMAIN results : results[k] > max_id}

(* The results kept move up, in the order they are in. *)
PruneResultsBefore(max_id) ==
  /\ calls' = Append(calls, [kind |-> "prune", txn_id |-> max_id])
  /\ \E place \in Bijection(1 .. Cardinality(Kept(max_id)), Kept(max_id)) :
       /\ \A p, q \in DOMAIN place : p < q => place[p] < place[q]
       /\ results' = [p \in DOMAIN place |-> results[place[p]]]
  /\ UNCHANGED done

Init == calls = <<>> /\ results = <<>> /\ done = 0

Next ==
  \/ \E core \in Cores, axi \in AxiIds : PushTxn(core, axi)
  \/ \E core \in Cores : PushBarrier(core)
  \/ Run
  \/ \E max_id \in 1 .. done : PruneResultsBefore(max_id)

Spec == Init /\ [][Next]_callVars
=============================================================================
