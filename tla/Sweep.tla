-------------------------------- MODULE Sweep --------------------------------
(***************************************************************************)
(* tools/ddrtiming_sweep.cpp: the points of a parameter sweep, claimed by  *)
(* a pool of threads from an atomic counter.  A point copies the base      *)
(* configuration, sets its own value at the path of every axis, writes the *)
(* tree to a file of its own, loads and runs that file, and fills its row. *)
(*                                                                         *)
(* A json::Value is a reference: two values may share the objects they     *)
(* hold.  A tree is a function from the paths of its leaves; `heap` says   *)
(* which tree a reference leads to, and a thread works on the tree its     *)
(* point_cfg refers to.                                                    *)
(***************************************************************************)
EXTENDS Integers, FiniteSetsExt, SequencesExt

CONSTANTS
  Specs,              \* what may be asked for: base tree, axes, jobs, baseline index
  MaxThreads,         \* bound on the threads of a sweep
  Accepts(_),         \* a tree loads, and its logs run
  Metric(_)           \* the metric reported of an accepted tree

(* An axis is a path and a list of candidate values. *)
IsList(list) == Len(list) \in Nat /\ DOMAIN list = 1 .. Len(list)

ASSUME SpecsAssumption ==
  /\ MaxThreads \in Nat \ {0}
  /\ \A asked \in Specs :
       /\ asked.jobs \in Int /\ asked.has_baseline \in BOOLEAN
       /\ IsList(asked.axes) /\ \A k \in DOMAIN asked.axes : IsList(asked.axes[k].values)

VARIABLES
  spec,
  stage,              \* main(): "spec", "running", "reported" or "refused"
  next,               \* the atomic counter
  pc, point, axis,    \* of a thread: its next step, and what it works on
  point_cfg,          \* of a thread: a reference
  heap,               \* the trees, by reference
  files,              \* point_<N>.json
  results,            \* one row per point, in order
  report              \* the rows written out

threadVars == <<next, pc, point, axis, point_cfg, heap, files, results>>
vars == <<spec, stage, threadVars, report>>

Base == 0
Threads == 1 .. MaxThreads
NoRow == [ok |-> FALSE, axis_values |-> <<>>]

-----------------------------------------------------------------------------
(***************************************************************************)
(* The plan: axis 1 varies slowest.                                        *)
(***************************************************************************)
Sizes(axes) == [k \in DOMAIN axes |-> Len(axes[k].values)]

(* build_plan: the points an axis steps over are those of the axes after it; all
   of them make the stride before the first axis. *)
Strides(axes) ==
  LET stride[k \in 0 .. Len(axes)] ==
        IF k = Len(axes) THEN 1 ELSE stride[k + 1] * Sizes(axes)[k + 1]
  IN  stride

TotalPoints(axes) == Strides(axes)[0]

(* point_axis_indices, and the value each axis has at point p. *)
AxisIndex(axes, p, k) == ((p \div Strides(axes)[k]) % Sizes(axes)[k]) + 1

AxisValues(axes, p) == [k \in DOMAIN axes |-> axes[k].values[AxisIndex(axes, p, k)]]

NumThreads == Min({MaxThreads, Max({1, spec.jobs}), Max({1, TotalPoints(spec.axes)})})

(* set_json_path: whatever was at, above or below the path gives way. *)
SetPath(tree, path, value) ==
  LET kept == {q \in DOMAIN tree : ~ IsPrefix(q, path) /\ ~ IsPrefix(path, q)}
  IN  [q \in kept \cup {path} |-> IF q = path THEN value ELSE tree[q]]

-----------------------------------------------------------------------------
Init ==
  /\ spec \in Specs
  /\ stage = "spec" /\ next = 0
  /\ pc = [t \in Threads |-> "idle"] /\ point = [t \in Threads |-> 0]
  /\ axis = [t \in Threads |-> 0] /\ point_cfg = [t \in Threads |-> Base]
  /\ heap = [r \in {Base} \cup Threads |-> <<>>]
  /\ files = <<>> /\ results = <<>> /\ report = <<>>

(* An axis with no value, or a baseline that is no point: exit 1, nothing run. *)
BadSpec ==
  \/ \E k \in DOMAIN spec.axes : Sizes(spec.axes)[k] = 0
  \/ spec.has_baseline /\ spec.baseline \notin 0 .. TotalPoints(spec.axes) - 1

Refuse ==
  /\ stage = "spec" /\ BadSpec
  /\ stage' = "refused"
  /\ UNCHANGED <<spec, threadVars, report>>

Start ==
  /\ stage = "spec" /\ ~ BadSpec
  /\ stage' = "running"
  /\ heap' = [heap EXCEPT ![Base] = spec.base]
  /\ results' = [p \in 0 .. TotalPoints(spec.axes) - 1 |-> NoRow]
  /\ pc' = [t \in Threads |-> IF t <= NumThreads THEN "claim" ELSE "joined"]
  /\ UNCHANGED <<spec, next, point, axis, point_cfg, files, report>>

-----------------------------------------------------------------------------
(***************************************************************************)
(* A thread.                                                               *)
(***************************************************************************)
Claim(t) ==
  /\ pc[t] = "claim"
  /\ next' = next + 1
  /\ point' = [point EXCEPT ![t] = next]
  /\ pc' = [pc EXCEPT ![t] = IF next \in DOMAIN results THEN "copy" ELSE "joined"]
  /\ UNCHANGED <<axis, point_cfg, heap, files, results>>

(* Mutant: the copy a json::Value makes of itself. *)
ShallowCopy(t) ==
  /\ point_cfg' = [point_cfg EXCEPT ![t] = Base]
  /\ UNCHANGED heap

(* deep_copy *)
DeepCopy(t) ==
  /\ point_cfg' = [point_cfg EXCEPT ![t] = t]
  /\ heap' = [heap EXCEPT ![t] = heap[Base]]

Copy(t) ==
  /\ pc[t] = "copy"
  /\ DeepCopy(t)
  /\ axis' = [axis EXCEPT ![t] = 1]
  /\ pc' = [pc EXCEPT ![t] = "override"]
  /\ UNCHANGED <<next, point, files, results>>

Override(t) ==
  /\ pc[t] = "override" /\ axis[t] <= Len(spec.axes)
  /\ heap' = [heap EXCEPT ![point_cfg[t]] =
       SetPath(@, spec.axes[axis[t]].path, AxisValues(spec.axes, point[t])[axis[t]])]
  /\ axis' = [axis EXCEPT ![t] = @ + 1]
  /\ UNCHANGED <<next, pc, point, point_cfg, files, results>>

Write(t) ==
  /\ pc[t] = "override" /\ axis[t] > Len(spec.axes)
  /\ files' = [p \in DOMAIN files \cup {point[t]} |->
                 IF p = point[t] THEN heap[point_cfg[t]] ELSE files[p]]
  /\ pc' = [pc EXCEPT ![t] = "run"]
  /\ UNCHANGED <<next, point, axis, point_cfg, heap, results>>

(* Mutant: what a point throws ends the thread. *)
RunUncaught(t) ==
  /\ pc[t] = "run"
  /\ LET tree == files[point[t]]
     IN  IF Accepts(tree)
         THEN /\ results' = [results EXCEPT ![point[t]] =
                   [ok |-> TRUE, axis_values |-> AxisValues(spec.axes, point[t]),
                    metric |-> Metric(tree)]]
              /\ pc' = [pc EXCEPT ![t] = "claim"]
         ELSE pc' = [pc EXCEPT ![t] = "thrown"] /\ UNCHANGED results
  /\ UNCHANGED <<next, point, axis, point_cfg, heap, files>>

(* load_from_file, the engine, and the row; whatever throws is the row's error. *)
Run(t) ==
  /\ pc[t] = "run"
  /\ LET tree   == files[point[t]]
         values == AxisValues(spec.axes, point[t])
     IN  results' = [results EXCEPT ![point[t]] =
           IF Accepts(tree) THEN [ok |-> TRUE, axis_values |-> values, metric |-> Metric(tree)]
           ELSE [ok |-> FALSE, axis_values |-> values]]
  /\ pc' = [pc EXCEPT ![t] = "claim"]
  /\ UNCHANGED <<next, point, axis, point_cfg, heap, files>>

Thread(t) ==
  /\ stage = "running"
  /\ Claim(t) \/ Copy(t) \/ Override(t) \/ Write(t) \/ Run(t)
  /\ UNCHANGED <<spec, stage, report>>

-----------------------------------------------------------------------------
(***************************************************************************)
(* main(), after the threads have joined: every row, and its change        *)
(* against the baseline's where both ran and the baseline is not zero (a   *)
(* fraction, numerator and denominator).                                   *)
(***************************************************************************)
BaselineAvailable == spec.has_baseline /\ results[spec.baseline].ok

Delta(row) ==
  IF row.ok /\ results[spec.baseline].metric # 0
  THEN <<row.metric - results[spec.baseline].metric, results[spec.baseline].metric>>
  ELSE <<>>

Report ==
  /\ stage = "running" /\ \A t \in Threads : pc[t] = "joined"
  /\ report' = [p \in DOMAIN results |->
       [row |-> results[p], delta |-> IF BaselineAvailable THEN Delta(results[p]) ELSE <<>>]]
  /\ stage' = "reported"
  /\ UNCHANGED <<spec, threadVars>>

Next == Refuse \/ Start \/ (\E t \in Threads : Thread(t)) \/ Report

Spec == Init /\ [][Next]_vars

(* Every thread is scheduled, and so is main. *)
FairSpec ==
  /\ Spec
  /\ WF_vars(Refuse \/ Start \/ Report)
  /\ \A t \in Threads : WF_vars(Thread(t))
=============================================================================
